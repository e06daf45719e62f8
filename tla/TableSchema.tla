----------------------------- MODULE TableSchema -----------------------------
(***************************************************************************)
(* What the tool knows of the columns of a target table: the family of a   *)
(* column type (src/src/output/database/db_metadata.cpp), the generators a *)
(* column may have (db_schema_validator.cpp) and the values it converts    *)
(* (type_adapter.cpp).                                                     *)
(*                                                                         *)
(* A column has the name and the data type of the metadata, its length,    *)
(* precision and scale (NoNumber where there is none) and its enum values. *)
(* LowerCase is the lower-case spelling of each column and field name,     *)
(* WordsIn the words that the lower-case data types contain.               *)
(***************************************************************************)
EXTENDS Configuration

CONSTANTS LowerCase, WordsIn

NoNumber == -1

Families ==
    {"Boolean", "Integer", "Decimal", "DateTime", "Date", "Time", "Enum", "Binary", "String",
     "Unknown"}

(* classify_column_type: the first that applies.                           *)
Family(column) ==
    LET type == column.data_type
        contains(words) == words \cap WordsIn[type] # {}
    IN IF type \in {"tinyint(1)", "boolean", "bool"} THEN "Boolean"
       ELSE IF contains({"int"}) THEN "Integer"
       ELSE IF contains({"decimal", "numeric", "number", "float", "double", "real"}) THEN "Decimal"
       ELSE IF contains({"datetime", "timestamp"}) THEN "DateTime"
       ELSE IF type = "date" THEN "Date"
       ELSE IF type = "time" THEN "Time"
       ELSE IF contains({"enum"}) THEN "Enum"
       ELSE IF contains({"blob", "binary"}) THEN "Binary"
       ELSE IF contains({"char", "text", "json"}) THEN "String"
       ELSE "Unknown"

(* is_generator_type_compatible                                            *)
FamiliesFor(generator) ==
    CASE generator = "boolean" ->
            {"Boolean", "Integer", "Decimal", "Enum", "String", "Unknown"}
      [] generator \in {"integer", "sequence"} -> {"Integer", "Decimal", "Boolean"}
      [] generator = "decimal" -> {"Decimal", "Integer"}
      [] generator = "date" -> {"Date", "DateTime"}
      [] generator = "time" -> {"Time", "DateTime"}
      [] generator = "datetime" -> {"DateTime", "Date"}
      [] generator = "enum_item" -> {"Enum", "String", "Boolean"}
      [] generator = "regular_expression" -> Families
      [] generator \in {"uuid", "text"} -> {"String", "Unknown"}
      [] OTHER -> {"String", "Enum", "Unknown"}

Compatible(generator, column) == Family(column) \in FamiliesFor(generator)

(* validate_table_schema finds the column of a field whatever its case, and*)
(* of two columns with one lower-case name the last one.                   *)
ColumnsLike(columns, name) == {i \in DOMAIN columns : LowerCase[columns[i].name] = LowerCase[name]}

Misplaced(specs, columns) ==
    {k \in DOMAIN specs :
        LET found == ColumnsLike(columns, specs[k].name)
        IN found = {} \/ ~Compatible(specs[k].generator, columns[Max(found)])}

SchemaFits(specs, columns) == Misplaced(specs, columns) = {}

(* The import itself looks the columns up by their exact names.            *)
ColumnsFound(specs, columns) ==
    {specs[k].name : k \in DOMAIN specs} \subseteq {columns[i].name : i \in DOMAIN columns}

(***************************************************************************)
(* DefaultTypeAdapter::adapt of a generated value.  A value is a boolean   *)
(* token (true, 0, ...) or not; apart from that it is a whole number, a    *)
(* number in digits with a point, or another text.                         *)
(***************************************************************************)
Generated(form, text, length) ==
    [form |-> form, token |-> text \in {"0", "1", "true", "false", "t", "f", "yes", "no"},
     negative |-> FALSE, text |-> text, length |-> length]
GeneratedNumber(n) == [Generated("whole", ToString(n), 1) EXCEPT !.negative = n < 0]

Converts(column, v) ==
    CASE Family(column) = "Integer" ->
            v.token \/ (v.form = "whole" /\ ~(column.unsigned_number /\ v.negative))
      [] Family(column) = "Decimal" -> v.token \/ v.form \in {"whole", "decimal"}
      [] Family(column) = "Boolean" -> v.token
      [] Family(column) \in {"Date", "Time", "DateTime"} -> v.length > 0
      [] Family(column) = "Enum" ->
            column.enum_values = <<>> \/ v.text \in ToSet(column.enum_values)
      [] OTHER -> column.character_length > 0 => v.length <= column.character_length
=============================================================================
