---------------------------- MODULE ConfigSchema ----------------------------
(***************************************************************************)
(* The JSON Schema that "datagen schema" writes (src/src/cli/              *)
(* command_schema.cpp), as the documents it admits.  It is built from the  *)
(* same catalog as the reader but by its own code, with its own lists.     *)
(*                                                                         *)
(* The shape of an object says what its known members may be and which are *)
(* required; no shape of this schema allows other members.                 *)
(***************************************************************************)
EXTENDS Configuration

Shape(properties, required) == [properties |-> properties, required |-> required]

(* A JSON Schema integer is any whole number, "number" is any number.      *)
Matches(kind, v) ==
    /\ IF kind.type \in {"integer", "number"} THEN IsNumber(v) ELSE v.type = kind.type
    /\ kind.type = "integer" => v.num >= kind.least
    /\ kind.type = "string" /\ kind.least = 1 => v.text # ""
    /\ kind.type = "string" /\ kind.names # {} => v.text \in kind.names
    /\ kind.type = "array" /\ kind.names # {} =>
          \A i \in DOMAIN v.items : v.items[i] \in kind.names

(* An object that is missing has any shape.                                *)
HasShape(obj, path, shape) ==
    Has(obj, path) =>
        /\ IsObject(obj, path)
        /\ Keys(obj, path) \subseteq DOMAIN shape.properties
        /\ shape.required \subseteq Keys(obj, path)
        /\ \A k \in Keys(obj, path) : Matches(shape.properties[k], obj[Append(path, k)])

Nested == Kind("object", {}, 0)
ListOf(names) == Kind("array", names, 0)

(***************************************************************************)
(* The generators.                                                         *)
(***************************************************************************)
ParamKind(p) ==
    LET names == IF p \in DOMAIN SupportedValues THEN SupportedValues[p] ELSE {}
    IN CASE ParamType(p) = "string" -> OneOf(names)
         [] ParamType(p) = "number" -> Kind("number", {}, 0)
         [] ParamType(p) = "boolean" -> Boolean
         [] ParamType(p) = "array<string>" -> ListOf(names)

ConfigShape(g) ==
    Shape([p \in ConfigParams(g) |-> ParamKind(p)], {p \in ConfigParams(g) : Required(p)})

(* Mutant of Restrictions: unique is left to the reader.                   *)
RestrictionsOnGroups(g) ==
    IF Catalog[g].supports_data_linkage THEN {} ELSE {"group", "supports_group"}

Restrictions(g) ==
    (IF Catalog[g].supports_unique THEN {} ELSE {"unique", "supports_unique"})
    \cup (IF Catalog[g].supports_data_linkage THEN {} ELSE {"group", "supports_group"})

GeneratorConstraint(field, g) ==
    /\ HasShape(field, ConfigPath, ConfigShape(g))
    /\ Keys(field, <<>>) \cap Restrictions(g) = {}

FieldShape ==
    Shape([name |-> AnyText, generator |-> OneOf(Generators), config |-> Nested,
           unique |-> Boolean, group |-> AnyText, supports_unique |-> Boolean,
           supports_group |-> Boolean, null_value |-> Nested, default_value |-> Nested],
          {"name", "generator", "config"})

FieldAdmitted(field) ==
    /\ HasShape(field, <<>>, FieldShape)
    /\ GeneratorConstraint(field, field[<<"generator">>].text)

(***************************************************************************)
(* The output.                                                             *)
(***************************************************************************)
CsvShape == Shape([header |-> Boolean, line_ending |-> OneOf({"LF", "CRLF"})], {})
OptionShape(format) ==
    CASE format \in {"csv", "Tab-Delimited"} -> CsvShape
      [] format = "json" -> Shape([array |-> Boolean, include_null |-> Boolean], {})
      [] format = "sql" -> Shape([table |-> NonEmpty, create_table |-> Boolean], {})
      [] format = "Custom" -> Shape([delimiter |-> NonEmpty, quote |-> AnyText,
                                     header |-> Boolean, line_ending |-> OneOf({"LF", "CRLF"})], {})

FileShape ==
    Shape([format |-> OneOf({"csv", "json", "sql", "Tab-Delimited", "Custom"}),
           options |-> Nested], {"format"})

FileAdmitted(root) ==
    /\ HasShape(root, FilePath, FileShape)
    /\ Has(root, FilePath) =>
          HasShape(root, OptionsPath, OptionShape(root[Append(FilePath, "format")].text))

DatabaseShape ==
    Shape([connection |-> NonEmpty, table |-> NonEmpty,
           mode |-> OneOf({"fast", "balanced", "safe"}),
           write_mode |-> OneOf({"append", "truncate", "upsert"}),
           transaction_mode |-> OneOf({"per-batch", "per-run", "none"}),
           error_policy |-> OneOf({"stop", "continue", "rollback"}), advanced |-> Nested],
          {"connection", "table"})
AdvancedShape ==
    Shape([insert_mode |-> OneOf({"insert", "load"}), batch_size |-> AtLeast(1),
           queue_size |-> AtLeast(1), threads |-> AtLeast(1),
           rate_limit_rows_per_sec |-> AtLeast(0)], {})

OutputShape ==
    Shape([type |-> OneOf({"file", "database"}), file |-> Nested, database |-> Nested], {})

OutputAdmitted(root) ==
    /\ HasShape(root, OutputPath, OutputShape)
    /\ Has(root, <<"output", "type">>) => Has(root, <<"output", root[<<"output", "type">>].text>>)
    /\ FileAdmitted(root)
    /\ HasShape(root, DatabasePath, DatabaseShape)
    /\ HasShape(root, AdvancedPath, AdvancedShape)

(***************************************************************************)
(* The whole document; minItems is 1.                                      *)
(***************************************************************************)
RootShape ==
    Shape([rows |-> AtLeast(1), output |-> Nested, fields |-> ListOf({})]
          ++ At("$schema", AnyText),
          {"fields"})

SchemaAdmits(document) ==
    /\ HasShape(document.root, <<>>, RootShape)
    /\ document.fields # <<>>
    /\ \A i \in DOMAIN document.fields : FieldAdmitted(document.fields[i])
    /\ OutputAdmitted(document.root)
=============================================================================
