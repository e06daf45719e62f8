----------------------------- MODULE MCCommands -----------------------------
(* The tables init infers fields from, and what an author does to a        *)
(* document, one change in each behaviour.                                 *)
EXTENDS Commands

(***************************************************************************)
(* Tables.                                                                 *)
(***************************************************************************)
Typed(name, type) ==
    [name |-> name, data_type |-> type, character_length |-> NoNumber,
     numeric_precision |-> NoNumber, numeric_scale |-> NoNumber, unsigned_number |-> FALSE,
     auto_increment |-> FALSE, enum_values |-> <<>>, exact |-> NoMatch, alias |-> NoMatch,
     scores |-> <<>>, similar |-> <<>>]

TemplateTable ==
    [name |-> "generated_data", keys |-> {{"id"}},
     columns |-> <<Typed("id", "integer"), Typed("company_name", "text"),
                   Typed("industry", "text"),
                   [Typed("email", "varchar") EXCEPT !.character_length = 60]>>]

Customers ==
    [name |-> "customers", keys |-> {{"email"}},
     columns |-> <<[Typed("ID", "integer") EXCEPT !.auto_increment = TRUE, !.alias = "sequence"],
                   [Typed("email", "varchar") EXCEPT !.exact = "email", !.character_length = 60],
                   [Typed("order_date", "datetime") EXCEPT
                        !.scores = [date |-> 10], !.similar = [date |-> 10, datetime |-> 10]],
                   [Typed("start_at", "datetime") EXCEPT
                        !.scores = [date |-> 8, time |-> 8]]>>]

(* Columns whose names say nothing.                                        *)
Measures ==
    [name |-> "measures", keys |-> {},
     columns |-> <<[Typed("c1", "int") EXCEPT !.numeric_precision = 3, !.unsigned_number = TRUE],
                   [Typed("c2", "numeric") EXCEPT !.numeric_precision = 8, !.numeric_scale = 2],
                   [Typed("c3", "varchar") EXCEPT !.character_length = 8],
                   [Typed("c4", "enum") EXCEPT !.enum_values = <<"a", "b">>],
                   Typed("c5", "boolean"), Typed("c6", "timestamp"), Typed("c7", "blob"),
                   Typed("c8", "decimal"), Typed("c9", "time"), Typed("c10", "geometry"),
                   [Typed("c11", "number") EXCEPT !.numeric_precision = 1, !.unsigned_number = TRUE],
                   [Typed("c12", "char") EXCEPT !.character_length = 0]>>]

(* A generator whose context lacks an option.                              *)
Files ==
    [name |-> "files", keys |-> {},
     columns |-> <<[Typed("file_name", "text") EXCEPT !.exact = "file_name"]>>]

(* Names that mislead.                                                     *)
Misleading ==
    [name |-> "misfits", keys |-> {},
     columns |-> <<[Typed("id", "varchar") EXCEPT !.character_length = 36, !.alias = "sequence"],
                   Typed("amount", "decimal")>>]

Empty == [name |-> "empty", keys |-> {}, columns |-> <<>>]

MCTables == {TemplateTable, Customers, Measures, Files, Misleading, Empty}
ColumnNames == UNION {{t.columns[i].name : i \in DOMAIN t.columns} : t \in MCTables}
MCLowerCase == [n \in ColumnNames |-> IF n = "ID" THEN "id" ELSE n]
MCWordsIn ==
    [integer |-> {"int"}, int |-> {"int"}, numeric |-> {"numeric"}, decimal |-> {"decimal"},
     number |-> {"number"}, varchar |-> {"char"}, char |-> {"char"}, text |-> {"text"},
     enum |-> {"enum"}, boolean |-> {}, timestamp |-> {"timestamp"}, datetime |-> {"datetime"},
     time |-> {}, blob |-> {"blob"}, geometry |-> {}]

(***************************************************************************)
(* Changes.                                                                *)
(***************************************************************************)
Advanced(k) == Append(AdvancedPath, k)
Database(k) == Append(DatabasePath, k)

MCRootEdits ==
    {<< <<<<"rows">>, v>> >> : v \in {Whole(0), Whole(65538), Real(2), Text("2"), Removed}}
    \cup {<< <<Append(FilePath, "format"), v>> >> : v \in {Text("json"), Text("xml"), Removed}}
    \cup {<< <<OptionsPath, Removed>> >>, << <<Append(OptionsPath, "array"), Flag(FALSE)>> >>,
          << <<<<"output", "type">>, Text("database")>> >>, << <<<<"output", "type">>, Removed>> >>,
          << <<<<"output">>, Removed>> >>, << <<<<"fields">>, Null>> >>,
          << <<<<"title">>, Text("")>> >>}
    \cup {<< <<Database(k), Removed>> >> : k \in {"connection", "table", "advanced"}}
    \cup {<< <<Database("table"), Text("elsewhere")>> >>,
          << <<Database("connection"), Text("odbc://elsewhere")>> >>,
          << <<Database("threads"), Whole(4)>> >>,
          << <<Database("mode"), Text("fast")>>, <<AdvancedPath, Removed>> >>,
          << <<Database("mode"), Text("fast")>>, <<Advanced("batch_size"), Whole(7)>> >>}
    \cup {<< <<Database("write_mode"), Text(w)>> >> : w \in {"truncate", "upsert"}}
    \cup {<< <<Database("error_policy"), Text(p)>> >> : p \in {"continue", "rollback"}}
    \cup {<< <<Advanced(k), v>> >> :
             k \in {"batch_size", "threads"}, v \in {Whole(0), Whole(65536), Text("many")}}
    \cup {<< <<Advanced("insert_mode"), Text("load")>>,
             <<Database("error_policy"), Text("rollback")>> >>}

(* Every field of the templates is the first field of some table, so that  *)
(* the changes are made to the first two.                                  *)
MCFieldEdits ==
    {<<i, <<"unique">>, v>> : i \in {1, 2}, v \in {Flag(TRUE), Text("yes"), Removed}}
    \cup {<<i, <<"group">>, v>> : i \in {1, 2}, v \in {Text("Group1"), Removed}}
    \cup {<<1, <<"generator">>, v>> : v \in {Text("nothing"), Null}}
    \cup {<<1, <<"name">>, v>> : v \in {Text("ID"), Removed}}
    \cup {<<1, ConfigPath, Removed>>, <<1, <<"comment">>, Text("")>>,
          <<1, <<"supports_unique">>, Flag(TRUE)>>, <<1, <<"config", "step">>, Whole(0)>>,
          <<1, <<"config", "end">>, Text("9")>>, <<1, <<"config", "pattern">>, Text("a")>>,
          <<2, <<"config", "languages">>, Strings(<<>>)>>,
          <<2, <<"config", "languages">>, Strings(<<"Japanese">>)>>,
          <<2, <<"config", "languages">>, Strings(<<"SimplifiedChinese">>)>>,
          <<3, <<"group">>, Removed>>,
          <<1, <<"null_value", "enabled">>, Flag(TRUE)>>,
          <<1, <<"default_value">>, Null>>}
    \cup {<<2, <<"default_value", "percentage">>, v>> : v \in {Whole(150), Flag(TRUE), Text("1")}}

Plain(name, generator, config) ==
    ObjectAt(<<>>, [name |-> Text(name), generator |-> Text(generator)])
    ++ ObjectAt(ConfigPath, config)

(* Rules that override every row, each row of one, and every row of many.  *)
Rule(rule, share) ==
    ObjectAt(<<rule>>, [enabled |-> Flag(TRUE), percentage |-> Whole(share)])
LoneFile == Plain("email", "file_name", [extensions |-> Extensions]) ++ At(<<"group">>, Text("G"))

MCFieldSwaps ==
    {<<1, field>> : field \in
        {At(<<>>, Null),
         Plain("id", "regular_expression", [pattern |-> Text("[")]),
         Plain("id", "regular_expression", <<>>),
         Plain("id", "boolean", [true_percentage |-> Whole(101)]),
         Plain("id", "hostname", [subdomains |-> Text("www")]),
         LoneFile, LoneFile ++ Rule("null_value", 100),
         LoneFile ++ Rule("null_value", 50) ++ Rule("default_value", 50),
         LoneFile ++ Rule("null_value", 60) ++ Rule("default_value", 50)}}

(* So many rows that the quota of a rule overflows are one of them.        *)
MCRowOptions == {0, 2, 400, -1}

(* InferredFieldsFit is proved of such tables.                             *)
ASSUME TheirNamesDiffer == NamesDiffer
=============================================================================
