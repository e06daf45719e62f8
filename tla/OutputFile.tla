----------------------------- MODULE OutputFile -----------------------------
(***************************************************************************)
(* What the file backend and the preview write: the tokens of each format  *)
(* (src/src/output/file/{csv,json,sql}_writer.cpp) in the order of         *)
(* src/src/output/file_backend.cpp and src/src/cli/command_preview.cpp.    *)
(* Escaping is left out.  A row is given by its number.                    *)
(***************************************************************************)
EXTENDS Configuration

Delimited == {"csv", "Tab-Delimited", "Custom"}

RowToken(i) == <<"row", i>>
Mark(text) == <<text, 0>>

(* The options a backend of another format would have do not exist.        *)
IsArray(file) == file.format = "json" /\ file.options.array

(* write_delimited_header, write_json_array_start, write_sql of no rows    *)
Opening(file) ==
    CASE file.format \in Delimited /\ file.options.header -> <<Mark("header")>>
      [] IsArray(file) -> <<Mark("[")>>
      [] file.format = "sql" /\ file.options.create_table -> <<Mark("create table")>>
      [] OTHER -> <<>>

(* write_delimited_row, write_json_row, write_sql_row; generated is the    *)
(* number of rows before this one.                                         *)
RowTokens(file, generated) ==
    IF IsArray(file) /\ generated > 0 THEN <<Mark(","), RowToken(generated + 1)>>
    ELSE <<RowToken(generated + 1)>>

(* write_json_array_end                                                    *)
Closing(file) == IF IsArray(file) THEN <<Mark("]")>> ELSE <<>>

(* The preview of n rows; a database is previewed as a CSV with a header.  *)
PreviewFile(cfg) ==
    IF cfg.type = "database"
    THEN [format |-> "csv", path |-> "", options |-> OptionDefaults("csv")]
    ELSE cfg.file

WholeFile(file, n) ==
    Opening(file) \o FlattenSeq([i \in 1 .. n |-> RowTokens(file, i - 1)]) \o Closing(file)

Previewed(cfg, n) == WholeFile(PreviewFile(cfg), n)

(***************************************************************************)
(* What a reader of the format takes for a whole file: the rows 1 .. n in  *)
(* their order, whatever marks stand between them, and, of a JSON array,   *)
(* the brackets at both ends and one comma between any two rows.           *)
(***************************************************************************)
RowsInOrder(content, n) ==
    LET rows == {k \in DOMAIN content : content[k][1] = "row"}
    IN /\ {content[k][2] : k \in rows} = 1 .. n
       /\ \A j, k \in rows : j < k => content[j][2] < content[k][2]

WellFormed(file, content) ==
    LET n == Len(content)
    IN IsArray(file) =>
          /\ n >= 3 /\ content[1] = Mark("[") /\ content[n] = Mark("]")
          /\ \A i \in 2 .. n - 1 : i % 2 = 0 <=> content[i][1] = "row"
          /\ \A i \in 2 .. n - 1 : i % 2 = 1 <=> content[i] = Mark(",")
          /\ n % 2 = 1

IsWholeFile(file, content, n) ==
    RowsInOrder(content, n) /\ WellFormed(file, content)
=============================================================================
