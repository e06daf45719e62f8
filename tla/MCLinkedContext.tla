--------------------------- MODULE MCLinkedContext ---------------------------
(***************************************************************************)
(* Instances of LinkedContext.                                             *)
(***************************************************************************)
EXTENDS LinkedContext

Field(generator, group, options, unique, overridden) ==
    [generator |-> generator, group |-> group, options |-> options, unique |-> unique,
     overridden |-> overridden]

US == <<"regions", "US">>
CN == <<"regions", "CN">>
Linux == <<"operating_systems", "Linux">>
Txt == <<"extensions", "txt">>
Csv == <<"extensions", "csv">>
MCOptionValues == {"US", "CN", "Linux", "txt", "csv"}
MCGroups == {"g", "h"}
MCNoGroup == ""

(* Fields that agree or not, with and without overrides, in two groups, in *)
(* two modules with the same group, and in no group.                       *)
Addresses ==
    {Field("city", "g", {}, FALSE, FALSE), Field("city", "g", {US}, FALSE, TRUE),
     Field("postcode", "g", {CN}, FALSE, TRUE), Field("region", "g", {CN}, FALSE, FALSE),
     Field("city", "h", {CN}, FALSE, FALSE), Field("postcode", MCNoGroup, {CN}, FALSE, FALSE)}

Cards ==
    {Field("phone_number", "g", {US}, TRUE, FALSE), Field("email", "g", {}, FALSE, TRUE),
     Field("card_number", "g", {}, TRUE, TRUE), Field("card_date", "g", {}, FALSE, FALSE),
     Field("industry", "g", {}, FALSE, FALSE)}

Files ==
    {Field("file_directory", "g", {Linux}, FALSE, FALSE),
     Field("file_path", "g", {}, FALSE, TRUE), Field("file_name", "g", {Txt}, FALSE, TRUE),
     Field("file_extension", "g", {Csv}, FALSE, FALSE),
     Field("file_name", "h", {Txt}, FALSE, TRUE), Field("email", "g", {}, FALSE, FALSE)}

Configurations(kinds, fields, rows) ==
    [rows : rows, fields : UNION {[1 .. n -> kinds] : n \in fields}]

MCConfigs ==
    Configurations(Addresses \cup Cards, {2}, {3}) \cup Configurations(Addresses, {3}, {3})
    \cup Configurations(Cards, {3}, {2}) \cup Configurations(Files, {2}, {2})
    \cup Configurations(Files, {3}, {1})
=============================================================================
