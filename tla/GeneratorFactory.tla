-------------------------- MODULE GeneratorFactory --------------------------
(***************************************************************************)
(* What the generators accept when they are constructed for the fields of  *)
(* a configuration (src/src/generators/): the parsers of their parameters  *)
(* (core/array_parser.cpp), the override rules (core/override_rules.cpp),  *)
(* the constructors registered by types/*.cpp and the contexts that linked *)
(* fields share.  A constructor that refuses throws, and so does           *)
(* build_runtime_fields (src/src/engine/executor.cpp) around it.           *)
(*                                                                         *)
(* The fields have been collected by the reader of Configuration, so that  *)
(* their members are known ones.  MalformedPatterns are the regular        *)
(* expressions that the pattern parser refuses.                            *)
(***************************************************************************)
EXTENDS Configuration, LinkedModules

CONSTANT MalformedPatterns

(* The parser takes the pattern of the catalog.                            *)
ASSUME PatternAssumption ==
    Catalog["regular_expression"].config_template["pattern"].text \notin MalformedPatterns

Given(field, p) == Has(field, <<"config", p>>)
Param(field, p) == field[<<"config", p>>]

(***************************************************************************)
(* The names the parsers know, and the member of the set each stands for.  *)
(***************************************************************************)
Names(names) == [n \in names |-> n]

DaysOfWeek ==
    Names({"Monday", "Tuesday", "Wednesday", "Thursday", "Friday", "Saturday", "Sunday"})
Languages ==
    Names({"English", "Simplified Chinese", "Traditional Chinese", "Japanese"})
    ++ [SimplifiedChinese |-> "Simplified Chinese", TraditionalChinese |-> "Traditional Chinese"]
Regions ==
    Names({"United States", "United Kingdom", "China", "Japan"})
    ++ [UnitedStates |-> "United States", UnitedKingdom |-> "United Kingdom"]
Genders == Names({"M", "F"}) ++ [Male |-> "M", Female |-> "F"]
CardTypes ==
    Names({"AmericanExpress", "JCB", "MasterCard", "UnionPay", "Visa"})
    ++ At("American Express", "AmericanExpress") ++ At("Master Card", "MasterCard")
    ++ At("Union Pay", "UnionPay")
BarcodeTypes == Names({"EAN8", "EAN13", "UPCA", "UPCE", "ISBN"})
OperatingSystems == Names({"Windows", "macOS", "Linux"})
CountryCodesStandards ==
    {"None", "ISO_3166_1_alpha_2", "ISO_3166_1_alpha_3", "ISO3166Alpha2", "ISO3166Alpha3"}

NameSets ==
    [days_of_week |-> DaysOfWeek, languages |-> Languages, regions |-> Regions,
     genders |-> Genders, card_types |-> CardTypes, barcode_types |-> BarcodeTypes,
     operating_systems |-> OperatingSystems]

StringLists ==
    {"extensions", "subdomains", "tlds", "payment_methods", "domains", "keywords", "enums"}

(* A string stands for the list of itself.                                 *)
IsList(v) == v.type = "string" \/ (v.type = "array" /\ v.items # <<>>)
Items(v) == IF v.type = "string" THEN <<v.text>> ELSE v.items

(***************************************************************************)
(* The parameters that are numbers.  nlohmann reads a boolean as an int or *)
(* an unsigned int, but not as an int64_t or a double.                     *)
(***************************************************************************)
IntParams ==
    {<<"integer", "start">>, <<"integer", "end">>, <<"decimal", "decimal_places">>,
     <<"text", "number_of_chars_start">>, <<"text", "number_of_chars_end">>}
WideParams ==
    {<<"sequence", "start">>, <<"sequence", "end">>, <<"sequence", "step">>,
     <<"decimal", "start">>, <<"decimal", "end">>, <<"boolean", "true_percentage">>}
Flags ==
    {"use_translation", "is_international", "include_delimiters", "include_hyphens", "circle"}

ReadsAsInt(v) == IsNumber(v) \/ v.type = "boolean"
AsInt(v) == CASE v = Flag(TRUE) -> 1
              [] v = Flag(FALSE) -> 0
              [] OTHER -> Narrowed(v.num)

Parses(generator, p, v) ==
    CASE p \in DOMAIN NameSets -> IsList(v) /\ ToSet(Items(v)) \subseteq DOMAIN NameSets[p]
      [] p \in StringLists -> IsList(v) /\ "" \notin ToSet(Items(v))
      [] p \in Flags -> v.type = "boolean"
      [] <<generator, p>> \in IntParams -> ReadsAsInt(v)
      [] <<generator, p>> \in WideParams -> IsNumber(v)
      [] p = "country_codes_standard" -> v.type = "string" /\ v.text \in CountryCodesStandards
      [] OTHER -> v.type = "string"

(***************************************************************************)
(* parse_overrides, for a positive number of rows.                         *)
(***************************************************************************)
Rules == {"default_value", "null_value"}
Enabled(field, rule) == Has(field, <<rule, "enabled">>) /\ field[<<rule, "enabled">>] = Flag(TRUE)
Percentage(field, rule) ==
    IF Has(field, <<rule, "percentage">>) THEN AsInt(field[<<rule, "percentage">>]) ELSE 100

RuleParses(field, rule) ==
    /\ IsObject(field, <<rule>>)
    /\ Has(field, <<rule, "enabled">>) => field[<<rule, "enabled">>].type = "boolean"
    /\ Has(field, <<rule, "percentage">>) => ReadsAsInt(field[<<rule, "percentage">>])
    /\ Percentage(field, rule) \in 0 .. 100

OverridesParse(field) ==
    /\ \A rule \in Rules : Has(field, <<rule>>) => RuleParses(field, rule)
    /\ Has(field, <<"default_value", "value">>) => IsText(field, <<"default_value", "value">>)
    /\ (\A rule \in Rules : Enabled(field, rule)) =>
          Percentage(field, "default_value") + Percentage(field, "null_value") <= 100

Share(field, rule) ==
    IF Has(field, <<rule>>) /\ Enabled(field, rule) THEN Percentage(field, rule) ELSE 0

(* Of one row, a rule overrides all or nothing.                            *)
OneRowOverridden(field) == \E rule \in Rules : Share(field, rule) = 100

(* The rows that a rule overrides: its share of them, rounded down.  Where *)
(* rows * percentage overflows an int, a build may come to fewer, even to  *)
(* none.                                                                   *)
Quota(field, rule, rows) == (rows * Share(field, rule)) \div 100
QuotaIsKept(rows) == 100 * rows <= IntMax

(* Only a rule for all of them is sure to override every row.  Two whose   *)
(* quotas add up to the rows may: a default is lost where a null takes the *)
(* last row left for it.                                                   *)
EveryRowOverridden(field, rows) == QuotaIsKept(rows) /\ OneRowOverridden(field)
EveryRowMayBeOverridden(field, rows) ==
    Quota(field, "default_value", rows) + Quota(field, "null_value", rows) = rows

(***************************************************************************)
(* The constructors.                                                       *)
(***************************************************************************)
Indispensable(generator) ==
    CASE generator \in {"url", "hostname"} -> {"tlds"}
      [] generator = "regular_expression" -> {"pattern"}
      [] OTHER -> {}

RangesHold(field, generator) ==
    /\ generator = "boolean" /\ Given(field, "true_percentage") =>
          Param(field, "true_percentage").num \in 0 .. 100
    /\ generator = "sequence" /\ Given(field, "step") => Param(field, "step").num # 0
    /\ generator = "regular_expression" =>
          Param(field, "pattern").text \notin MalformedPatterns

FieldConstructs(field, generator) ==
    /\ OverridesParse(field)
    /\ Indispensable(generator) \subseteq Keys(field, ConfigPath)
    /\ \A p \in Keys(field, ConfigPath) : Parses(generator, p, Param(field, p))
    /\ RangesHold(field, generator)

(***************************************************************************)
(* merge_config: the linked fields of a group must agree on the options    *)
(* their contexts merge.                                                   *)
(***************************************************************************)
Linked(a, b) ==
    /\ a.group # NoGroup /\ a.group = b.group
    /\ a.generator \in LinkedGenerators /\ b.generator \in LinkedGenerators
    /\ Module(a.generator) = Module(b.generator)

Merges(spec, p) == p \in MergedOptions(spec.generator) /\ Given(spec.raw, p)
Merged(spec, p) ==
    LET items == Items(Param(spec.raw, p))
    IN IF p \in DOMAIN NameSets THEN {NameSets[p][n] : n \in ToSet(items)} ELSE items

GroupsAgree(specs) ==
    \A i, j \in DOMAIN specs : Linked(specs[i], specs[j]) =>
        \A p \in OptionNames :
            Merges(specs[i], p) /\ Merges(specs[j], p) => Merged(specs[i], p) = Merged(specs[j], p)

(* build_runtime_fields                                                    *)
Constructs(specs) ==
    /\ \A i \in DOMAIN specs : FieldConstructs(specs[i].raw, specs[i].generator)
    /\ GroupsAgree(specs)

(***************************************************************************)
(* A linked file generator needs both options of its context, unless it is *)
(* overridden: in the only row of a preview, or in every row of a run.     *)
(***************************************************************************)
ContextComplete(specs, i) ==
    \A p \in ComputerOptions : \E j \in DOMAIN specs : Linked(specs[i], specs[j]) /\ Merges(specs[j], p)

NeedsContext(specs, i) ==
    /\ specs[i].group # NoGroup /\ specs[i].generator \in ComputerGenerators
    /\ ~ContextComplete(specs, i)

FirstRowWorks(specs) ==
    \A i \in DOMAIN specs : NeedsContext(specs, i) => OneRowOverridden(specs[i].raw)

PreviewRowWorks(specs) == Constructs(specs) /\ FirstRowWorks(specs)

(* As far as the contexts go, so many rows are sure to be generated, or    *)
(* may be generated.                                                       *)
RowsWork(specs, rows) ==
    /\ Constructs(specs)
    /\ \A i \in DOMAIN specs :
           NeedsContext(specs, i) => EveryRowOverridden(specs[i].raw, rows)
RowsMayWork(specs, rows) ==
    /\ Constructs(specs)
    /\ \A i \in DOMAIN specs :
           NeedsContext(specs, i) => EveryRowMayBeOverridden(specs[i].raw, rows)
=============================================================================
