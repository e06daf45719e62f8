-------------------------- MODULE GeneratorCatalog --------------------------
(***************************************************************************)
(* The generators a configuration may name (src/src/config/                *)
(* generator_catalog.cpp) and what each takes, with the JSON values that   *)
(* configurations are made of.                                             *)
(*                                                                         *)
(* A JSON value that is no object is a record of one shape whatever its    *)
(* type, so that values of different types can be compared.  Descriptions  *)
(* are left out; numbers are integers, those with a fraction have the type *)
(* "number".  IntMax stands for the largest value of the C++ type int,     *)
(* which has at least 16 bits.                                             *)
(***************************************************************************)
EXTENDS Integers, Sequences, TLC

CONSTANT IntMax
ASSUME IntMaxAssumption == IntMax \in Nat /\ IntMax >= 32767

Value(type, text, num, items) == [type |-> type, text |-> text, num |-> num, items |-> items]
IsValue(v) ==
    /\ v = Value(v.type, v.text, v.num, v.items) /\ v.num \in Int
    /\ v.type \in {"string", "integer", "number", "boolean", "array", "object", "null"}
Text(s) == Value("string", s, 0, <<>>)
Whole(n) == Value("integer", "", n, <<>>)
Real(n) == Value("number", "", n, <<>>)
Flag(b) == Value("boolean", IF b THEN "true" ELSE "false", 0, <<>>)
Strings(items) == Value("array", "", 0, items)
Object == Value("object", "", 0, <<>>)
Null == Value("null", "", 0, <<>>)

(* The members of f, and those of g that f lacks; and one member alone: @@ *)
(* and :> of TLC, which have no definition that a proof could use.         *)
f ++ g == [k \in DOMAIN f \cup DOMAIN g |-> IF k \in DOMAIN f THEN f[k] ELSE g[k]]
At(k, v) == [m \in {k} |-> v]

IsInteger(v) == v.type = "integer"
IsNumber(v) == v.type \in {"integer", "number"}

(* get<int> of a 64-bit integer keeps the low bits.                        *)
Narrowed(n) == ((n + IntMax + 1) % (2 * (IntMax + 1))) - (IntMax + 1)

(***************************************************************************)
(* The parameters: a name stands for the same type and the same choice of  *)
(* values wherever it occurs, and all but use_translation are required.    *)
(***************************************************************************)
ParamType(p) ==
    CASE p \in {"use_translation", "is_international", "include_delimiters",
                "include_hyphens", "circle"} -> "boolean"
      [] p \in {"start", "end", "step", "decimal_places", "true_percentage",
                "number_of_chars_start", "number_of_chars_end"} -> "number"
      [] p \in {"ip_address_type", "country_codes_standard", "pattern", "start_date",
                "end_date", "start_time", "end_time", "start_month", "end_month"} -> "string"
      [] OTHER -> "array<string>"

Required(p) == p # "use_translation"

SupportedValues ==
    [languages |-> {"English", "Simplified Chinese", "Traditional Chinese", "Japanese"},
     regions |-> {"United States", "United Kingdom", "China", "Japan"},
     genders |-> {"M", "F"},
     operating_systems |-> {"Windows", "macOS", "Linux"},
     card_types |-> {"AmericanExpress", "JCB", "MasterCard", "UnionPay", "Visa"},
     barcode_types |-> {"EAN8", "EAN13", "UPCA", "UPCE", "ISBN"},
     days_of_week |-> {"Sunday", "Monday", "Tuesday", "Wednesday", "Thursday", "Friday",
                       "Saturday"},
     ip_address_type |-> {"IPv4", "IPv6"},
     country_codes_standard |-> {"None", "ISO_3166_1_alpha_2", "ISO_3166_1_alpha_3"}]

(***************************************************************************)
(* The entries.  The template of an entry has a value for each of its      *)
(* parameters.                                                             *)
(***************************************************************************)
Entry(template, unique, linkage) ==
    [config_template |-> template, supports_unique |-> unique,
     supports_data_linkage |-> linkage]

NoParams == [p \in {} |-> Null]
English == Strings(<<"English">>)
EnglishOnly == [languages |-> English]
Translated == [languages |-> English, use_translation |-> Flag(FALSE)]
UnitedStates == Strings(<<"United States">>)
InRegions == [regions |-> UnitedStates, use_translation |-> Flag(FALSE)]
Extensions == Strings(<<"txt", "csv">>)
Sites == [subdomains |-> Strings(<<"www">>), tlds |-> Strings(<<"com", "net", "org">>)]
EveryDay == Strings(<<"Sunday", "Monday", "Tuesday", "Wednesday", "Thursday", "Friday",
                      "Saturday">>)
EveryCard == Strings(<<"AmericanExpress", "JCB", "MasterCard", "UnionPay", "Visa">>)
Dates == [start_date |-> Text("1970-01-01"), end_date |-> Text("2050-12-31"),
          days_of_week |-> EveryDay]
Times == [start_time |-> Text("00:00:00"), end_time |-> Text("23:59:59")]

BusinessEntries ==
    [company_name |-> Entry(Translated, FALSE, TRUE),
     department |-> Entry(EnglishOnly, FALSE, FALSE),
     industry |-> Entry(EnglishOnly, FALSE, TRUE)]

ComputerEntries ==
    [ip_address |-> Entry([ip_address_type |-> Text("IPv4")], TRUE, FALSE),
     mac_address |-> Entry(NoParams, TRUE, FALSE),
     file_path |-> Entry([operating_systems |-> Strings(<<"Windows">>),
                          extensions |-> Extensions], FALSE, TRUE),
     file_directory |-> Entry([operating_systems |-> Strings(<<"Windows">>)], FALSE, TRUE),
     file_name |-> Entry([extensions |-> Extensions], FALSE, TRUE),
     file_extension |-> Entry([extensions |-> Extensions], FALSE, TRUE),
     url |-> Entry(Sites, TRUE, FALSE),
     hostname |-> Entry(Sites, TRUE, FALSE)]

DatetimeEntries ==
    [date |-> Entry(Dates, FALSE, FALSE),
     time |-> Entry(Times, FALSE, FALSE),
     datetime |-> Entry(Dates ++ Times, FALSE, FALSE)]

LocationEntries ==
    [address_line1 |-> Entry(InRegions, FALSE, TRUE),
     address_line2 |-> Entry(InRegions, FALSE, TRUE),
     postcode |-> Entry([regions |-> UnitedStates], FALSE, TRUE),
     full_address |-> Entry(InRegions, FALSE, TRUE),
     city |-> Entry(InRegions, FALSE, TRUE),
     region |-> Entry([country_codes_standard |-> Text("None"), languages |-> English],
                      FALSE, TRUE)]

NumberEntries ==
    [integer |-> Entry([start |-> Whole(0), end |-> Whole(100)], FALSE, FALSE),
     decimal |-> Entry([start |-> Real(0), end |-> Real(100), decimal_places |-> Whole(2)],
                       FALSE, FALSE)]

PaymentEntries ==
    [payment_method |-> Entry([payment_methods |-> Strings(<<"Credit Card", "PayPal",
                                                            "Apple Pay">>)], FALSE, TRUE),
     card_type |-> Entry([languages |-> English, card_types |-> EveryCard], FALSE, TRUE),
     card_number |-> Entry([card_types |-> EveryCard], TRUE, TRUE),
     card_date |-> Entry([start_month |-> Text("01/00"), end_month |-> Text("12/50")],
                         FALSE, TRUE)]

PersonEntries ==
    LET genders == [genders |-> Strings(<<"M", "F">>)]
    IN [first_name |-> Entry(Translated ++ genders, FALSE, TRUE),
        last_name |-> Entry(Translated, FALSE, TRUE),
        full_name |-> Entry(Translated ++ genders, FALSE, TRUE),
        gender |-> Entry(EnglishOnly, FALSE, TRUE),
        title |-> Entry(EnglishOnly ++ genders, FALSE, TRUE),
        marital_status |-> Entry(EnglishOnly, FALSE, TRUE),
        phone_number |-> Entry([regions |-> UnitedStates, is_international |-> Flag(FALSE),
                                include_delimiters |-> Flag(TRUE)], TRUE, TRUE),
        email |-> Entry([languages |-> English,
                         domains |-> Strings(<<"gmail.com", "outlook.com">>)], TRUE, TRUE),
        job_title |-> Entry(EnglishOnly, FALSE, TRUE),
        social_network_id |-> Entry(Translated, TRUE, TRUE)]

ProductEntries ==
    [product_name |-> Entry([languages |-> English,
                             keywords |-> Strings(<<"Cherry", "Orange", "Pluots", "Grape", "Kiwi",
                                                    "Mango", "Raspberry", "Strawberry">>)],
                            FALSE, FALSE),
     product_category |-> Entry(EnglishOnly, FALSE, FALSE),
     color |-> Entry(EnglishOnly, FALSE, FALSE),
     size |-> Entry(NoParams, FALSE, FALSE),
     barcode |-> Entry([barcode_types |-> Strings(<<"EAN13">>)], TRUE, FALSE)]

StringEntries ==
    [enum_item |-> Entry([enums |-> Strings(<<"First", "Second", "Third">>)], FALSE, FALSE),
     text |-> Entry([number_of_chars_start |-> Whole(100), number_of_chars_end |-> Whole(10000)],
                    FALSE, FALSE),
     uuid |-> Entry([include_hyphens |-> Flag(TRUE)], FALSE, FALSE)]

UtilityEntries ==
    [boolean |-> Entry([true_percentage |-> Whole(50)], FALSE, FALSE),
     sequence |-> Entry([start |-> Whole(1), end |-> Whole(100), step |-> Whole(1),
                         circle |-> Flag(TRUE)], FALSE, FALSE),
     regular_expression |-> Entry([pattern |-> Text("ORD-[A-Z]{3}-\\d{4}")], FALSE, FALSE)]

Catalog ==
    BusinessEntries ++ ComputerEntries ++ DatetimeEntries ++ LocationEntries ++ NumberEntries
    ++ PaymentEntries ++ PersonEntries ++ ProductEntries ++ StringEntries ++ UtilityEntries

Generators == DOMAIN Catalog
ConfigParams(g) == DOMAIN Catalog[g].config_template
=============================================================================
