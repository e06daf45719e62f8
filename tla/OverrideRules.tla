--------------------------- MODULE OverrideRules ---------------------------
(***************************************************************************)
(* The overrides of one field (src/src/generators/core/override_rules.cpp) *)
(* over a run: parse_overrides turns the percentages of null_value and     *)
(* default_value into quotas of rows, then the field's generator calls     *)
(* apply_override once and next_row once for each row.                     *)
(*                                                                         *)
(* The executor passes the number of rows of the run, which is at least 1; *)
(* the branch of apply_override for an unknown number (total_rows = 0) is  *)
(* reached by unit tests only and left out.  int is scaled down to         *)
(* -IntMax-1 .. IntMax.                                                    *)
(***************************************************************************)
EXTENDS Integers

CONSTANTS
    IntMax,              \* the largest int
    Fields               \* the fields to explore

(* rows is the number of rows of the run, null and default are the rules:  *)
(* is the rule enabled, and its percentage.                                *)
Rule == [enabled : BOOLEAN, percentage : -1 .. 101]
FieldType == [rows : Nat \ {0}, null : Rule, default : Rule]

ASSUME IntMaxAssumption == IntMax \in Nat \ {0}
ASSUME FieldsAssumption ==
    /\ Fields \subseteq FieldType
    /\ \A f \in Fields : f.rows <= IntMax

VARIABLES
    field,               \* the field, fixed for the run
    at,                  \* what happens next
    row_index,           \* row_index
    null_remaining,      \* null_remaining
    default_remaining,   \* default_remaining
    nulls, defaults, values   \* how many rows came out as each

vars == <<field, at, row_index, null_remaining, default_remaining, nulls, defaults, values>>

(***************************************************************************)
(* parse_overrides.                                                        *)
(***************************************************************************)
IntType == (-IntMax - 1) .. IntMax

(* An int product that overflows is undefined behaviour: a build may       *)
(* compute it modulo 2^w or in a wider register.                           *)
Modulus == 2 * (IntMax + 1)
Wrapped(n) == ((n + IntMax + 1) % Modulus) - IntMax - 1
Products(m, n) == IF m * n \in IntType THEN {m * n} ELSE {m * n, Wrapped(m * n)}

(* Integer division as C++ does it, towards zero.                          *)
Quotient(m, n) == IF m >= 0 THEN m \div n ELSE -((-m) \div n)

(* Mutant of Quotas: the quota is rounded up.                              *)
QuotasRoundedUp(rule) ==
    IF rule.enabled THEN {Quotient(p + 99, 100) : p \in Products(field.rows, rule.percentage)}
    ELSE {0}

Quotas(rule) ==
    IF rule.enabled THEN {Quotient(p, 100) : p \in Products(field.rows, rule.percentage)}
    ELSE {0}

IsPercentage(n) == n \in 0 .. 100

(* Mutant of RulesAreValid: each percentage is checked on its own.         *)
EachRuleIsValid == IsPercentage(field.default.percentage) /\ IsPercentage(field.null.percentage)

(* The percentage of a rule is checked even if the rule is not enabled.    *)
RulesAreValid ==
    /\ IsPercentage(field.default.percentage) /\ IsPercentage(field.null.percentage)
    /\ field.default.enabled /\ field.null.enabled
       => field.default.percentage + field.null.percentage <= 100

Refuse ==
    /\ at = "parse"
    /\ ~RulesAreValid
    /\ at' = "refused"
    /\ UNCHANGED <<field, row_index, null_remaining, default_remaining, nulls, defaults, values>>

Parse ==
    /\ at = "parse"
    /\ RulesAreValid
    /\ null_remaining' \in Quotas(field.null)
    /\ default_remaining' \in Quotas(field.default)
    /\ at' = "generate"
    /\ UNCHANGED <<field, row_index, nulls, defaults, values>>

(***************************************************************************)
(* apply_override and next_row.                                            *)
(***************************************************************************)
RowsLeft == field.rows - row_index

(* Mutant of Sure: the last chance is missed.                              *)
SureOnlyAbove(remaining) == remaining > 0 /\ RowsLeft > 0 /\ remaining > RowsLeft

(* roll_remaining draws a number unless there is a row for each remaining  *)
(* one at most; a draw may go either way.                                  *)
Possible(remaining) == remaining > 0 /\ RowsLeft > 0
Sure(remaining) == remaining > 0 /\ RowsLeft > 0 /\ remaining >= RowsLeft

GenerateNull ==
    /\ at = "generate"
    /\ field.null.enabled /\ Possible(null_remaining)
    /\ null_remaining' = null_remaining - 1
    /\ nulls' = nulls + 1
    /\ at' = "next"
    /\ UNCHANGED <<field, row_index, default_remaining, defaults, values>>

NullMisses == ~(field.null.enabled /\ Sure(null_remaining))

(* The default is only rolled in a row that did not come out null.         *)
GenerateDefault ==
    /\ at = "generate"
    /\ NullMisses
    /\ field.default.enabled /\ Possible(default_remaining)
    /\ default_remaining' = default_remaining - 1
    /\ defaults' = defaults + 1
    /\ at' = "next"
    /\ UNCHANGED <<field, row_index, null_remaining, nulls, values>>

(* Neither rule overrides the value of the generator.                      *)
GenerateValue ==
    /\ at = "generate"
    /\ NullMisses
    /\ ~(field.default.enabled /\ Sure(default_remaining))
    /\ values' = values + 1
    /\ at' = "next"
    /\ UNCHANGED <<field, row_index, null_remaining, default_remaining, nulls, defaults>>

(* Mutant of NextRow: the count goes past the last row.                    *)
NextRowUnchecked ==
    /\ at = "next"
    /\ row_index' = row_index + 1
    /\ at' = IF row_index < field.rows THEN "generate" ELSE "end"
    /\ UNCHANGED <<field, null_remaining, default_remaining, nulls, defaults, values>>

(* The executor stops after the last row.                                  *)
NextRow ==
    /\ at = "next"
    /\ row_index' = IF row_index < field.rows THEN row_index + 1 ELSE row_index
    /\ at' = IF row_index + 1 < field.rows THEN "generate" ELSE "end"
    /\ UNCHANGED <<field, null_remaining, default_remaining, nulls, defaults, values>>

Init ==
    /\ field \in Fields
    /\ at = "parse"
    /\ row_index = 0
    /\ null_remaining = 0 /\ default_remaining = 0
    /\ nulls = 0 /\ defaults = 0 /\ values = 0

Ended == at \in {"refused", "end"} /\ UNCHANGED vars

Next ==
    \/ Refuse \/ Parse
    \/ GenerateNull \/ GenerateDefault \/ GenerateValue \/ NextRow
    \/ Ended

Spec == Init /\ [][Next]_vars

-----------------------------------------------------------------------------
(***************************************************************************)
(* Properties.                                                             *)
(***************************************************************************)
(* The part of the rows that a rule asks for, rounded down.                *)
Share(rule) == IF rule.enabled THEN (field.rows * rule.percentage) \div 100 ELSE 0

TypeOK ==
    /\ field \in Fields
    /\ at \in {"parse", "refused", "generate", "next", "end"}
    /\ row_index \in 0 .. field.rows
    /\ null_remaining \in IntType /\ default_remaining \in IntType
    /\ nulls \in Nat /\ defaults \in Nat /\ values \in Nat

(* null_value (README.md:191) "Overrides a percentage of rows with nulls": *)
(* a run ends with exactly its share of nulls, whatever the draws.         *)
NullShareIsExact == at = "end" => nulls = Share(field.null)

(* default_value (README.md:190) "Overrides a percentage of rows with a    *)
(* fixed value": a run ends with exactly its share of default values.      *)
DefaultShareIsExact == at = "end" => defaults = Share(field.default)

(* What the code keeps of it: at no time more than the share of defaults,  *)
(* and at the end as many are missing as there are nulls at most, for the  *)
(* default rule may lose the rows that the null rule takes at the end.     *)
DefaultShareIsKept ==
    /\ at \notin {"parse", "refused"} => defaults <= Share(field.default)
    /\ at = "end" => Share(field.default) - defaults <= nulls

(* Each row has one outcome; null and default together never ask for more  *)
(* rows than are left.                                                     *)
QuotasFitTheRowsLeft ==
    at = "generate" =>
        /\ nulls + defaults + values = row_index
        /\ null_remaining <= RowsLeft
        /\ nulls + null_remaining + defaults + default_remaining <= field.rows
=============================================================================
