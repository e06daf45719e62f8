------------------------- MODULE SequenceGenerator -------------------------
(***************************************************************************)
(* A field of the generator "sequence" over a run                          *)
(* (src/src/generators/types/utility_generators.cpp): its overrides, and   *)
(* the number that it shows where neither of them applies and that next()  *)
(* advances after every row.  int64_t is scaled down to                    *)
(* -LongMax-1 .. LongMax.                                                  *)
(***************************************************************************)
EXTENDS OverrideRules

CONSTANTS
    LongMax,             \* the largest int64_t
    Sequences            \* the sequences to explore

LongType == (-LongMax - 1) .. LongMax
SequenceType == [start : LongType, end : LongType, step : LongType, circle : BOOLEAN]

ASSUME LongMaxAssumption == LongMax \in Nat \ {0}
ASSUME SequencesAssumption == Sequences \subseteq SequenceType

VARIABLES
    sequence,            \* start_, end_, step_ and circle_
    current              \* current_

sequenceVars == <<vars, sequence, current>>

(* A sum that overflows is undefined behaviour: a build may compare it     *)
(* modulo 2^w or in a wider register.                                      *)
LongSums(m, n) ==
    LET modulus == 2 * (LongMax + 1)
    IN {m + n, ((m + n + LongMax + 1) % modulus) - LongMax - 1}

PassesEnd(n) ==
    \/ sequence.step > 0 /\ n > sequence.end
    \/ sequence.step < 0 /\ n < sequence.end

(* The constructor throws after the rules have been parsed.                *)
RefuseStep ==
    /\ at = "parse" /\ RulesAreValid
    /\ sequence.step = 0
    /\ at' = "refused"
    /\ UNCHANGED <<field, row_index, null_remaining, default_remaining, nulls, defaults, values,
                   sequence, current>>

Construct ==
    /\ sequence.step # 0
    /\ Parse
    /\ UNCHANGED <<sequence, current>>

GenerateSequence ==
    /\ GenerateNull \/ GenerateDefault \/ GenerateValue
    /\ UNCHANGED <<sequence, current>>

(* Mutant of NextSequence: it starts over when it reaches the end.         *)
NextSequenceEndless ==
    /\ NextRow
    /\ \E n \in LongSums(current, sequence.step) :
           current' = IF ~PassesEnd(n) /\ n # sequence.end THEN n
                      ELSE IF sequence.circle THEN sequence.start ELSE sequence.end
    /\ UNCHANGED sequence

(* next() advances whether or not the row was overridden.                  *)
NextSequence ==
    /\ NextRow
    /\ \E n \in LongSums(current, sequence.step) :
           current' = IF ~PassesEnd(n) THEN n
                      ELSE IF sequence.circle THEN sequence.start ELSE sequence.end
    /\ UNCHANGED sequence

SequenceInit == Init /\ sequence \in Sequences /\ current = sequence.start

SequenceNext ==
    \/ Refuse /\ UNCHANGED <<sequence, current>>
    \/ RefuseStep \/ Construct
    \/ GenerateSequence \/ NextSequence
    \/ Ended /\ UNCHANGED <<sequence, current>>

SequenceSpec == SequenceInit /\ [][SequenceNext]_sequenceVars

-----------------------------------------------------------------------------
(***************************************************************************)
(* Properties.                                                             *)
(***************************************************************************)
(* How many rows it takes to pass the end; a start beyond the end is shown *)
(* once nevertheless.                                                      *)
Distance == IF sequence.step > 0 THEN sequence.end - sequence.start
            ELSE sequence.start - sequence.end
Stride == IF sequence.step > 0 THEN sequence.step ELSE -sequence.step
Period == IF Distance < 0 THEN 1 ELSE Distance \div Stride + 1

(* The number a row shows, or would show if it were not overridden, is     *)
(* that of its row alone, whatever was overridden before: start, start +   *)
(* step and so on, then start again if the sequence is a circle, else end  *)
(* for ever.  So it is where the step after the last number before the end *)
(* still fits an int64_t; elsewhere next_value overflows before it is      *)
(* compared (utility_generators.cpp:64).                                   *)
SequenceFollowsTheRows ==
    /\ at = "generate"
    /\ {sequence.start + sequence.step, sequence.end + sequence.step} \subseteq LongType
    => current = IF sequence.circle \/ row_index < Period
                 THEN sequence.start + (row_index % Period) * sequence.step
                 ELSE sequence.end
=============================================================================
