-------------------------- MODULE MCOverrideRules --------------------------
(* The fields the runs of OverrideRules explore.                           *)
EXTENDS OverrideRules

Enabled(n) == [enabled |-> TRUE, percentage |-> n]
Disabled(n) == [enabled |-> FALSE, percentage |-> n]
Field(rows, null, default) == [rows |-> rows, null |-> null, default |-> default]

Percentages == {-1, 0, 1, 25, 33, 50, 67, 75, 99, 100, 101}
Rules == {Enabled(n) : n \in Percentages} \union {Disabled(100), Disabled(101)}

(* Every pair of rules, valid or not, over up to seven rows.               *)
MCFields == {Field(rows, n, d) : rows \in 1 .. 7, n \in Rules, d \in Rules}

MCHalfAndHalf == {Field(4, Enabled(n), Enabled(d)) : n \in {50}, d \in {50}}
                     \union {Field(7, Enabled(n), Enabled(d)) : n \in {25, 33}, d \in {50, 67}}
MCManyRows == {Field(rows, Enabled(n), Disabled(100)) : rows \in 1 .. 12, n \in {10, 50, 100}}
=============================================================================
