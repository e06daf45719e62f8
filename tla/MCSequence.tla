----------------------------- MODULE MCSequence -----------------------------
(* Sequences of at most eight-bit numbers under the rules of               *)
(* MCOverrideRules.                                                        *)
EXTENDS SequenceGenerator, MCOverrideRules

Sequence(start, end, step, circle) ==
    [start |-> start, end |-> end, step |-> step, circle |-> circle]

(* Up and down, with an end that is met exactly or jumped over, a start    *)
(* beyond the end, no step, and an end next to the largest number.         *)
MCSequences ==
    {Sequence(1, 3, 1, c) : c \in BOOLEAN} \cup {Sequence(0, 5, 2, c) : c \in BOOLEAN}
    \cup {Sequence(2, -4, -3, c) : c \in BOOLEAN}
    \cup {Sequence(4, 1, 2, FALSE), Sequence(-1, 6, -2, TRUE), Sequence(1, 3, 0, TRUE),
          Sequence(125, 127, 2, TRUE)}
=============================================================================
