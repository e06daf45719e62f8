--------------------------- MODULE ImportContract ---------------------------
(***************************************************************************)
(* What a caller of DatabaseBackend::generate may rely on, told without    *)
(* threads, queue, batches or transactions: rows of the run reach the      *)
(* table, each at most once; a run that is one transaction shows them all  *)
(* at once or never; then the call either returns a number or fails, and   *)
(* nothing reaches the table afterwards.  The number is that of the rows   *)
(* in the table, without those of statements that nobody answered and with *)
(* those that the program left out of a load file.                         *)
(***************************************************************************)
EXTENDS Naturals, FiniteSets

CONSTANT RowIds                  \* the rows of the run

VARIABLES
    oneShot,                     \* is the whole run one transaction?
    table,                       \* how often each row is in the table
    left_out,                    \* rows that count although they are not there
    unanswered,                  \* rows that are there and do not count
    result                       \* what the call has come to

contractVars == <<oneShot, table, left_out, unanswered, result>>

Landed == {r \in RowIds : table[r] > 0}

Running == [kind |-> "running", rows_written |-> 0]
Failed == [kind |-> "failed", rows_written |-> 0]
Returned(n) == [kind |-> "returned", rows_written |-> n]

ContractInit ==
    /\ oneShot \in BOOLEAN
    /\ table = [r \in RowIds |-> 0]
    /\ left_out = {} /\ unanswered = {}
    /\ result = Running

(* A set of rows appears in the table in one step, none of them again.     *)
Appear(rows) ==
    /\ result = Running
    /\ rows \subseteq RowIds \ (Landed \union left_out)
    /\ oneShot => Landed = {}
    /\ table' = [r \in RowIds |-> IF r \in rows THEN 1 ELSE table[r]]
    /\ UNCHANGED <<oneShot, result>>

(* Rows land; others that should have come with them are left out.         *)
Land(rows, missing) ==
    /\ Appear(rows)
    /\ missing \subseteq RowIds \ (Landed \union rows)
    /\ left_out' = left_out \union missing
    /\ UNCHANGED unanswered

(* Rows land and the program does not learn of it.                         *)
LandUnanswered(rows) ==
    /\ ~oneShot
    /\ Appear(rows)
    /\ unanswered' = unanswered \union rows
    /\ UNCHANGED left_out

Return ==
    /\ result = Running
    /\ result' = Returned(Cardinality((Landed \ unanswered) \union left_out))
    /\ UNCHANGED <<oneShot, table, left_out, unanswered>>

Fail ==
    /\ result = Running
    /\ result' = Failed
    /\ UNCHANGED <<oneShot, table, left_out, unanswered>>

ContractNext ==
    \/ \E rows, missing \in SUBSET RowIds : Land(rows, missing)
    \/ \E rows \in SUBSET RowIds : LandUnanswered(rows)
    \/ Return
    \/ Fail

ContractSpec == ContractInit /\ [][ContractNext]_contractVars
=============================================================================
