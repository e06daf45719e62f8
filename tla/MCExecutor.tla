----------------------------- MODULE MCExecutor -----------------------------
(* The calls the runs of Executor explore.                                 *)
EXTENDS Executor

Call(rows, requested, hardware, fields) ==
    [rows |-> rows, requested |-> requested, hardware |-> hardware, fields |-> fields]

Plain == {"plain"}

(* Rows that do and do not divide by the threads, fewer rows than threads, *)
(* more threads than the machine has, and an unknown machine.             *)
MCCalls ==
    {Call(rows, requested, 8, Plain) : rows \in 1 .. 6, requested \in 0 .. 3}
        \union {Call(4, 3, hardware, Plain) : hardware \in 0 .. 2}
        \union {Call(3, 3, 8, {"plain", kind}) : kind \in FieldKinds}
=============================================================================
