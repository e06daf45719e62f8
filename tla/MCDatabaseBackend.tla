------------------------- MODULE MCDatabaseBackend -------------------------
(* The configurations the runs of DatabaseBackend explore.                 *)
EXTENDS DatabaseBackend

Cfg(db, mode, policy, insert, write, size, failing) ==
    [db |-> db, transaction_mode |-> mode, error_policy |-> policy,
     insert_mode |-> insert, write_mode |-> write, queue_size |-> size, faults |-> failing]

Transactions == {"per-batch", "per-run", "none"}
Policies == {"stop", "continue", "rollback"}

(* Every transaction mode and policy, on a database with several writers.  *)
(* A transaction that is undone with a failed statement is left out of     *)
(* per-run with continue (Undoable): the rows before it are gone.          *)
MCMySql ==
    {Cfg("mysql", t, p, "insert", "append", 1,
         {"connect", "begin", "convert", "sql", "commit", "lost_ack", "rollback", "generator"}
         \union (IF t = "per-run" /\ p = "continue" THEN {} ELSE {"undo"})) :
        t \in Transactions, p \in Policies}

(* What the databases do differently, with the options that depend on it:  *)
(* load with its short files and its fallback, upsert and truncate, with   *)
(* the faults that matter to them.  PostgreSQL with per-run and continue   *)
(* is left out (Lossy): a COMMIT of an aborted transaction succeeds.       *)
MCDatabases ==
    LET D(db, mode, policy, insert, write, more) ==
            Cfg(db, mode, policy, insert, write, 1,
                {"setup", "clear", "key", "tempfile", "local_infile", "sql", "begin", "commit",
                 "generator"} \union more)
    IN {D("sqlite", "per-batch", "stop", "load", "truncate", {"undo"}),
        D("sqlite", "per-batch", "continue", "insert", "append", {"undo", "rollback"}),
        D("sqlite", "per-run", "rollback", "insert", "upsert", {"undo", "rollback"}),
        D("mysql", "per-batch", "stop", "load", "append", {"short_write"}),
        D("mysql", "none", "continue", "load", "append", {"short_write", "lost_ack"}),
        D("mysql", "per-run", "rollback", "load", "truncate", {"short_write", "lost_ack"}),
        D("postgresql", "per-batch", "continue", "load", "append", {"short_write", "rollback"}),
        D("postgresql", "per-run", "rollback", "insert", "append", {}),
        D("oracle", "per-batch", "rollback", "insert", "append", {"lost_ack"}),
        D("oracle", "per-run", "stop", "load", "upsert", {})}

MCImports == MCMySql \union MCDatabases

(* The configurations that carry on after a failed batch, with the         *)
(* smallest queue.                                                         *)
MCKeepsGoing ==
    {c \in {Cfg(d, t, p, i, "append", 1, {"convert", "sql", "short_write", "local_infile"}) :
                d \in {"mysql", "oracle"}, t \in Transactions, p \in Policies,
                i \in {"insert", "load"}} :
        \/ c.error_policy = "continue"
        \/ /\ c.error_policy = "rollback" /\ c.transaction_mode = "per-batch"
           /\ c.insert_mode = "insert"}

(* All of them, with a queue that holds every row.                         *)
MCWindsDown ==
    {Cfg("mysql", t, p, "insert", "append", 3,
         {"connect", "begin", "convert", "sql", "commit", "generator"}) :
        t \in Transactions, p \in Policies}

MCEnds == MCKeepsGoing \union MCWindsDown

MCStop == {Cfg("mysql", "per-batch", "stop", "insert", "append", 1, {"sql"})}
MCContinue == {Cfg("mysql", "per-batch", "continue", "insert", "append", 1, {"commit"})}
MCShortFile == {Cfg("mysql", "per-batch", "stop", "load", "append", 1, {"short_write"})}
MCOracleRollback == {Cfg("oracle", "per-run", "rollback", "insert", "append", 1, {"sql"})}
=============================================================================
