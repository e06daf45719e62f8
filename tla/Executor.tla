------------------------------ MODULE Executor ------------------------------
(***************************************************************************)
(* engine::generate_with_consumer (src/src/engine/executor.cpp): generates *)
(* the rows 0 .. rows-1 and hands each of them to a consumer callback,     *)
(* with one thread or with several that own a range of rows each.          *)
(*                                                                         *)
(* generate_sequential is the same loop over all rows, run by the caller   *)
(* itself; it is worker 0 of a call with threads = 1.  Its exceptions      *)
(* reach the caller directly, as that of the only worker does.             *)
(*                                                                         *)
(* The consumer belongs to the caller: it accepts a row (returns true),    *)
(* refuses it (returns false) or throws, as Faults allows.                 *)
(***************************************************************************)
EXTENDS Naturals, FiniteSets, FiniteSetsExt

CONSTANTS
    MaxThreads,          \* no call uses more threads
    Configs,             \* the calls to explore
    Faults               \* what may go wrong in a call

FaultNames == {"generator", "refuse", "consumer_throws"}

(* The fields of a configuration, by what can_parallelize_safely asks of   *)
(* them: every field that is not plain forces a single thread.             *)
FieldKinds == {"plain", "ineligible_generator", "unique", "group", "override"}

(* rows is cfg.rows, requested is opts.requested_threads and hardware is   *)
(* std::thread::hardware_concurrency(), which is 0 when it is unknown.     *)
ConfigType == [rows : Nat, requested : Nat, hardware : Nat, fields : SUBSET FieldKinds]

ASSUME MaxThreadsAssumption == MaxThreads \in Nat \ {0}
ASSUME ConfigsAssumption ==
    /\ Configs \subseteq ConfigType
    /\ \A c \in Configs : c.requested <= MaxThreads
ASSUME FaultsAssumption == Faults \subseteq FaultNames

Workers == 0 .. MaxThreads - 1

VARIABLES
    cfg,                 \* the configuration and the options, fixed for the call
    mainPc,              \* where the caller is
    threads,             \* threads: how many workers the call uses
    spawned,             \* worker_index: how many of them have been started
    start,               \* start: the first row of the next worker
    begin, count,        \* the rows of each worker
    pc,                  \* where each worker is
    i,                   \* the loop counter of each worker
    cancelled,           \* cancelled
    worker_exception,    \* is worker_exception set?
    generated_count,     \* generated_count
    delivered,           \* how often the consumer accepted each row
    result               \* what the call has returned or thrown

mainVars == <<mainPc, threads, spawned, start, begin, count, result>>
vars == <<cfg, mainVars, pc, i, cancelled, worker_exception, generated_count, delivered>>

RowIds == 0 .. cfg.rows - 1

EffectiveThreadCount ==
    IF cfg.rows <= 1 THEN 1
    ELSE Min({Max({1, cfg.requested}), Max({1, cfg.hardware}), cfg.rows})

CanParallelizeSafely == cfg.fields \subseteq {"plain"}

NotYet == [kind |-> "running", rows_generated |-> 0, threads_used |-> 0]
Threw == [kind |-> "threw", rows_generated |-> 0, threads_used |-> 0]
Returned(n) == [kind |-> "returned", rows_generated |-> n, threads_used |-> threads]

(***************************************************************************)
(* The caller.                                                             *)
(***************************************************************************)
ChooseThreads ==
    /\ mainPc = "choose"
    /\ threads' = IF CanParallelizeSafely THEN EffectiveThreadCount ELSE 1
    /\ mainPc' = "spawn"
    /\ UNCHANGED <<cfg, spawned, start, begin, count, result, pc, i, cancelled,
                   worker_exception, generated_count, delivered>>

(* Mutant of RowsOf: the remainder goes to one worker too many.            *)
RowsOfOffByOne(w) ==
    (cfg.rows \div threads) + (IF w <= cfg.rows % threads THEN 1 ELSE 0)

(* The first rem workers get one row more than the others.                 *)
RowsOf(w) ==
    (cfg.rows \div threads) + (IF w < cfg.rows % threads THEN 1 ELSE 0)

(* Mutant of SpawnWorker: the next range does not start after the extra    *)
(* row of this one.                                                        *)
SpawnOverlappingWorker ==
    /\ mainPc = "spawn"
    /\ spawned < threads
    /\ begin' = [begin EXCEPT ![spawned] = start]
    /\ count' = [count EXCEPT ![spawned] = RowsOf(spawned)]
    /\ start' = start + (cfg.rows \div threads)
    /\ pc' = [pc EXCEPT ![spawned] = "build"]
    /\ spawned' = spawned + 1
    /\ UNCHANGED <<cfg, mainPc, threads, result, i, cancelled, worker_exception,
                   generated_count, delivered>>

SpawnWorker ==
    /\ mainPc = "spawn"
    /\ spawned < threads
    /\ begin' = [begin EXCEPT ![spawned] = start]
    /\ count' = [count EXCEPT ![spawned] = RowsOf(spawned)]
    /\ start' = start + RowsOf(spawned)
    /\ pc' = [pc EXCEPT ![spawned] = "build"]
    /\ spawned' = spawned + 1
    /\ UNCHANGED <<cfg, mainPc, threads, result, i, cancelled, worker_exception,
                   generated_count, delivered>>

(* Mutant of JoinWorkers: only the first worker is joined.                 *)
JoinFirstWorker ==
    /\ mainPc = "spawn"
    /\ spawned = threads
    /\ pc[0] \in {"done", "caught"}
    /\ mainPc' = "report"
    /\ UNCHANGED <<cfg, threads, spawned, start, begin, count, result, pc, i, cancelled,
                   worker_exception, generated_count, delivered>>

JoinWorkers ==
    /\ mainPc = "spawn"
    /\ spawned = threads
    /\ \A w \in 0 .. threads - 1 : pc[w] \in {"done", "caught"}
    /\ mainPc' = "report"
    /\ UNCHANGED <<cfg, threads, spawned, start, begin, count, result, pc, i, cancelled,
                   worker_exception, generated_count, delivered>>

(* The exception of a worker is thrown again; otherwise the call returns,  *)
(* whether it was cancelled or not.                                        *)
Report ==
    /\ mainPc = "report"
    /\ result' = IF worker_exception THEN Threw ELSE Returned(generated_count)
    /\ mainPc' = "end"
    /\ UNCHANGED <<cfg, threads, spawned, start, begin, count, pc, i, cancelled,
                   worker_exception, generated_count, delivered>>

(***************************************************************************)
(* The workers.                                                            *)
(***************************************************************************)
Goto(w, place) == pc' = [pc EXCEPT ![w] = place]

BuildFields(w) ==
    /\ pc[w] = "build"
    /\ Goto(w, "check")
    /\ UNCHANGED <<cfg, mainVars, i, cancelled, worker_exception, generated_count, delivered>>

(* Mutant of CheckCancelled: a worker generates all of its rows.           *)
NeverCheckCancelled(w) ==
    /\ pc[w] = "check"
    /\ Goto(w, IF i[w] < count[w] THEN "consume" ELSE "done")
    /\ UNCHANGED <<cfg, mainVars, i, cancelled, worker_exception, generated_count, delivered>>

CheckCancelled(w) ==
    /\ pc[w] = "check"
    /\ Goto(w, IF i[w] < count[w] /\ ~cancelled THEN "consume" ELSE "done")
    /\ UNCHANGED <<cfg, mainVars, i, cancelled, worker_exception, generated_count, delivered>>

(* materialize_row and the call of the consumer, which accepts the row.    *)
RowAccepted(w) ==
    /\ pc[w] = "consume"
    /\ delivered' = [delivered EXCEPT ![begin[w] + i[w]] = @ + 1]
    /\ Goto(w, "count")
    /\ UNCHANGED <<cfg, mainVars, i, cancelled, worker_exception, generated_count>>

(* Mutants of RowRefused: the row is skipped, or offered again.            *)
RowSkipped(w) ==
    /\ "refuse" \in Faults
    /\ pc[w] = "consume"
    /\ i' = [i EXCEPT ![w] = @ + 1]
    /\ Goto(w, "check")
    /\ UNCHANGED <<cfg, mainVars, cancelled, worker_exception, generated_count, delivered>>

RowOfferedAgain(w) ==
    /\ "refuse" \in Faults
    /\ pc[w] = "consume"
    /\ Goto(w, "check")
    /\ UNCHANGED <<cfg, mainVars, i, cancelled, worker_exception, generated_count, delivered>>

RowRefused(w) ==
    /\ "refuse" \in Faults
    /\ pc[w] = "consume"
    /\ Goto(w, "cancel")
    /\ UNCHANGED <<cfg, mainVars, i, cancelled, worker_exception, generated_count, delivered>>

(* Mutant of Cancel: the other workers are not told.                       *)
CancelQuietly(w) ==
    /\ pc[w] = "cancel"
    /\ Goto(w, "done")
    /\ UNCHANGED <<cfg, mainVars, i, cancelled, worker_exception, generated_count, delivered>>

Cancel(w) ==
    /\ pc[w] = "cancel"
    /\ cancelled' = TRUE
    /\ Goto(w, "done")
    /\ UNCHANGED <<cfg, mainVars, i, worker_exception, generated_count, delivered>>

CountRow(w) ==
    /\ pc[w] = "count"
    /\ generated_count' = generated_count + 1
    /\ i' = [i EXCEPT ![w] = @ + 1]
    /\ Goto(w, "check")
    /\ UNCHANGED <<cfg, mainVars, cancelled, worker_exception, delivered>>

(* A generator throws while it is built or asked for a value, or the       *)
(* consumer throws.                                                        *)
Throw(w) ==
    /\ \/ "generator" \in Faults /\ pc[w] \in {"build", "consume"}
       \/ "consumer_throws" \in Faults /\ pc[w] = "consume"
    /\ Goto(w, "catch")
    /\ UNCHANGED <<cfg, mainVars, i, cancelled, worker_exception, generated_count, delivered>>

(* Mutant of Catch: an exception after a cancellation is dropped.          *)
CatchUnlessCancelled(w) ==
    /\ pc[w] = "catch"
    /\ worker_exception' = (worker_exception \/ ~cancelled)
    /\ cancelled' = TRUE
    /\ Goto(w, "caught")
    /\ UNCHANGED <<cfg, mainVars, i, generated_count, delivered>>

(* The first exception is kept, under exception_mutex, and cancels the     *)
(* call; the later ones are dropped.                                       *)
Catch(w) ==
    /\ pc[w] = "catch"
    /\ worker_exception' = TRUE
    /\ cancelled' = (cancelled \/ ~worker_exception)
    /\ Goto(w, "caught")
    /\ UNCHANGED <<cfg, mainVars, i, generated_count, delivered>>

(***************************************************************************)
(* The specification.                                                      *)
(***************************************************************************)
Init ==
    /\ cfg \in Configs
    /\ mainPc = "choose" /\ threads = 1 /\ spawned = 0 /\ start = 0 /\ result = NotYet
    /\ begin = [w \in Workers |-> 0] /\ count = [w \in Workers |-> 0]
    /\ pc = [w \in Workers |-> "idle"]
    /\ i = [w \in Workers |-> 0]
    /\ cancelled = FALSE /\ worker_exception = FALSE
    /\ generated_count = 0
    /\ delivered = [r \in RowIds |-> 0]

CallerStep == ChooseThreads \/ SpawnWorker \/ JoinWorkers \/ Report

WorkerStep(w) ==
    \/ BuildFields(w) \/ CheckCancelled(w)
    \/ RowAccepted(w) \/ RowRefused(w)
    \/ Cancel(w) \/ CountRow(w)
    \/ Throw(w) \/ Catch(w)

(* The call has returned or thrown.                                        *)
Ended == mainPc = "end" /\ UNCHANGED vars

Next == CallerStep \/ (\E w \in Workers : WorkerStep(w)) \/ Ended

Spec == Init /\ [][Next]_vars

(* Every thread is scheduled, and the consumer returns.                    *)
FairSpec == Spec /\ WF_vars(CallerStep) /\ \A w \in Workers : WF_vars(WorkerStep(w))

-----------------------------------------------------------------------------
(***************************************************************************)
(* Properties.                                                             *)
(***************************************************************************)
Places == {"idle", "build", "check", "consume", "count", "cancel", "catch", "done",
           "caught"}
Accepted == {r \in RowIds : delivered[r] > 0}

TypeOK ==
    /\ cfg \in Configs
    /\ mainPc \in {"choose", "spawn", "report", "end"}
    /\ threads \in 1 .. MaxThreads /\ spawned \in 0 .. threads
    /\ start \in 0 .. cfg.rows
    /\ begin \in [Workers -> Nat] /\ count \in [Workers -> Nat] /\ i \in [Workers -> Nat]
    /\ pc \in [Workers -> Places]
    /\ cancelled \in BOOLEAN /\ worker_exception \in BOOLEAN
    /\ generated_count \in Nat
    /\ delivered \in [RowIds -> Nat]
    /\ result \in [kind : {"running", "threw", "returned"}, rows_generated : Nat,
                   threads_used : Nat]

(* The ranges of the workers neither overlap nor leave the rows: a row     *)
(* that the consumer is offered exists, and it is accepted once.           *)
EachRowOnce ==
    /\ \A r \in RowIds : delivered[r] <= 1
    /\ \A w \in Workers :
          pc[w] = "consume" => /\ begin[w] + i[w] \in RowIds
                               /\ delivered[begin[w] + i[w]] = 0

(* Each worker hands out its rows in order and without a gap; a call with  *)
(* one thread (as FileBackend needs it) hands out rows 0, 1, 2, ...        *)
NoGaps ==
    \A w \in 0 .. spawned - 1 :
        LET done == {r \in Accepted : r \in begin[w] .. (begin[w] + count[w] - 1)}
        IN  done = begin[w] .. (begin[w] + Cardinality(done) - 1)

(* A call that returns reports the number of rows the consumer has         *)
(* accepted; unless the consumer has cancelled it, these are all rows, and *)
(* if it has, they are fewer (tests/test_executor.cpp,                     *)
(* ParallelGenerateWithConsumerStopsWhenConsumerCancels).                  *)
ReturnTellsTheTruth ==
    result.kind = "returned" =>
        /\ result.rows_generated = Cardinality(Accepted)
        /\ cancelled <=> result.rows_generated < cfg.rows

(* The call throws if, and only if, one of its workers had an exception,   *)
(* even one that came after a cancellation, and no worker is still running *)
(* with references to the locals of the caller.                            *)
NoExceptionLost ==
    mainPc = "end" =>
        /\ \A w \in Workers : pc[w] \in {"idle", "done", "caught"}
        /\ result.kind = "threw" <=> \E w \in Workers : pc[w] = "caught"

(* After a cancellation a worker finishes the row it is at and begins no   *)
(* other one.                                                              *)
CancelEndsTheLoops ==
    \A w \in Workers :
        [](cancelled /\ pc[w] \in {"idle", "build", "check"} => [](pc[w] # "consume"))

(* The call returns or throws.                                             *)
Termination == <>(mainPc = "end")
=============================================================================
