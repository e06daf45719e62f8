--------------------------- MODULE ExecutorProofs ---------------------------
(***************************************************************************)
(* Proofs about Executor: the ranges of the workers lie one behind the     *)
(* other within the rows of the run, so no row is delivered twice; what a  *)
(* call returns or throws is what its workers have done.                   *)
(***************************************************************************)
EXTENDS Executor, FiniteSetTheorems, TLAPS

(***************************************************************************)
(* The number of threads.                                                  *)
(***************************************************************************)
(* What the code takes the maximum and the minimum of has one.             *)
LEMMA MaxOfTwo ==
    ASSUME NEW m \in Nat, NEW n \in Nat
    PROVE  Max({m, n}) \in {m, n} /\ Max({m, n}) >= m /\ Max({m, n}) >= n
<1>1. \E x \in {m, n} : \A y \in {m, n} : x >= y
  BY SMT
<1> QED BY <1>1, SMT DEF Max

LEMMA MinOfThree ==
    ASSUME NEW m \in Nat, NEW n \in Nat, NEW k \in Nat
    PROVE  Min({m, n, k}) \in {m, n, k} /\ Min({m, n, k}) <= m
<1>1. \E x \in {m, n, k} : \A y \in {m, n, k} : x <= y
  BY SMT
<1> QED BY <1>1, SMT DEF Min

(* A configuration has rows, a request and a machine.                      *)
LEMMA ConfigShape ==
    ASSUME cfg \in Configs
    PROVE  /\ cfg.rows \in Nat /\ cfg.requested \in Nat /\ cfg.hardware \in Nat
           /\ cfg.requested <= MaxThreads
  BY ConfigsAssumption DEF ConfigType

(* A call uses one thread at least and as many as MaxThreads at most.      *)
LEMMA ThreadCountBound ==
    ASSUME cfg \in Configs
    PROVE  EffectiveThreadCount \in 1 .. MaxThreads
<1> DEFINE wanted == Max({1, cfg.requested})
           hw == Max({1, cfg.hardware})
<1>1. cfg.rows \in Nat /\ cfg.requested \in Nat /\ cfg.hardware \in Nat
      /\ cfg.requested <= MaxThreads /\ MaxThreads \in Nat \ {0}
  BY ConfigShape, MaxThreadsAssumption
<1>2. wanted \in {1, cfg.requested} /\ wanted >= 1
  BY <1>1, MaxOfTwo
<1>3. wanted \in Nat /\ wanted >= 1 /\ wanted <= MaxThreads
  BY <1>1, <1>2
<1>4. hw \in {1, cfg.hardware} /\ hw >= 1
  BY <1>1, MaxOfTwo
<1>5. hw \in Nat /\ hw >= 1
  BY <1>1, <1>4
<1>6. CASE cfg.rows <= 1
  BY <1>1, <1>6 DEF EffectiveThreadCount
<1>7. CASE cfg.rows > 1
  <2> HIDE DEF wanted, hw
  <2>1. Min({wanted, hw, cfg.rows}) \in {wanted, hw, cfg.rows}
        /\ Min({wanted, hw, cfg.rows}) <= wanted
    BY <1>1, <1>3, <1>5, MinOfThree
  <2>2. Min({wanted, hw, cfg.rows}) \in 1 .. MaxThreads
    BY <1>1, <1>3, <1>5, <1>7, <2>1
  <2>3. EffectiveThreadCount = Min({wanted, hw, cfg.rows})
    BY <1>1, <1>7 DEF EffectiveThreadCount, wanted, hw
  <2> QED BY <2>2, <2>3
<1> QED BY <1>1, <1>6, <1>7

(***************************************************************************)
(* The partition of the rows.                                              *)
(***************************************************************************)
(* Where the range of worker n begins: the rows of the workers before it.  *)
FirstRow(n) ==
    n * (cfg.rows \div threads)
        + (IF n <= cfg.rows % threads THEN n ELSE cfg.rows % threads)

(* Division with remainder.                                                *)
LEMMA Division ==
    ASSUME NEW m \in Nat, NEW n \in Nat \ {0}
    PROVE  /\ m \div n \in Nat
           /\ m % n \in Nat
           /\ m % n \in 0 .. n - 1
           /\ m = n * (m \div n) + (m % n)
  BY SMT

LEMMA Monotone ==
    ASSUME NEW m \in Nat, NEW n \in Nat, m <= n, NEW k \in Nat
    PROVE  m * k \in Nat /\ n * k \in Nat /\ m * k <= n * k
<1>1. m * k \in Nat /\ n * k \in Nat /\ (n - m) * k \in Nat
  BY SMT
<1>2. (n - m) * k = n * k - m * k
  BY SMT
<1> QED BY <1>1, <1>2, SMT

(* The ranges follow each other and end where the rows end.                *)
LEMMA FirstRowNext ==
    ASSUME cfg.rows \in Nat, threads \in Nat \ {0}, NEW n \in 0 .. threads - 1
    PROVE  /\ RowsOf(n) \in Nat
           /\ FirstRow(n) \in Nat
           /\ FirstRow(n + 1) = FirstRow(n) + RowsOf(n)
           /\ FirstRow(n + 1) <= cfg.rows
<1> DEFINE base == cfg.rows \div threads
           rem == cfg.rows % threads
<1>1. base \in Nat /\ rem \in 0 .. threads - 1 /\ cfg.rows = threads * base + rem
  BY Division
<1>2. n * base \in Nat /\ (n + 1) * base \in Nat /\ (n + 1) * base <= threads * base
  <2>1. n \in Nat /\ n + 1 \in Nat /\ n + 1 <= threads
    OBVIOUS
  <2> QED BY <1>1, <2>1, Monotone
<1>3. (n + 1) * base = n * base + base
  BY <1>1, SMT
<1>4. RowsOf(n) = base + (IF n < rem THEN 1 ELSE 0)
  BY DEF RowsOf
<1>5. FirstRow(n) = n * base + (IF n <= rem THEN n ELSE rem)
  BY DEF FirstRow
<1>6. FirstRow(n + 1) = (n + 1) * base + (IF n + 1 <= rem THEN n + 1 ELSE rem)
  BY DEF FirstRow
<1> HIDE DEF base, rem
<1>7. (IF n + 1 <= rem THEN n + 1 ELSE rem)
        = (IF n <= rem THEN n ELSE rem) + (IF n < rem THEN 1 ELSE 0)
      /\ (IF n + 1 <= rem THEN n + 1 ELSE rem) <= rem
      /\ (IF n <= rem THEN n ELSE rem) \in Nat
  <2>1. n \in Nat /\ rem \in Nat
    BY <1>1
  <2>2. CASE n < rem
    BY <2>1, <2>2
  <2>3. CASE n >= rem
    BY <2>1, <2>3
  <2> QED BY <2>1, <2>2, <2>3
<1>8. threads * base \in Nat
  BY <1>1, SMT
<1> QED BY <1>1, <1>2, <1>3, <1>4, <1>5, <1>6, <1>7, <1>8

(***************************************************************************)
(* The inductive invariant.                                                *)
(***************************************************************************)
(* The ranges of the workers that have been started, one behind the other. *)
Ranges ==
    /\ mainPc = "choose" => spawned = 0
    /\ start = FirstRow(spawned)
    /\ \A w \in Workers : w < spawned => begin[w] + count[w] <= start
    /\ \A w \in Workers : \A v \in Workers :
          v < w /\ w < spawned => begin[v] + count[v] <= begin[w]

(* A worker that has not been started has done nothing.                    *)
Positions ==
    \A w \in Workers :
        /\ w >= spawned => pc[w] = "idle" /\ i[w] = 0
        /\ pc[w] \in {"consume", "count"} => i[w] < count[w]

(* The rows that are yet to come have not been delivered.                  *)
RowsToCome ==
    /\ \A r \in RowIds : delivered[r] <= 1
    /\ \A r \in RowIds : r >= start => delivered[r] = 0
    /\ \A w \in Workers : \A r \in RowIds :
          /\ w < spawned
          /\ begin[w] + i[w] <= r
          /\ r < begin[w] + count[w]
          => delivered[r] = 0 \/ (pc[w] = "count" /\ r = begin[w] + i[w])

ExecutorInv == TypeOK /\ Ranges /\ Positions /\ RowsToCome

LEMMA ExecutorInit == Init => ExecutorInv
<1> SUFFICES ASSUME Init PROVE ExecutorInv
  OBVIOUS
<1> USE DEF Init
<1>1. cfg \in Configs /\ cfg.rows \in Nat /\ MaxThreads \in Nat \ {0}
  BY ConfigShape, MaxThreadsAssumption
<1>2. TypeOK
  <2>1. NotYet \in [kind : {"running", "threw", "returned"}, rows_generated : Nat,
                    threads_used : Nat]
    BY DEF NotYet
  <2>2. threads \in 1 .. MaxThreads /\ spawned \in 0 .. threads /\ start \in 0 .. cfg.rows
    BY <1>1
  <2>3. delivered \in [RowIds -> Nat]
    OBVIOUS
  <2>4. /\ begin \in [Workers -> Nat] /\ count \in [Workers -> Nat]
        /\ i \in [Workers -> Nat] /\ pc \in [Workers -> Places]
    BY DEF Places
  <2> QED BY <1>1, <2>1, <2>2, <2>3, <2>4 DEF TypeOK
<1>3. Ranges
  <2>1. cfg.rows % threads \in Nat /\ cfg.rows \div threads \in Nat
    BY <1>1
  <2>2. FirstRow(0) = 0
    BY <1>1, <2>1 DEF FirstRow
  <2> QED BY <2>2 DEF Ranges, Workers
<1>4. Positions
  BY DEF Positions
<1>5. RowsToCome
  BY DEF RowsToCome, Workers
<1> QED BY <1>2, <1>3, <1>4, <1>5 DEF ExecutorInv

(* The choice of the number of threads comes before any range.             *)
LEMMA ChooseKeepsInv == ASSUME ExecutorInv, ChooseThreads PROVE ExecutorInv'
<1> USE DEF ExecutorInv, ChooseThreads
<1>1. cfg \in Configs /\ cfg.rows \in Nat /\ MaxThreads \in Nat \ {0}
  BY ConfigShape, MaxThreadsAssumption DEF TypeOK
<1>2. threads' \in 1 .. MaxThreads
  BY <1>1, ThreadCountBound
<1>3. spawned = 0 /\ start = 0
  <2>1. spawned = 0
    BY DEF Ranges
  <2>2. threads \in Nat \ {0}
    BY <1>1 DEF TypeOK
  <2>3. cfg.rows % threads \in Nat /\ cfg.rows \div threads \in Nat
    BY <1>1, <2>2, Division
  <2> QED BY <2>1, <2>3 DEF Ranges, FirstRow
<1>4. TypeOK'
  BY <1>1, <1>2, <1>3 DEF TypeOK, RowIds
<1>5. Ranges'
  <2>1. threads' \in Nat \ {0}
    BY <1>1, <1>2
  <2>2. cfg.rows % threads' \in Nat /\ cfg.rows \div threads' \in Nat
    BY <1>1, <2>1, Division
  <2>3. FirstRow(spawned)' = 0
    BY <1>3, <2>2 DEF FirstRow
  <2> QED BY <1>3, <2>3 DEF Ranges, Workers
<1>6. Positions'
  BY DEF Positions
<1>7. RowsToCome'
  BY DEF RowsToCome, RowIds
<1> QED BY <1>4, <1>5, <1>6, <1>7

(* A new range begins where the last one ends.                             *)
LEMMA SpawnKeepsInv == ASSUME ExecutorInv, SpawnWorker PROVE ExecutorInv'
<1> USE DEF ExecutorInv, SpawnWorker
<1>1. cfg \in Configs /\ cfg.rows \in Nat /\ MaxThreads \in Nat \ {0}
  BY ConfigShape, MaxThreadsAssumption DEF TypeOK
<1>2. threads \in Nat \ {0} /\ threads <= MaxThreads /\ spawned \in 0 .. threads - 1
      /\ spawned \in Workers
  BY <1>1 DEF TypeOK, Workers
<1>3. start = FirstRow(spawned)
  BY DEF Ranges
<1>4. /\ RowsOf(spawned) \in Nat /\ start \in Nat
      /\ FirstRow(spawned + 1) = start + RowsOf(spawned)
      /\ FirstRow(spawned + 1) <= cfg.rows
  BY <1>1, <1>2, <1>3, FirstRowNext
<1>5. start' = FirstRow(spawned)' /\ start' \in 0 .. cfg.rows
  <2>1. FirstRow(spawned)' = FirstRow(spawned + 1)
    BY DEF FirstRow
  <2> QED BY <1>1, <1>4, <2>1
<1>6. /\ begin'[spawned] = start /\ count'[spawned] = RowsOf(spawned)
      /\ pc'[spawned] = "build"
      /\ \A w \in Workers \ {spawned} :
            begin[w]' = begin[w] /\ count[w]' = count[w] /\ pc[w]' = pc[w]
  BY <1>2 DEF TypeOK
<1>7. TypeOK'
  <2>1. begin' \in [Workers -> Nat] /\ count' \in [Workers -> Nat]
        /\ pc' \in [Workers -> Places]
    BY <1>2, <1>4 DEF TypeOK, Places
  <2>2. spawned' \in 0 .. threads'
    BY <1>2
  <2> QED BY <1>1, <1>5, <2>1, <2>2 DEF TypeOK, RowIds
<1>8. Ranges'
  <2>1. ASSUME NEW w \in Workers, w < spawned'
        PROVE  begin[w]' + count[w]' <= start'
    <3>1. CASE w = spawned
      BY <1>4, <1>6, <3>1
    <3>2. CASE w # spawned
      <4>1. w < spawned /\ w \in Nat
        BY <1>2, <2>1, <3>2 DEF Workers
      <4>2. begin[w] + count[w] <= start /\ begin[w] \in Nat /\ count[w] \in Nat
        BY <4>1 DEF Ranges, TypeOK
      <4> QED BY <1>4, <1>6, <3>2, <4>2
    <3> QED BY <3>1, <3>2
  <2>2. ASSUME NEW w \in Workers, NEW v \in Workers, v < w, w < spawned'
        PROVE  begin[v]' + count[v]' <= begin[w]'
    <3>0. v # spawned /\ v < spawned
      BY <1>2, <2>2 DEF Workers
    <3>1. CASE w = spawned
      <4>1. begin[v] + count[v] <= start
        BY <3>0 DEF Ranges
      <4> QED BY <1>6, <3>0, <3>1, <4>1
    <3>2. CASE w # spawned
      <4>1. w < spawned
        BY <1>2, <2>2, <3>2 DEF Workers
      <4>2. begin[v] + count[v] <= begin[w]
        BY <2>2, <4>1 DEF Ranges
      <4> QED BY <1>6, <3>0, <3>2, <4>2
    <3> QED BY <3>1, <3>2
  <2> QED BY <1>5, <2>1, <2>2 DEF Ranges
<1>9. Positions'
  <2> SUFFICES ASSUME NEW w \in Workers
               PROVE  /\ w >= spawned' => pc[w]' = "idle" /\ i[w]' = 0
                      /\ pc[w]' \in {"consume", "count"} => i[w]' < count[w]'
    BY DEF Positions
  <2>1. CASE w = spawned
    BY <1>2, <1>6, <2>1
  <2>2. CASE w # spawned
    <3>1. w >= spawned' => w >= spawned
      BY <1>2 DEF Workers
    <3> QED BY <1>6, <2>2, <3>1 DEF Positions
  <2> QED BY <2>1, <2>2
<1>10. RowsToCome'
  <2>0. RowIds' = RowIds /\ RowIds \subseteq Nat
    BY <1>1 DEF RowIds
  <2>1. ASSUME NEW r \in RowIds, r >= start'
        PROVE  delivered[r] = 0
    <3>1. r >= start
      BY <1>4, <2>0, <2>1
    <3> QED BY <3>1 DEF RowsToCome
  <2>2. ASSUME NEW w \in Workers, NEW r \in RowIds,
               w < spawned', begin[w]' + i[w] <= r, r < begin[w]' + count[w]'
        PROVE  delivered[r] = 0 \/ (pc[w]' = "count" /\ r = begin[w]' + i[w])
    <3>1. CASE w = spawned
      <4>1. i[w] = 0
        BY <1>2, <3>1 DEF Positions
      <4>2. r >= start
        BY <1>4, <1>6, <2>2, <3>1, <4>1
      <4> QED BY <4>2 DEF RowsToCome
    <3>2. CASE w # spawned
      <4>1. w < spawned
        BY <1>2, <2>2, <3>2 DEF Workers
      <4> QED BY <1>6, <2>2, <3>2, <4>1 DEF RowsToCome
    <3> QED BY <3>1, <3>2
  <2> QED BY <2>0, <2>1, <2>2 DEF RowsToCome
<1> QED BY <1>7, <1>8, <1>9, <1>10

LEMMA CallerKeepsInv == ASSUME ExecutorInv, JoinWorkers \/ Report PROVE ExecutorInv'
<1>1. /\ UNCHANGED <<cfg, threads, spawned, start, begin, count, pc, i, cancelled,
                     worker_exception, generated_count, delivered>>
      /\ mainPc' \in {"report", "end"}
  BY DEF JoinWorkers, Report
<1>2. result' \in [kind : {"running", "threw", "returned"}, rows_generated : Nat,
                   threads_used : Nat]
  <2>1. result \in [kind : {"running", "threw", "returned"}, rows_generated : Nat,
                    threads_used : Nat]
        /\ generated_count \in Nat /\ threads \in Nat
    BY MaxThreadsAssumption DEF ExecutorInv, TypeOK
  <2> QED BY <2>1 DEF JoinWorkers, Report, Threw, Returned
<1>3. TypeOK'
  BY <1>1, <1>2 DEF ExecutorInv, TypeOK, RowIds
<1>4. Ranges'
  BY <1>1 DEF ExecutorInv, Ranges, FirstRow
<1>5. Positions' /\ RowsToCome'
  BY <1>1 DEF ExecutorInv, Positions, RowsToCome, RowIds
<1> QED BY <1>3, <1>4, <1>5 DEF ExecutorInv

(* A worker that only moves on, to a row it has or to none.                *)
LEMMA MoveKeepsInv ==
    ASSUME ExecutorInv, NEW w \in Workers,
           NEW place \in Places \ {"idle", "count"},
           pc[w] \notin {"idle", "count"},
           place = "consume" => i[w] < count[w],
           pc' = [pc EXCEPT ![w] = place],
           UNCHANGED <<cfg, mainVars, i, generated_count, delivered>>,
           cancelled' \in BOOLEAN, worker_exception' \in BOOLEAN
    PROVE  ExecutorInv'
<1> USE DEF ExecutorInv, mainVars
<1>1. /\ pc'[w] = place
      /\ \A v \in Workers \ {w} : pc'[v] = pc[v]
      /\ pc' \in [Workers -> Places]
  BY DEF TypeOK
<1>2. TypeOK'
  BY <1>1 DEF TypeOK, RowIds
<1>3. Ranges'
  BY DEF Ranges, FirstRow
<1>4. Positions'
  <2> SUFFICES ASSUME NEW v \in Workers
               PROVE  /\ v >= spawned => pc'[v] = "idle" /\ i[v] = 0
                      /\ pc'[v] \in {"consume", "count"} => i[v] < count[v]
    BY DEF Positions
  <2>1. CASE v = w
    BY <1>1, <2>1 DEF Positions
  <2>2. CASE v # w
    BY <1>1, <2>2 DEF Positions
  <2> QED BY <2>1, <2>2
<1>5. RowsToCome'
  <2> SUFFICES ASSUME NEW v \in Workers, NEW r \in RowIds, v < spawned,
                      begin[v] + i[v] <= r, r < begin[v] + count[v]
               PROVE  delivered[r] = 0 \/ (pc'[v] = "count" /\ r = begin[v] + i[v])
    BY DEF RowsToCome, RowIds
  <2>1. delivered[r] = 0 \/ (pc[v] = "count" /\ r = begin[v] + i[v])
    BY DEF RowsToCome
  <2> QED BY <1>1, <2>1
<1> QED BY <1>2, <1>3, <1>4, <1>5

(* The row a worker offers exists and has not been delivered.              *)
LEMMA RowIsNew ==
    ASSUME ExecutorInv, NEW w \in Workers, pc[w] = "consume"
    PROVE  /\ w < spawned
           /\ begin[w] + i[w] \in RowIds
           /\ begin[w] + i[w] < begin[w] + count[w]
           /\ delivered[begin[w] + i[w]] = 0
<1> USE DEF ExecutorInv
<1>1. w < spawned /\ i[w] < count[w]
  <2>1. w \in Nat /\ spawned \in Nat
    BY DEF Workers, TypeOK
  <2> QED BY <2>1 DEF Positions
<1>2. begin[w] \in Nat /\ count[w] \in Nat /\ i[w] \in Nat /\ start \in Nat
      /\ start <= cfg.rows /\ cfg.rows \in Nat
  BY ConfigShape DEF TypeOK
<1>3. begin[w] + count[w] <= start
  BY <1>1 DEF Ranges
<1>4. begin[w] + i[w] \in RowIds
  BY <1>1, <1>2, <1>3 DEF RowIds
<1>5. begin[w] + i[w] < begin[w] + count[w] /\ begin[w] + i[w] <= begin[w] + i[w]
  BY <1>1, <1>2
<1>6. delivered[begin[w] + i[w]] = 0
  BY <1>1, <1>4, <1>5 DEF RowsToCome
<1> QED BY <1>1, <1>4, <1>5, <1>6

LEMMA AcceptKeepsInv ==
    ASSUME ExecutorInv, NEW w \in Workers, RowAccepted(w)
    PROVE  ExecutorInv'
<1> USE DEF ExecutorInv, RowAccepted, Goto, mainVars
<1> DEFINE row == begin[w] + i[w]
<1>1. /\ w < spawned /\ row \in RowIds /\ row < begin[w] + count[w]
      /\ delivered[row] = 0 /\ i[w] < count[w]
  BY RowIsNew DEF Positions
<1>2. /\ pc'[w] = "count"
      /\ \A v \in Workers \ {w} : pc'[v] = pc[v]
      /\ pc' \in [Workers -> Places]
  BY DEF TypeOK, Places
<1>3. /\ delivered' \in [RowIds -> Nat]
      /\ delivered'[row] = 1
      /\ \A r \in RowIds \ {row} : delivered'[r] = delivered[r]
  BY <1>1 DEF TypeOK
<1>4. /\ start \in Nat /\ spawned \in Nat
      /\ \A v \in Workers : begin[v] \in Nat /\ count[v] \in Nat /\ i[v] \in Nat /\ v \in Nat
      /\ RowIds \subseteq Nat
  <2>1. cfg.rows \in Nat /\ MaxThreads \in Nat
    BY ConfigShape, MaxThreadsAssumption DEF TypeOK
  <2>2. \A v \in Workers : v \in Nat
    BY <2>1 DEF Workers
  <2>3. RowIds \subseteq Nat
    BY <2>1 DEF RowIds
  <2>4. start \in Nat /\ spawned \in Nat
    BY <2>1 DEF TypeOK
  <2> QED BY <2>2, <2>3, <2>4 DEF TypeOK
<1>5. TypeOK'
  BY <1>2, <1>3 DEF TypeOK, RowIds
<1>6. Ranges'
  BY DEF Ranges, FirstRow
<1>7. Positions'
  <2> SUFFICES ASSUME NEW v \in Workers
               PROVE  /\ v >= spawned => pc'[v] = "idle" /\ i[v] = 0
                      /\ pc'[v] \in {"consume", "count"} => i[v] < count[v]
    BY DEF Positions
  <2>1. CASE v = w
    BY <1>1, <1>2, <1>4, <2>1
  <2>2. CASE v # w
    BY <1>2, <2>2 DEF Positions
  <2> QED BY <2>1, <2>2
<1>8. RowsToCome'
  <2> HIDE DEF row
  <2>0. RowIds' = RowIds
    BY DEF RowIds
  <2>1. \A r \in RowIds : delivered'[r] <= 1
    BY <1>3 DEF RowsToCome
  <2>2. ASSUME NEW r \in RowIds, r >= start PROVE delivered'[r] = 0
    <3>1. begin[w] + count[w] <= start
      BY <1>1 DEF Ranges
    <3>2. r # row
      BY <1>1, <1>4, <2>2, <3>1
    <3> QED BY <1>3, <2>2, <3>2 DEF RowsToCome
  <2>3. ASSUME NEW v \in Workers, NEW r \in RowIds, v < spawned,
               begin[v] + i[v] <= r, r < begin[v] + count[v]
        PROVE  delivered'[r] = 0 \/ (pc'[v] = "count" /\ r = begin[v] + i[v])
    <3>1. delivered[r] = 0 \/ (pc[v] = "count" /\ r = begin[v] + i[v])
      BY <2>3 DEF RowsToCome
    <3>2. CASE v = w
      <4>1. CASE r = row
        BY <1>2, <3>2, <4>1 DEF row
      <4>2. CASE r # row
        BY <1>3, <3>1, <3>2, <4>2
      <4> QED BY <4>1, <4>2
    <3>3. CASE v # w
      <4>1. r # row
        <5>1. CASE v < w
          <6>1. begin[v] + count[v] <= begin[w]
            BY <1>1, <5>1 DEF Ranges
          <6> QED BY <1>4, <2>3, <6>1 DEF row
        <5>2. CASE w < v
          <6>1. begin[w] + count[w] <= begin[v]
            BY <2>3, <5>2 DEF Ranges
          <6> QED BY <1>1, <1>4, <2>3, <6>1
        <5> QED BY <1>4, <3>3, <5>1, <5>2
      <4> QED BY <1>2, <1>3, <3>1, <3>3, <4>1
    <3> QED BY <3>2, <3>3
  <2> QED BY <2>0, <2>1, <2>2, <2>3 DEF RowsToCome
<1> QED BY <1>5, <1>6, <1>7, <1>8

LEMMA CountKeepsInv ==
    ASSUME ExecutorInv, NEW w \in Workers, CountRow(w)
    PROVE  ExecutorInv'
<1> USE DEF ExecutorInv, CountRow, Goto, mainVars
<1>1. /\ pc'[w] = "check" /\ i'[w] = i[w] + 1
      /\ \A v \in Workers \ {w} : pc'[v] = pc[v] /\ i'[v] = i[v]
      /\ pc' \in [Workers -> Places] /\ i' \in [Workers -> Nat]
  BY DEF TypeOK, Places
<1>2. TypeOK'
  <2>1. generated_count' \in Nat
    BY DEF TypeOK
  <2> QED BY <1>1, <2>1 DEF TypeOK, RowIds
<1>3. Ranges'
  BY DEF Ranges, FirstRow
<1>4. Positions'
  <2> SUFFICES ASSUME NEW v \in Workers
               PROVE  /\ v >= spawned => pc'[v] = "idle" /\ i'[v] = 0
                      /\ pc'[v] \in {"consume", "count"} => i'[v] < count[v]
    BY DEF Positions
  <2>1. CASE v = w
    BY <1>1, <2>1 DEF Positions
  <2>2. CASE v # w
    BY <1>1, <2>2 DEF Positions
  <2> QED BY <2>1, <2>2
<1>5. RowsToCome'
  <2> SUFFICES ASSUME NEW v \in Workers, NEW r \in RowIds, v < spawned,
                      begin[v] + i'[v] <= r, r < begin[v] + count[v]
               PROVE  delivered[r] = 0 \/ (pc'[v] = "count" /\ r = begin[v] + i'[v])
    BY DEF RowsToCome, RowIds
  <2>1. CASE v = w
    <3>1. begin[v] \in Nat /\ i[v] \in Nat /\ r \in Nat
      BY ConfigShape DEF TypeOK, RowIds
    <3>2. begin[v] + i[v] <= r /\ r # begin[v] + i[v]
      BY <1>1, <2>1, <3>1
    <3> QED BY <3>2 DEF RowsToCome
  <2>2. CASE v # w
    BY <1>1, <2>2 DEF RowsToCome
  <2> QED BY <2>1, <2>2
<1> QED BY <1>2, <1>3, <1>4, <1>5

LEMMA WorkerKeepsInv ==
    ASSUME ExecutorInv, NEW w \in Workers, WorkerStep(w)
    PROVE  ExecutorInv'
<1> USE DEF Goto
<1>0. cancelled \in BOOLEAN /\ worker_exception \in BOOLEAN
  BY DEF ExecutorInv, TypeOK
<1>1. CASE BuildFields(w)
  BY <1>0, <1>1, MoveKeepsInv DEF BuildFields, Places
<1>2. CASE CheckCancelled(w)
  <2>1. CASE i[w] < count[w] /\ ~cancelled
    BY <1>0, <1>2, <2>1, MoveKeepsInv DEF CheckCancelled, Places
  <2>2. CASE ~(i[w] < count[w] /\ ~cancelled)
    BY <1>0, <1>2, <2>2, MoveKeepsInv DEF CheckCancelled, Places
  <2> QED BY <2>1, <2>2
<1>3. CASE RowAccepted(w)
  BY <1>3, AcceptKeepsInv
<1>4. CASE RowRefused(w)
  BY <1>0, <1>4, MoveKeepsInv DEF RowRefused, Places
<1>5. CASE Cancel(w)
  BY <1>0, <1>5, MoveKeepsInv DEF Cancel, Places
<1>6. CASE CountRow(w)
  BY <1>6, CountKeepsInv
<1>7. CASE Throw(w)
  BY <1>0, <1>7, MoveKeepsInv DEF Throw, Places
<1>8. CASE Catch(w)
  BY <1>0, <1>8, MoveKeepsInv DEF Catch, Places
<1> QED BY <1>1, <1>2, <1>3, <1>4, <1>5, <1>6, <1>7, <1>8 DEF WorkerStep

LEMMA ExecutorStep == ExecutorInv /\ [Next]_vars => ExecutorInv'
<1> SUFFICES ASSUME ExecutorInv, [Next]_vars PROVE ExecutorInv'
  OBVIOUS
<1>1. CASE CallerStep
  BY <1>1, ChooseKeepsInv, SpawnKeepsInv, CallerKeepsInv DEF CallerStep
<1>2. CASE \E w \in Workers : WorkerStep(w)
  BY <1>2, WorkerKeepsInv
<1>3. CASE UNCHANGED vars
  BY <1>3 DEF vars, mainVars, ExecutorInv, TypeOK, Ranges, Positions, RowsToCome, RowIds,
              FirstRow
<1> QED BY <1>1, <1>2, <1>3 DEF Next, Ended

LEMMA ExecutorInvariant == Spec => []ExecutorInv
  BY ExecutorInit, ExecutorStep, PTL DEF Spec

(* Every variable has its type; the workers' ranges end where the rows do. *)
THEOREM TypeCorrect == Spec => []TypeOK
<1>1. ExecutorInv => TypeOK
  BY DEF ExecutorInv
<1> QED BY <1>1, ExecutorInvariant, PTL

(* However many rows and threads: a row that the consumer is offered is a  *)
(* row of the run, and it is accepted once at most.                        *)
THEOREM EachRowOnceHolds == Spec => []EachRowOnce
<1>1. ExecutorInv => EachRowOnce
  <2> SUFFICES ASSUME ExecutorInv PROVE EachRowOnce
    OBVIOUS
  <2>1. \A r \in RowIds : delivered[r] <= 1
    BY DEF ExecutorInv, RowsToCome
  <2>2. \A w \in Workers :
           pc[w] = "consume" => begin[w] + i[w] \in RowIds /\ delivered[begin[w] + i[w]] = 0
    BY RowIsNew
  <2> QED BY <2>1, <2>2 DEF EachRowOnce
<1> QED BY <1>1, ExecutorInvariant, PTL

-----------------------------------------------------------------------------
(***************************************************************************)
(* What the workers leave behind: the invariant of the counter, of the     *)
(* cancellation and of what the caller reports.                            *)
(***************************************************************************)
(* How many of its rows a worker has delivered.                            *)
Taken(w) == IF pc[w] = "count" THEN i[w] + 1 ELSE i[w]

(* A worker delivers its rows in order, and ends its loop at the last one  *)
(* unless the call is cancelled.                                           *)
Progress ==
    \A w \in Workers :
        /\ i[w] <= count[w]
        /\ pc[w] = "cancel" => i[w] < count[w]
        /\ pc[w] = "done" => i[w] = count[w] \/ cancelled
        /\ w < spawned => pc[w] # "idle"
        /\ w < spawned =>
              \A r \in RowIds : begin[w] <= r /\ r < begin[w] + Taken(w) => delivered[r] > 0

(* The rows given out so far each belong to a worker.                      *)
Covered ==
    \A r \in RowIds :
        r < start => \E w \in Workers :
                        w < spawned /\ begin[w] <= r /\ r < begin[w] + count[w]

(* An exception is kept as long as the call lasts; a cancellation comes    *)
(* from one or from a consumer that has refused a row.                     *)
Outcome ==
    /\ worker_exception <=> \E w \in Workers : pc[w] = "caught"
    /\ cancelled => \/ worker_exception
                    \/ \E w \in Workers : pc[w] = "done" /\ i[w] < count[w]
    /\ mainPc \in {"report", "end"} =>
          /\ spawned = threads
          /\ \A w \in Workers : pc[w] \in {"idle", "done", "caught"}
    /\ mainPc = "end" => result.kind = IF worker_exception THEN "threw" ELSE "returned"
    /\ mainPc # "end" => result.kind = "running"
    /\ result.kind = "returned" => result.rows_generated = generated_count

(* generated_count is behind the consumer by the workers that are about to *)
(* add to it.                                                              *)
AboutToCount(r) == \E w \in Workers : pc[w] = "count" /\ r = begin[w] + i[w]
CountedRows == {r \in Accepted : ~AboutToCount(r)}
CounterTells == generated_count = Cardinality(CountedRows)

WorkInv == Progress /\ Covered /\ Outcome /\ CounterTells

(* The numbers a step reckons with.                                        *)
LEMMA Numbers ==
    ASSUME TypeOK
    PROVE  /\ cfg.rows \in Nat /\ start \in Nat /\ spawned \in Nat /\ threads \in Nat \ {0}
           /\ threads <= MaxThreads /\ MaxThreads \in Nat /\ generated_count \in Nat
           /\ Workers \subseteq Nat /\ RowIds \subseteq Nat /\ start <= cfg.rows
           /\ \A w \in Workers : begin[w] \in Nat /\ count[w] \in Nat /\ i[w] \in Nat
           /\ \A r \in RowIds : delivered[r] \in Nat
<1>1. cfg.rows \in Nat /\ MaxThreads \in Nat \ {0}
  BY ConfigShape, MaxThreadsAssumption DEF TypeOK
<1>2. Workers \subseteq Nat /\ RowIds \subseteq Nat
  BY <1>1 DEF Workers, RowIds
<1>3. start \in Nat /\ start <= cfg.rows /\ threads \in Nat \ {0} /\ threads <= MaxThreads
  BY <1>1 DEF TypeOK
<1>4. spawned \in Nat /\ generated_count \in Nat
  BY <1>3 DEF TypeOK
<1>5. \A w \in Workers : begin[w] \in Nat /\ count[w] \in Nat /\ i[w] \in Nat
  BY DEF TypeOK
<1>6. \A r \in RowIds : delivered[r] \in Nat
  BY DEF TypeOK
<1> QED BY <1>1, <1>2, <1>3, <1>4, <1>5, <1>6

(* Rows of different workers are different.                                *)
LEMMA RangesApart ==
    ASSUME ExecutorInv, NEW v \in Workers, NEW w \in Workers, v # w, v < spawned, w < spawned,
           NEW r \in Nat, begin[v] <= r, r < begin[v] + count[v]
    PROVE  ~(begin[w] <= r /\ r < begin[w] + count[w])
<1>1. /\ begin[v] \in Nat /\ count[v] \in Nat /\ begin[w] \in Nat /\ count[w] \in Nat
      /\ v \in Nat /\ w \in Nat
  BY Numbers DEF ExecutorInv
<1>2. CASE v < w
  BY <1>1, <1>2 DEF ExecutorInv, Ranges
<1>3. CASE w < v
  BY <1>1, <1>3 DEF ExecutorInv, Ranges
<1> QED BY <1>1, <1>2, <1>3

(* A worker at work is one that has been started; it is within its range.  *)
LEMMA AtWork ==
    ASSUME ExecutorInv, NEW w \in Workers, pc[w] # "idle"
    PROVE  /\ w < spawned
           /\ begin[w] + count[w] <= cfg.rows
<1>1. /\ spawned \in Nat /\ w \in Nat /\ start <= cfg.rows
      /\ start \in Nat /\ cfg.rows \in Nat /\ begin[w] \in Nat /\ count[w] \in Nat
  BY Numbers DEF ExecutorInv
<1>2. w < spawned
  BY <1>1 DEF ExecutorInv, Positions
<1> QED BY <1>1, <1>2 DEF ExecutorInv, Ranges

LEMMA RowsCounted ==
    ASSUME TypeOK, NEW S \in SUBSET RowIds
    PROVE  /\ IsFiniteSet(S) /\ Cardinality(S) \in Nat /\ Cardinality(S) <= cfg.rows
           /\ S # RowIds => Cardinality(S) < cfg.rows
           /\ Cardinality(RowIds) = cfg.rows
<1>1. cfg.rows \in Nat
  BY Numbers
<1>2. IsFiniteSet(RowIds) /\ Cardinality(RowIds) = cfg.rows
  <2>1. 0 \in Int /\ cfg.rows - 1 \in Int
    BY <1>1
  <2>2. /\ IsFiniteSet(0 .. cfg.rows - 1)
        /\ Cardinality(0 .. cfg.rows - 1)
             = IF 0 > cfg.rows - 1 THEN 0 ELSE cfg.rows - 1 - 0 + 1
    BY <2>1, FS_Interval
  <2>3. (IF 0 > cfg.rows - 1 THEN 0 ELSE cfg.rows - 1 - 0 + 1) = cfg.rows
    BY <1>1
  <2> QED BY <2>2, <2>3 DEF RowIds
<1>3. IsFiniteSet(S) /\ Cardinality(S) <= Cardinality(RowIds)
  BY <1>2, FS_Subset
<1>4. S # RowIds => Cardinality(S) < Cardinality(RowIds)
  <2>1. Cardinality(S) \in Nat
    BY <1>3, FS_CardinalityType
  <2>2. Cardinality(RowIds) = Cardinality(S) => RowIds = S
    BY <1>2, FS_Subset
  <2> QED BY <1>1, <1>2, <1>3, <2>1, <2>2
<1> QED BY <1>2, <1>3, <1>4, FS_CardinalityType

LEMMA WorkInit == ASSUME Init PROVE WorkInv
<1> USE DEF Init
<1>1. Progress
  BY MaxThreadsAssumption DEF Progress, Workers
<1>2. Covered
  BY ConfigShape DEF Covered, RowIds
<1>3. Outcome
  BY DEF Outcome, NotYet
<1>4. CountedRows = {}
  BY DEF CountedRows, Accepted
<1>5. CounterTells
  BY <1>4, FS_EmptySet DEF CounterTells
<1> QED BY <1>1, <1>2, <1>3, <1>5 DEF WorkInv

(* Before the workers have started.                                        *)
LEMMA ChooseKeepsWork == ASSUME ExecutorInv, WorkInv, ChooseThreads PROVE WorkInv'
<1> USE DEF WorkInv, ChooseThreads
<1>1. spawned = 0 /\ \A w \in Workers : ~(w < spawned)
  BY Numbers DEF ExecutorInv, Ranges
<1>2. start = 0
  BY <1>1, Numbers, Division DEF ExecutorInv, Ranges, FirstRow
<1>3. RowIds' = RowIds /\ \A r \in RowIds : ~(r < start)
  BY <1>2, Numbers DEF ExecutorInv, RowIds
<1>4. Progress'
  BY <1>1 DEF Progress
<1>5. Covered'
  BY <1>3 DEF Covered
<1>6. Outcome'
  BY DEF Outcome
<1>7. CounterTells'
  BY <1>3 DEF CounterTells, CountedRows, Accepted, AboutToCount
<1> QED BY <1>4, <1>5, <1>6, <1>7

(* The rows of a new worker are the ones from start on.                    *)
LEMMA SpawnKeepsWork == ASSUME ExecutorInv, WorkInv, SpawnWorker PROVE WorkInv'
<1> USE DEF WorkInv, SpawnWorker
<1>1. /\ spawned \in Workers /\ spawned \in Nat /\ Workers \subseteq Nat
      /\ start \in Nat /\ RowIds \subseteq Nat /\ RowIds' = RowIds
  <2>1. /\ threads <= MaxThreads /\ MaxThreads \in Nat /\ threads \in Nat /\ spawned \in Nat
        /\ Workers \subseteq Nat /\ start \in Nat /\ RowIds \subseteq Nat
    BY Numbers DEF ExecutorInv
  <2> QED BY <2>1 DEF Workers, RowIds
<1>2. RowsOf(spawned) \in Nat
  <2>1. cfg.rows \in Nat /\ threads \in Nat \ {0} /\ spawned \in 0 .. threads - 1
    BY Numbers DEF ExecutorInv
  <2> QED BY <2>1, FirstRowNext
<1>3. /\ begin'[spawned] = start /\ count'[spawned] = RowsOf(spawned)
      /\ pc'[spawned] = "build" /\ pc[spawned] = "idle" /\ i[spawned] = 0
      /\ \A w \in Workers \ {spawned} :
            begin'[w] = begin[w] /\ count'[w] = count[w] /\ pc'[w] = pc[w]
  BY <1>1 DEF ExecutorInv, TypeOK, Positions
<1>4. \A w \in Workers \ {spawned} : w < spawned' => w < spawned
  BY <1>1
<1>5. Progress'
  <2> SUFFICES ASSUME NEW w \in Workers
               PROVE  /\ i[w] <= count'[w]
                      /\ pc'[w] = "cancel" => i[w] < count'[w]
                      /\ pc'[w] = "done" => i[w] = count'[w] \/ cancelled
                      /\ w < spawned' => pc'[w] # "idle"
                      /\ w < spawned' =>
                            \A r \in RowIds :
                               begin'[w] <= r /\ r < begin'[w] + Taken(w)' => delivered[r] > 0
    BY <1>1 DEF Progress
  <2>1. CASE w = spawned
    <3>1. Taken(w)' = 0
      BY <1>3, <2>1 DEF Taken
    <3> QED BY <1>1, <1>2, <1>3, <2>1, <3>1
  <2>2. CASE w # spawned
    <3>1. Taken(w)' = Taken(w)
      BY <1>3, <2>2 DEF Taken
    <3> QED BY <1>3, <1>4, <2>2, <3>1 DEF Progress
  <2> QED BY <2>1, <2>2
<1>6. Covered'
  <2> SUFFICES ASSUME NEW r \in RowIds, r < start'
               PROVE  \E w \in Workers :
                         w < spawned' /\ begin'[w] <= r /\ r < begin'[w] + count'[w]
    BY <1>1 DEF Covered
  <2>1. CASE r < start
    <3>1. PICK w \in Workers : w < spawned /\ begin[w] <= r /\ r < begin[w] + count[w]
      BY <2>1 DEF Covered
    <3>2. w # spawned /\ w < spawned'
      BY <1>1, <3>1
    <3> QED BY <1>3, <3>1, <3>2
  <2>2. CASE r >= start
    BY <1>1, <1>2, <1>3, <2>2
  <2> QED BY <1>1, <2>1, <2>2
<1>7. Outcome'
  <2>1. worker_exception <=> \E w \in Workers : pc'[w] = "caught"
    BY <1>3 DEF Outcome
  <2>2. cancelled => \/ worker_exception
                     \/ \E w \in Workers : pc'[w] = "done" /\ i[w] < count'[w]
    <3> SUFFICES ASSUME NEW v \in Workers, pc[v] = "done", i[v] < count[v]
                 PROVE  \E w \in Workers : pc'[w] = "done" /\ i[w] < count'[w]
      BY DEF Outcome
    <3>1. v # spawned
      BY <1>3
    <3> QED BY <1>3, <3>1
  <2> QED BY <2>1, <2>2 DEF Outcome
<1>8. CounterTells'
  <2>1. \A r : AboutToCount(r)' <=> AboutToCount(r)
    BY <1>3 DEF AboutToCount
  <2>2. CountedRows' = CountedRows
    BY <1>1, <2>1 DEF CountedRows, Accepted
  <2> QED BY <2>2 DEF CounterTells
<1> QED BY <1>5, <1>6, <1>7, <1>8

LEMMA CallerKeepsWork == ASSUME ExecutorInv, WorkInv, JoinWorkers \/ Report PROVE WorkInv'
<1> USE DEF WorkInv
<1>0. UNCHANGED <<cfg, threads, spawned, start, begin, count, pc, i, cancelled,
                  worker_exception, generated_count, delivered>>
  BY DEF JoinWorkers, Report
<1>1. Progress'
  BY <1>0 DEF Progress, Taken, RowIds
<1>2. Covered'
  BY <1>0 DEF Covered, RowIds
<1>3. CounterTells'
  BY <1>0 DEF CounterTells, CountedRows, Accepted, AboutToCount, RowIds
<1>4. Outcome'
  <2>1. CASE JoinWorkers
    <3>1. ASSUME NEW w \in Workers
          PROVE  pc[w] \in {"idle", "done", "caught"}
      <4>1. w \in Nat /\ threads \in Nat \ {0} /\ spawned \in Nat
        BY Numbers DEF ExecutorInv
      <4>2. CASE w < threads
        BY <2>1, <4>1, <4>2 DEF JoinWorkers
      <4>3. CASE w >= threads
        BY <2>1, <4>1, <4>3 DEF JoinWorkers, ExecutorInv, Positions
      <4> QED BY <4>1, <4>2, <4>3
    <3> QED BY <1>0, <2>1, <3>1 DEF Outcome, JoinWorkers
  <2>2. CASE Report
    BY <1>0, <2>2 DEF Outcome, Report, Threw, Returned
  <2> QED BY <2>1, <2>2
<1> QED BY <1>1, <1>2, <1>3, <1>4

(* A worker that only moves on.                                            *)
LEMMA MoveKeepsWork ==
    ASSUME ExecutorInv, WorkInv, NEW w \in Workers,
           NEW place \in Places \ {"idle", "count"},
           pc[w] \notin {"idle", "count", "done", "caught"},
           place = "cancel" => i[w] < count[w],
           place = "done" => i[w] = count[w] \/ cancelled',
           pc' = [pc EXCEPT ![w] = place],
           worker_exception' <=> worker_exception \/ place = "caught",
           cancelled => cancelled',
           cancelled' => \/ cancelled
                         \/ place = "caught"
                         \/ place = "done" /\ i[w] < count[w],
           UNCHANGED <<cfg, mainVars, i, generated_count, delivered>>
    PROVE  WorkInv'
<1> USE DEF WorkInv, mainVars
<1>1. pc'[w] = place /\ \A v \in Workers \ {w} : pc'[v] = pc[v]
  BY DEF ExecutorInv, TypeOK
<1>2. RowIds' = RowIds
  BY DEF RowIds
<1>3. Progress'
  <2> SUFFICES ASSUME NEW v \in Workers
               PROVE  /\ i[v] <= count[v]
                      /\ pc'[v] = "cancel" => i[v] < count[v]
                      /\ pc'[v] = "done" => i[v] = count[v] \/ cancelled'
                      /\ v < spawned => pc'[v] # "idle"
                      /\ v < spawned =>
                            \A r \in RowIds :
                               begin[v] <= r /\ r < begin[v] + Taken(v)' => delivered[r] > 0
    BY <1>2 DEF Progress
  <2>1. Taken(v)' = Taken(v)
    BY <1>1 DEF Taken
  <2>2. CASE v = w
    BY <1>1, <2>1, <2>2 DEF Progress
  <2>3. CASE v # w
    BY <1>1, <2>1, <2>3 DEF Progress
  <2> QED BY <2>2, <2>3
<1>4. Covered'
  BY <1>2 DEF Covered
<1>5. Outcome'
  <2>1. mainPc \notin {"report", "end"}
    BY DEF Outcome
  <2>2. worker_exception' <=> \E v \in Workers : pc'[v] = "caught"
    BY <1>1 DEF Outcome
  <2>3. cancelled' => \/ worker_exception'
                      \/ \E v \in Workers : pc'[v] = "done" /\ i[v] < count[v]
    <3>1. CASE cancelled /\ ~worker_exception
      <4>1. PICK v \in Workers : pc[v] = "done" /\ i[v] < count[v]
        BY <3>1 DEF Outcome
      <4> QED BY <1>1, <4>1
    <3>2. CASE cancelled /\ worker_exception
      BY <3>2
    <3>3. CASE place = "caught" \/ (place = "done" /\ i[w] < count[w])
      BY <1>1, <3>3
    <3> QED BY <3>1, <3>2, <3>3
  <2> QED BY <2>1, <2>2, <2>3 DEF Outcome
<1>6. CounterTells'
  <2>1. \A r : AboutToCount(r)' <=> AboutToCount(r)
    BY <1>1 DEF AboutToCount
  <2>2. CountedRows' = CountedRows
    BY <1>2, <2>1 DEF CountedRows, Accepted
  <2> QED BY <2>2 DEF CounterTells
<1> QED BY <1>3, <1>4, <1>5, <1>6

(* The row a consumer accepts is not counted yet.                          *)
LEMMA AcceptKeepsWork ==
    ASSUME ExecutorInv, WorkInv, NEW w \in Workers, RowAccepted(w)
    PROVE  WorkInv'
<1> USE DEF WorkInv, RowAccepted, Goto, mainVars
<1>0. PICK row \in RowIds : row = begin[w] + i[w]
  BY RowIsNew
<1>1. w < spawned /\ delivered[row] = 0
  BY <1>0, RowIsNew
<1>2. /\ pc'[w] = "count"
      /\ \A v \in Workers \ {w} : pc'[v] = pc[v]
      /\ RowIds' = RowIds
  BY DEF ExecutorInv, TypeOK, RowIds
<1>3. /\ delivered'[row] = 1
      /\ \A r \in RowIds \ {row} : delivered'[r] = delivered[r]
  BY <1>0, <1>1 DEF ExecutorInv, TypeOK
<1>4. /\ RowIds \subseteq Nat
      /\ \A v \in Workers : begin[v] \in Nat /\ count[v] \in Nat /\ i[v] \in Nat
      /\ \A r \in RowIds : delivered[r] \in Nat
  BY Numbers DEF ExecutorInv
<1>5. Progress'
  <2> SUFFICES ASSUME NEW v \in Workers
               PROVE  /\ i[v] <= count[v]
                      /\ pc'[v] = "cancel" => i[v] < count[v]
                      /\ pc'[v] = "done" => i[v] = count[v] \/ cancelled
                      /\ v < spawned => pc'[v] # "idle"
                      /\ v < spawned =>
                            \A r \in RowIds :
                               begin[v] <= r /\ r < begin[v] + Taken(v)' => delivered'[r] > 0
    BY <1>2 DEF Progress
  <2>1. ASSUME v < spawned, NEW r \in RowIds, begin[v] <= r, r < begin[v] + Taken(v)'
        PROVE  delivered'[r] > 0
    <3>1. CASE r = row
      BY <1>3, <3>1
    <3>2. CASE r # row
      <4>1. r < begin[v] + Taken(v)
        <5>1. CASE v = w
          <6>1. Taken(v) = i[v] /\ Taken(v)' = i[v] + 1
            BY <1>2, <5>1 DEF Taken
          <6> QED BY <1>0, <1>4, <2>1, <3>2, <5>1, <6>1
        <5>2. CASE v # w
          BY <1>2, <2>1, <5>2 DEF Taken
        <5> QED BY <5>1, <5>2
      <4>2. delivered[r] > 0
        BY <2>1, <4>1 DEF Progress
      <4> QED BY <1>3, <3>2, <4>2
    <3> QED BY <3>1, <3>2
  <2>2. CASE v = w
    BY <1>2, <2>1, <2>2 DEF Progress
  <2>3. CASE v # w
    BY <1>2, <2>1, <2>3 DEF Progress
  <2> QED BY <2>2, <2>3
<1>6. Covered'
  BY <1>2 DEF Covered
<1>7. Outcome'
  BY <1>2 DEF Outcome
<1>8. CounterTells'
  <2>1. AboutToCount(row)' /\ row \notin Accepted
    BY <1>0, <1>1, <1>2 DEF AboutToCount, Accepted
  <2>2. ASSUME NEW r \in RowIds \ {row}
        PROVE  (r \in Accepted' <=> r \in Accepted) /\ (AboutToCount(r)' <=> AboutToCount(r))
    <3>1. r \in Accepted' <=> r \in Accepted
      BY <1>2, <1>3 DEF Accepted
    <3>2. AboutToCount(r)' <=> AboutToCount(r)
      BY <1>0, <1>2 DEF AboutToCount
    <3> QED BY <3>1, <3>2
  <2>3. Accepted \subseteq RowIds /\ Accepted' \subseteq RowIds
    BY <1>2 DEF Accepted
  <2>4. CountedRows' = CountedRows
    <3>1. CountedRows' = {r \in Accepted' : ~AboutToCount(r)'}
      BY DEF CountedRows
    <3> QED BY <2>1, <2>2, <2>3, <3>1, ZenonT(60) DEF CountedRows
  <2> QED BY <2>4 DEF CounterTells
<1> QED BY <1>5, <1>6, <1>7, <1>8

(* The row that is counted is the one its worker has delivered last.       *)
LEMMA CountKeepsWork ==
    ASSUME ExecutorInv, WorkInv, NEW w \in Workers, CountRow(w)
    PROVE  WorkInv'
<1> USE DEF WorkInv, CountRow, Goto, mainVars
<1>1. /\ pc'[w] = "check" /\ i'[w] = i[w] + 1
      /\ \A v \in Workers \ {w} : pc'[v] = pc[v] /\ i'[v] = i[v]
      /\ RowIds' = RowIds
  BY DEF ExecutorInv, TypeOK, RowIds
<1>2. /\ RowIds \subseteq Nat /\ cfg.rows \in Nat
      /\ \A v \in Workers : begin[v] \in Nat /\ count[v] \in Nat /\ i[v] \in Nat
  BY Numbers DEF ExecutorInv
<1>3. w < spawned /\ i[w] < count[w] /\ begin[w] + count[w] <= cfg.rows
  BY AtWork DEF ExecutorInv, Positions
<1>4. PICK row \in RowIds : row = begin[w] + i[w]
  BY <1>2, <1>3 DEF RowIds
<1>5. \A v \in Workers : Taken(v)' = Taken(v)
  BY <1>1 DEF Taken
<1>6. Progress'
  <2> SUFFICES ASSUME NEW v \in Workers
               PROVE  /\ i'[v] <= count[v]
                      /\ pc'[v] = "cancel" => i'[v] < count[v]
                      /\ pc'[v] = "done" => i'[v] = count[v] \/ cancelled
                      /\ v < spawned => pc'[v] # "idle"
                      /\ v < spawned =>
                            \A r \in RowIds :
                               begin[v] <= r /\ r < begin[v] + Taken(v)' => delivered[r] > 0
    BY <1>1 DEF Progress
  <2>1. i'[v] <= count[v]
    BY <1>1, <1>2, <1>3 DEF Progress
  <2>2. v < spawned => \A r \in RowIds :
                          begin[v] <= r /\ r < begin[v] + Taken(v)' => delivered[r] > 0
    BY <1>5 DEF Progress
  <2>3. CASE v = w
    BY <1>1, <2>1, <2>2, <2>3
  <2>4. CASE v # w
    BY <1>1, <2>1, <2>2, <2>4 DEF Progress
  <2> QED BY <2>3, <2>4
<1>7. Covered'
  BY <1>1 DEF Covered
<1>8. Outcome'
  <2>1. mainPc \notin {"report", "end"}
    BY DEF Outcome
  <2>2. worker_exception <=> \E v \in Workers : pc'[v] = "caught"
    BY <1>1 DEF Outcome
  <2>3. cancelled => \/ worker_exception
                     \/ \E v \in Workers : pc'[v] = "done" /\ i'[v] < count[v]
    <3> SUFFICES ASSUME NEW v \in Workers, pc[v] = "done", i[v] < count[v]
                 PROVE  \E u \in Workers : pc'[u] = "done" /\ i'[u] < count[u]
      BY DEF Outcome
    <3>1. v # w
      OBVIOUS
    <3> QED BY <1>1, <3>1
  <2>4. result.kind = "running"
    BY <2>1 DEF Outcome
  <2> QED BY <2>1, <2>2, <2>3, <2>4 DEF Outcome
<1>9. CounterTells'
  <2>1. row \in Accepted
    <3>1. Taken(w) = i[w] + 1
      BY DEF Taken
    <3>2. begin[w] <= row /\ row < begin[w] + Taken(w)
      BY <1>2, <1>4, <3>1
    <3> QED BY <1>3, <1>4, <3>2 DEF Progress, Accepted
  <2>2. AboutToCount(row)
    BY <1>4 DEF AboutToCount
  <2>3. ~AboutToCount(row)'
    <3> SUFFICES ASSUME NEW v \in Workers, pc'[v] = "count", row = begin[v] + i'[v]
                 PROVE  FALSE
      BY DEF AboutToCount
    <3>1. v # w
      BY <1>1
    <3>2. pc[v] = "count" /\ row = begin[v] + i[v]
      BY <1>1, <3>1
    <3>3. v < spawned /\ i[v] < count[v]
      BY <3>2, AtWork DEF ExecutorInv, Positions
    <3>4. begin[v] <= row /\ row < begin[v] + count[v]
      BY <1>2, <3>2, <3>3
    <3>5. begin[w] <= row /\ row < begin[w] + count[w] /\ row \in Nat
      BY <1>2, <1>3, <1>4
    <3> QED BY <1>3, <3>1, <3>3, <3>4, <3>5, RangesApart
  <2>4. ASSUME NEW r \in RowIds \ {row}
        PROVE  (r \in Accepted' <=> r \in Accepted) /\ (AboutToCount(r)' <=> AboutToCount(r))
    <3>1. r # begin[w] + i[w]
      BY <1>4
    <3> QED BY <1>1, <3>1 DEF AboutToCount, Accepted
  <2>5. Accepted \subseteq RowIds /\ Accepted' \subseteq RowIds /\ (row \in Accepted')
    BY <1>1, <2>1 DEF Accepted
  <2>6. CountedRows' = CountedRows \cup {row} /\ row \notin CountedRows
    <3>1. CountedRows' = {r \in Accepted' : ~AboutToCount(r)'}
      BY DEF CountedRows
    <3> QED BY <2>1, <2>2, <2>3, <2>4, <2>5, <3>1, ZenonT(60) DEF CountedRows
  <2>7. IsFiniteSet(CountedRows)
    BY RowsCounted DEF CountedRows, Accepted, ExecutorInv
  <2>8. Cardinality(CountedRows') = Cardinality(CountedRows) + 1
    BY <2>6, <2>7, FS_AddElement
  <2> QED BY <2>8 DEF CounterTells
<1> QED BY <1>6, <1>7, <1>8, <1>9

LEMMA WorkerKeepsWork ==
    ASSUME ExecutorInv, WorkInv, NEW w \in Workers, WorkerStep(w)
    PROVE  WorkInv'
<1> USE DEF Goto
<1>1. CASE BuildFields(w)
  BY <1>1, MoveKeepsWork DEF BuildFields, Places
<1>2. CASE CheckCancelled(w)
  <2>0. i[w] <= count[w] /\ i[w] \in Nat /\ count[w] \in Nat
    BY Numbers DEF ExecutorInv, WorkInv, Progress
  <2>1. CASE i[w] < count[w] /\ ~cancelled
    BY <1>2, <2>1, MoveKeepsWork DEF CheckCancelled, Places
  <2>2. CASE ~(i[w] < count[w] /\ ~cancelled)
    <3>1. i[w] = count[w] \/ cancelled
      BY <2>0, <2>2
    <3> QED BY <1>2, <2>2, <3>1, MoveKeepsWork DEF CheckCancelled, Places
  <2> QED BY <2>1, <2>2
<1>3. CASE RowAccepted(w)
  BY <1>3, AcceptKeepsWork
<1>4. CASE RowRefused(w)
  BY <1>4, MoveKeepsWork DEF RowRefused, Places, ExecutorInv, Positions
<1>5. CASE Cancel(w)
  BY <1>5, MoveKeepsWork DEF Cancel, Places, WorkInv, Progress
<1>6. CASE CountRow(w)
  BY <1>6, CountKeepsWork
<1>7. CASE Throw(w)
  BY <1>7, MoveKeepsWork DEF Throw, Places
<1>8. CASE Catch(w)
  BY <1>8, MoveKeepsWork DEF Catch, Places
<1> QED BY <1>1, <1>2, <1>3, <1>4, <1>5, <1>6, <1>7, <1>8 DEF WorkerStep

LEMMA WorkStep == ExecutorInv /\ WorkInv /\ [Next]_vars => WorkInv'
<1> SUFFICES ASSUME ExecutorInv, WorkInv, [Next]_vars PROVE WorkInv'
  OBVIOUS
<1>1. CASE CallerStep
  BY <1>1, ChooseKeepsWork, SpawnKeepsWork, CallerKeepsWork DEF CallerStep
<1>2. CASE \E w \in Workers : WorkerStep(w)
  BY <1>2, WorkerKeepsWork
<1>3. CASE UNCHANGED vars
  <2> USE <1>3 DEF vars, mainVars
  <2>1. Progress' /\ Covered'
    BY DEF WorkInv, Progress, Covered, Taken, RowIds
  <2>2. Outcome'
    BY DEF WorkInv, Outcome
  <2>3. CounterTells'
    BY DEF WorkInv, CounterTells, CountedRows, Accepted, AboutToCount, RowIds
  <2> QED BY <2>1, <2>2, <2>3 DEF WorkInv
<1> QED BY <1>1, <1>2, <1>3 DEF Next, Ended

LEMMA WorkInvariant == Spec => []WorkInv
  BY ExecutorInvariant, WorkInit, WorkStep, PTL DEF Spec

(* A call ends when its workers have, and throws if, and only if, one of   *)
(* them had an exception.                                                  *)
THEOREM NoExceptionLostHolds == Spec => []NoExceptionLost
<1>1. WorkInv => NoExceptionLost
  BY DEF WorkInv, Outcome, NoExceptionLost
<1> QED BY <1>1, WorkInvariant, PTL

(* The rows of a worker that the consumer has accepted are the first ones  *)
(* of its range.                                                           *)
THEOREM NoGapsHolds == Spec => []NoGaps
<1>1. ExecutorInv /\ WorkInv => NoGaps
  <2> SUFFICES ASSUME ExecutorInv, WorkInv, NEW w \in 0 .. spawned - 1, NEW done,
                      done = {r \in Accepted : r \in begin[w] .. (begin[w] + count[w] - 1)}
               PROVE  done = begin[w] .. (begin[w] + Cardinality(done) - 1)
    BY DEF NoGaps
  <2>1. w \in Workers /\ w < spawned
    BY Numbers DEF ExecutorInv, TypeOK, Workers
  <2>2. /\ begin[w] \in Nat /\ count[w] \in Nat /\ i[w] \in Nat
        /\ start \in Nat /\ cfg.rows \in Nat /\ start <= cfg.rows /\ RowIds \subseteq Nat
    BY <2>1, Numbers DEF ExecutorInv
  <2>3. Taken(w) \in Nat /\ Taken(w) <= count[w]
    BY <2>1, <2>2 DEF Taken, WorkInv, Progress, ExecutorInv, Positions
  <2>4. begin[w] + count[w] <= start
    BY <2>1 DEF ExecutorInv, Ranges
  <2>5. ASSUME NEW r \in done PROVE r \in begin[w] .. (begin[w] + Taken(w) - 1)
    <3>1. r \in RowIds /\ delivered[r] > 0 /\ begin[w] <= r /\ r < begin[w] + count[w]
      BY <2>2 DEF Accepted
    <3>2. CASE begin[w] + i[w] <= r
      <4>1. pc[w] = "count" /\ r = begin[w] + i[w]
        BY <2>1, <3>1, <3>2 DEF ExecutorInv, RowsToCome
      <4> QED BY <2>2, <3>1, <4>1 DEF Taken
    <3>3. CASE r < begin[w] + i[w]
      BY <2>2, <3>1, <3>3 DEF Taken
    <3> QED BY <2>2, <3>1, <3>2, <3>3
  <2>6. ASSUME NEW r \in begin[w] .. (begin[w] + Taken(w) - 1) PROVE r \in done
    <3>1. begin[w] <= r /\ r < begin[w] + Taken(w) /\ r \in Nat
      BY <2>2, <2>3
    <3>2. r \in RowIds /\ r \in begin[w] .. (begin[w] + count[w] - 1)
      BY <2>2, <2>3, <2>4, <3>1 DEF RowIds
    <3> QED BY <2>1, <3>1, <3>2 DEF Accepted, WorkInv, Progress
  <2>7. done = begin[w] .. (begin[w] + Taken(w) - 1)
    BY <2>5, <2>6
  <2>8. Cardinality(done) = Taken(w)
    <3>1. PICK a \in Int, b \in Int : a = begin[w] /\ b = begin[w] + Taken(w) - 1
      BY <2>2, <2>3
    <3>2. Cardinality(a .. b) = IF a > b THEN 0 ELSE b - a + 1
      BY FS_Interval
    <3>3. (IF a > b THEN 0 ELSE b - a + 1) = Taken(w)
      BY <2>2, <2>3, <3>1
    <3> QED BY <2>7, <3>1, <3>2, <3>3
  <2> QED BY <2>7, <2>8
<1> QED BY <1>1, ExecutorInvariant, WorkInvariant, PTL

(* The number a call returns is the number of rows the consumer accepted:  *)
(* all rows, unless the consumer has cancelled the call, and fewer if it   *)
(* has.                                                                    *)
THEOREM ReturnTellsTheTruthHolds == Spec => []ReturnTellsTheTruth
<1>1. ExecutorInv /\ WorkInv => ReturnTellsTheTruth
  <2> SUFFICES ASSUME ExecutorInv, WorkInv, result.kind = "returned"
               PROVE  /\ result.rows_generated = Cardinality(Accepted)
                      /\ cancelled <=> result.rows_generated < cfg.rows
    BY DEF ReturnTellsTheTruth
  <2>1. /\ mainPc = "end" /\ ~worker_exception /\ spawned = threads
        /\ \A w \in Workers : pc[w] \in {"idle", "done", "caught"}
        /\ \A w \in Workers : pc[w] # "caught"
        /\ result.rows_generated = generated_count
    BY DEF WorkInv, Outcome
  <2>2. CountedRows = Accepted
    BY <2>1 DEF CountedRows, AboutToCount
  <2>3. result.rows_generated = Cardinality(Accepted)
    BY <2>1, <2>2 DEF WorkInv, CounterTells
  <2>4. /\ Accepted \subseteq RowIds /\ Cardinality(RowIds) = cfg.rows /\ cfg.rows \in Nat
        /\ Accepted # RowIds => Cardinality(Accepted) < cfg.rows
    BY Numbers, RowsCounted DEF ExecutorInv, Accepted
  <2>5. ASSUME cancelled PROVE Accepted # RowIds
    <3>1. PICK w \in Workers : pc[w] = "done" /\ i[w] < count[w]
      BY <2>1, <2>5 DEF WorkInv, Outcome
    <3>2. /\ w < spawned /\ begin[w] + count[w] <= cfg.rows
          /\ begin[w] \in Nat /\ count[w] \in Nat /\ i[w] \in Nat
      BY <3>1, AtWork, Numbers DEF ExecutorInv
    <3>3. /\ begin[w] + i[w] \in RowIds
          /\ begin[w] + i[w] <= begin[w] + i[w] /\ begin[w] + i[w] < begin[w] + count[w]
      BY <2>4, <3>1, <3>2 DEF RowIds
    <3>4. delivered[begin[w] + i[w]] = 0
      BY <3>1, <3>2, <3>3 DEF ExecutorInv, RowsToCome
    <3> QED BY <3>3, <3>4 DEF Accepted
  <2>6. ASSUME ~cancelled PROVE Accepted = RowIds
    <3>1. start = cfg.rows
      <4>1. /\ cfg.rows \in Nat /\ threads \in Nat \ {0}
            /\ cfg.rows \div threads \in Nat /\ cfg.rows % threads \in 0 .. threads - 1
            /\ cfg.rows = threads * (cfg.rows \div threads) + (cfg.rows % threads)
        BY Numbers, Division DEF ExecutorInv
      <4>2. FirstRow(threads) = threads * (cfg.rows \div threads) + (cfg.rows % threads)
        BY <4>1 DEF FirstRow
      <4> QED BY <2>1, <4>1, <4>2 DEF ExecutorInv, Ranges
    <3>2. ASSUME NEW r \in RowIds PROVE delivered[r] > 0
      <4>1. r < start
        BY <2>4, <3>1 DEF RowIds
      <4>2. PICK w \in Workers : w < spawned /\ begin[w] <= r /\ r < begin[w] + count[w]
        BY <4>1 DEF WorkInv, Covered
      <4>3. pc[w] = "done" /\ i[w] = count[w]
        BY <2>1, <2>6, <4>2 DEF WorkInv, Progress
      <4> QED BY <4>2, <4>3 DEF WorkInv, Progress, Taken
    <3> QED BY <3>2 DEF Accepted
  <2> QED BY <2>3, <2>4, <2>5, <2>6
<1> QED BY <1>1, ExecutorInvariant, WorkInvariant, PTL

(* After a cancellation a worker that is between two rows stays there.     *)
BetweenRows(w) ==
    cancelled /\ pc[w] \in {"idle", "build", "check", "catch", "done", "caught"}

LEMMA StaysBetweenRows ==
    ASSUME TypeOK, NEW w \in Workers, BetweenRows(w), [Next]_vars
    PROVE  BetweenRows(w)'
<1> USE DEF BetweenRows
<1>0. pc \in [Workers -> Places]
  BY DEF TypeOK
<1>1. CASE CallerStep
  <2>1. CASE SpawnWorker
    BY <1>0, <2>1 DEF SpawnWorker
  <2>2. CASE ChooseThreads \/ JoinWorkers \/ Report
    BY <2>2 DEF ChooseThreads, JoinWorkers, Report
  <2> QED BY <1>1, <2>1, <2>2 DEF CallerStep
<1>2. ASSUME NEW v \in Workers, WorkerStep(v)
      PROVE  BetweenRows(w)'
  <2> USE DEF Goto
  <2>1. CASE BuildFields(v) \/ CheckCancelled(v)
    BY <1>0, <2>1 DEF BuildFields, CheckCancelled
  <2>2. CASE RowAccepted(v) \/ RowRefused(v) \/ CountRow(v)
    BY <1>0, <2>2 DEF RowAccepted, RowRefused, CountRow
  <2>3. CASE Cancel(v) \/ Throw(v) \/ Catch(v)
    BY <1>0, <2>3 DEF Cancel, Throw, Catch
  <2> QED BY <1>2, <2>1, <2>2, <2>3 DEF WorkerStep
<1>3. CASE UNCHANGED vars
  BY <1>3 DEF vars
<1> QED BY <1>1, <1>2, <1>3 DEF Next, Ended

(* A worker that is between two rows when the call is cancelled begins no  *)
(* other row.                                                              *)
THEOREM CancelEndsTheLoopsHolds == Spec => CancelEndsTheLoops
<1> SUFFICES ASSUME NEW w \in Workers
             PROVE  Spec => [](cancelled /\ pc[w] \in {"idle", "build", "check"}
                                  => [](pc[w] # "consume"))
  BY DEF CancelEndsTheLoops
<1>1. cancelled /\ pc[w] \in {"idle", "build", "check"} => BetweenRows(w)
  BY DEF BetweenRows
<1>2. BetweenRows(w) => pc[w] # "consume"
  BY DEF BetweenRows
<1>3. TypeOK /\ [Next]_vars /\ BetweenRows(w) => BetweenRows(w)'
  BY StaysBetweenRows
<1> QED BY <1>1, <1>2, <1>3, TypeCorrect, PTL DEF Spec
=============================================================================
