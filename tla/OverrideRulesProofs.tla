------------------------ MODULE OverrideRulesProofs -------------------------
(***************************************************************************)
(* Proofs about OverrideRules and SequenceGenerator.  Whatever the draws, a *)
(* run ends with exactly its share of nulls, and with its share of defaults *)
(* except for as many as it has nulls, as long as no product of rows and   *)
(* percentage overflows an int.  The number a row of a sequence shows is   *)
(* that of its row alone, for every sequence whose last step still fits an *)
(* int64_t; and the rules of the field keep what is shown of them while the *)
(* sequence runs.                                                          *)
(***************************************************************************)
EXTENDS SequenceGenerator, TLAPS

(***************************************************************************)
(* The rules.                                                              *)
(***************************************************************************)

(* No field has so many rows that the product overflows.                   *)
NoOverflow == \A f \in Fields : f.rows * 100 <= IntMax

(* What is left of the null quota fits the rows that are left, and with    *)
(* the nulls there have been it makes up the share.                        *)
NullQuotaInv ==
    /\ field \in Fields
    /\ at \in {"parse", "refused", "generate", "next", "end"}
    /\ nulls \in Nat /\ row_index \in Nat
    /\ at \in {"generate", "next", "end"} =>
          /\ null_remaining \in Nat
          /\ nulls + null_remaining = Share(field.null)
    /\ at = "generate" => null_remaining <= field.rows - row_index /\ row_index < field.rows
    /\ at = "next" => null_remaining <= field.rows - row_index - 1 /\ row_index < field.rows
    /\ at = "parse" => nulls = 0 /\ row_index = 0
    /\ at = "end" => null_remaining = 0

(* A field has rows, and its rules have a percentage.                      *)
LEMMA FieldShape ==
    ASSUME field \in Fields
    PROVE  /\ field.rows \in Nat \ {0}
           /\ field.rows <= IntMax
           /\ field.null.percentage \in -1 .. 101
           /\ field.null.enabled \in BOOLEAN
           /\ field.default.percentage \in -1 .. 101
           /\ field.default.enabled \in BOOLEAN
  BY FieldsAssumption DEF FieldType, Rule

(* A part of the rows is not more than the rows.                           *)
LEMMA ProductBound ==
    ASSUME NEW n \in Nat, NEW p \in 0 .. 100
    PROVE  n * p \in Nat /\ n * p <= n * 100
<1>1. n * p \in Nat
  BY SMT
<1>2. n * (100 - p) \in Nat
  BY SMT
<1>3. n * (100 - p) = n * 100 - n * p
  BY SMT
<1> QED BY <1>1, <1>2, <1>3, SMT

LEMMA QuotientBound ==
    ASSUME NEW n \in Nat, NEW m \in Nat, m <= n * 100
    PROVE  m \div 100 \in 0 .. n
  BY SMT

(* Without an overflow, the quota of a rule is its share.                  *)
LEMMA QuotaIsShare ==
    ASSUME NoOverflow, field \in Fields, RulesAreValid,
           NEW rule \in {field.null, field.default},
           NEW q \in Quotas(rule)
    PROVE  q = Share(rule) /\ q \in 0 .. field.rows
<1> DEFINE p == rule.percentage
           product == field.rows * p
<1>1. field.rows \in Nat /\ field.rows # 0 /\ p \in 0 .. 100
  BY FieldShape DEF RulesAreValid, IsPercentage
<1>2. product \in Nat /\ product <= field.rows * 100
  BY <1>1, ProductBound
<1>3. product <= IntMax
  BY <1>1, <1>2, IntMaxAssumption DEF NoOverflow
<1>4. product \in IntType
  BY <1>2, <1>3, IntMaxAssumption DEF IntType
<1>5. Products(field.rows, p) = {product}
  BY <1>4 DEF Products
<1>6. Quotient(product, 100) = product \div 100
  BY <1>2 DEF Quotient
<1>7. product \div 100 \in 0 .. field.rows
  BY <1>1, <1>2, QuotientBound
<1>8. CASE rule.enabled
  <2>1. q = Quotient(product, 100)
    BY <1>5, <1>8 DEF Quotas
  <2> QED BY <2>1, <1>6, <1>7, <1>8 DEF Share
<1>9. CASE ~rule.enabled
  BY <1>1, <1>9 DEF Quotas, Share
<1> QED BY <1>8, <1>9

LEMMA NullQuotaInit == Init => NullQuotaInv
  BY DEF Init, NullQuotaInv

(* Every step keeps the invariant.                                         *)
LEMMA NullQuotaStep ==
    ASSUME NoOverflow, NullQuotaInv, [Next]_vars
    PROVE  NullQuotaInv'
<1> USE DEF NullQuotaInv
<1>0. /\ field.rows \in Nat \ {0}
      /\ field.null.enabled \in BOOLEAN
  BY FieldShape
<1>1. CASE Refuse
  BY <1>1 DEF Refuse
<1>2. CASE Parse
  <2>1. /\ null_remaining' = Share(field.null)
        /\ null_remaining' \in 0 .. field.rows
    BY <1>2, QuotaIsShare DEF Parse
  <2>2. Share(field.null)' = Share(field.null)
    BY <1>2 DEF Parse, Share
  <2> QED BY <1>0, <1>2, <2>1, <2>2 DEF Parse
<1>3. CASE GenerateNull
  <2>1. Share(field.null)' = Share(field.null)
    BY <1>3 DEF GenerateNull, Share
  <2>2. null_remaining > 0
    BY <1>3 DEF GenerateNull, Possible
  <2> QED BY <1>0, <1>3, <2>1, <2>2 DEF GenerateNull
<1>4. CASE GenerateDefault \/ GenerateValue
  <2>1. Share(field.null)' = Share(field.null)
    BY <1>4 DEF GenerateDefault, GenerateValue, Share
  <2>2. at = "generate" /\ at' = "next" /\ NullMisses
        /\ UNCHANGED <<field, row_index, null_remaining, nulls>>
    BY <1>4 DEF GenerateDefault, GenerateValue
  <2>3. null_remaining <= field.rows - row_index - 1
    <3>1. CASE field.null.enabled
      <4>1. ~(null_remaining > 0 /\ RowsLeft > 0 /\ null_remaining >= RowsLeft)
        BY <2>2, <3>1 DEF NullMisses, Sure
      <4> QED BY <1>0, <2>2, <4>1 DEF RowsLeft
    <3>2. CASE ~field.null.enabled
      <4>1. Share(field.null) = 0
        BY <3>2 DEF Share
      <4>2. null_remaining = 0
        BY <2>2, <4>1
      <4> QED BY <1>0, <2>2, <4>2
    <3> QED BY <3>1, <3>2
  <2> QED BY <1>0, <2>1, <2>2, <2>3
<1>5. CASE NextRow
  <2>1. Share(field.null)' = Share(field.null)
    BY <1>5 DEF NextRow, Share
  <2> QED BY <1>0, <1>5, <2>1 DEF NextRow
<1>6. CASE UNCHANGED vars
  BY <1>6 DEF vars, Share
<1> QED BY <1>1, <1>2, <1>3, <1>4, <1>5, <1>6 DEF Next, Ended

(* null_value "Overrides a percentage of rows with nulls" (README.md:191): *)
(* where nothing overflows, a run ends with exactly its share of nulls,    *)
(* for every number of rows and every percentage.                          *)
THEOREM NullShareHolds == ASSUME NoOverflow PROVE Spec => []NullShareIsExact
<1>1. NullQuotaInv => NullShareIsExact
  <2> SUFFICES ASSUME NullQuotaInv, at = "end" PROVE nulls = Share(field.null)
    BY DEF NullShareIsExact
  <2> QED BY DEF NullQuotaInv
<1>2. NullQuotaInv /\ [Next]_vars => NullQuotaInv'
  BY NullQuotaStep
<1> QED BY <1>1, <1>2, NullQuotaInit, PTL DEF Spec

-----------------------------------------------------------------------------
(***************************************************************************)
(* The two quotas together.                                                *)
(***************************************************************************)
LEMMA Distributive ==
    ASSUME NEW n \in Nat, NEW p \in Nat, NEW q \in Nat
    PROVE  n * p + n * q = n * (p + q)
  BY SMT

(* Both shares are rounded down, so together they fit the rows.            *)
LEMMA SharesFit ==
    ASSUME field \in Fields, RulesAreValid
    PROVE  /\ Share(field.null) \in Nat /\ Share(field.default) \in Nat
           /\ Share(field.null) + Share(field.default) <= field.rows
<1>0. field.rows \in Nat /\ field.null.percentage \in 0 .. 100
      /\ field.default.percentage \in 0 .. 100
  BY FieldShape DEF RulesAreValid, IsPercentage
<1>1. PICK rows \in Nat, p \in 0 .. 100, q \in 0 .. 100 :
          rows = field.rows /\ p = field.null.percentage /\ q = field.default.percentage
  BY <1>0
<1>2. /\ rows * p \in Nat /\ rows * p <= rows * 100
      /\ rows * q \in Nat /\ rows * q <= rows * 100
  BY <1>1, ProductBound
<1>3. (rows * p) \div 100 \in 0 .. rows /\ (rows * q) \div 100 \in 0 .. rows
  BY <1>1, <1>2, QuotientBound
<1>4. ASSUME p + q <= 100
      PROVE  (rows * p) \div 100 + (rows * q) \div 100 <= rows
  <2>1. rows * p + rows * q = rows * (p + q)
    <3>1. p \in Nat /\ q \in Nat
      BY <1>1
    <3> QED BY <1>1, <3>1, Distributive
  <2>2. rows * (p + q) <= rows * 100
    <3>1. p + q \in 0 .. 100
      BY <1>1, <1>4, SMTT(30)
    <3> QED BY <1>1, <3>1, ProductBound
  <2>3. PICK m \in Nat, n \in Nat : m = rows * p /\ n = rows * q
    BY <1>2
  <2>4. m + n <= rows * 100
    BY <2>1, <2>2, <2>3
  <2>5. m \div 100 + n \div 100 <= rows
    BY <1>1, <2>4
  <2> QED BY <2>3, <2>5
<1>5. CASE field.null.enabled /\ field.default.enabled
  <2>1. q + p <= 100
    BY <1>1, <1>5 DEF RulesAreValid
  <2>2. p + q <= 100
    BY <1>1, <2>1
  <2> QED BY <1>1, <1>3, <1>4, <1>5, <2>2 DEF Share
<1>6. CASE ~(field.null.enabled /\ field.default.enabled)
  <2>0. 0 \in 0 .. rows
    BY <1>1
  <2>1. Share(field.null) \in 0 .. rows /\ Share(field.default) \in 0 .. rows
    <3>1. Share(field.null) \in {0, (rows * p) \div 100}
      BY <1>1 DEF Share
    <3>2. Share(field.default) \in {0, (rows * q) \div 100}
      BY <1>1 DEF Share
    <3> QED BY <1>3, <2>0, <3>1, <3>2
  <2>2. Share(field.null) = 0 \/ Share(field.default) = 0
    BY <1>6 DEF Share
  <2> QED BY <1>1, <2>1, <2>2
<1> QED BY <1>5, <1>6

(* Each row has one outcome.  What is left of the default quota and the    *)
(* defaults there have been make up the share, and the default rule is     *)
(* behind the rows that are left by the nulls at most.                     *)
QuotasInv ==
    /\ NullQuotaInv
    /\ defaults \in Nat /\ values \in Nat
    /\ at \in {"parse", "refused"} =>
          /\ row_index = 0 /\ null_remaining = 0 /\ default_remaining = 0
          /\ nulls = 0 /\ defaults = 0 /\ values = 0
    /\ at \in {"generate", "next", "end"} =>
          /\ RulesAreValid
          /\ default_remaining \in Nat
          /\ defaults + default_remaining = Share(field.default)
    /\ at = "generate" =>
          /\ nulls + defaults + values = row_index
          /\ default_remaining <= field.rows - row_index + nulls
    /\ at = "next" =>
          /\ nulls + defaults + values = row_index + 1
          /\ default_remaining <= field.rows - row_index - 1 + nulls
    /\ at = "end" =>
          /\ nulls + defaults + values = field.rows
          /\ default_remaining <= nulls

LEMMA QuotasInit == Init => QuotasInv
<1> SUFFICES ASSUME Init PROVE QuotasInv
  OBVIOUS
<1>1. NullQuotaInv
  BY NullQuotaInit
<1> QED BY <1>1 DEF QuotasInv, Init

LEMMA QuotasStep ==
    ASSUME NoOverflow, QuotasInv, [Next]_vars
    PROVE  QuotasInv'
<1> USE DEF QuotasInv
<1>0. /\ NullQuotaInv /\ NullQuotaInv' /\ field \in Fields
      /\ field.rows \in Nat \ {0} /\ nulls \in Nat /\ row_index \in Nat
      /\ at \in {"parse", "refused", "generate", "next", "end"}
      /\ at \in {"generate", "next"} => row_index < field.rows
      /\ at \in {"generate", "next", "end"} => null_remaining \in Nat
  BY NullQuotaStep, FieldShape DEF NullQuotaInv
<1>1. CASE Refuse
  BY <1>0, <1>1 DEF Refuse
<1>2. CASE Parse
  <2>1. default_remaining' = Share(field.default) /\ default_remaining' \in 0 .. field.rows
    BY <1>0, <1>2, QuotaIsShare DEF Parse
  <2>2. Share(field.default)' = Share(field.default) /\ (RulesAreValid' <=> RulesAreValid)
    BY <1>2 DEF Parse, Share, RulesAreValid
  <2> QED BY <1>0, <1>2, <2>1, <2>2 DEF Parse
<1>3. CASE GenerateNull
  <2>1. Share(field.default)' = Share(field.default) /\ (RulesAreValid' <=> RulesAreValid)
    BY <1>3 DEF GenerateNull, Share, RulesAreValid
  <2>2. defaults \in Nat /\ values \in Nat /\ default_remaining \in Nat /\ at = "generate"
    BY <1>3 DEF GenerateNull
  <2> QED BY <1>0, <1>3, <2>1, <2>2 DEF GenerateNull
<1>4. CASE GenerateDefault
  <2>1. Share(field.default)' = Share(field.default) /\ (RulesAreValid' <=> RulesAreValid)
    BY <1>4 DEF GenerateDefault, Share, RulesAreValid
  <2>2. /\ defaults \in Nat /\ values \in Nat /\ default_remaining \in Nat /\ at = "generate"
        /\ default_remaining > 0
    BY <1>4 DEF GenerateDefault, Possible
  <2> QED BY <1>0, <1>4, <2>1, <2>2 DEF GenerateDefault
<1>5. CASE GenerateValue
  <2>1. Share(field.default)' = Share(field.default) /\ (RulesAreValid' <=> RulesAreValid)
    BY <1>5 DEF GenerateValue, Share, RulesAreValid
  <2>2. defaults \in Nat /\ values \in Nat /\ default_remaining \in Nat /\ at = "generate"
    BY <1>5 DEF GenerateValue
  <2>3. default_remaining <= field.rows - row_index - 1 + nulls
    <3>1. CASE field.default.enabled
      <4>1. ~(default_remaining > 0 /\ RowsLeft > 0 /\ default_remaining >= RowsLeft)
        BY <1>5, <3>1 DEF GenerateValue, Sure
      <4> QED BY <1>0, <2>2, <4>1 DEF RowsLeft
    <3>2. CASE ~field.default.enabled
      <4>1. Share(field.default) = 0
        BY <3>2 DEF Share
      <4>2. default_remaining = 0
        BY <2>2, <4>1
      <4> QED BY <1>0, <2>2, <4>2
    <3> QED BY <3>1, <3>2
  <2> QED BY <1>0, <1>5, <2>1, <2>2, <2>3 DEF GenerateValue
<1>6. CASE NextRow
  <2>1. Share(field.default)' = Share(field.default) /\ (RulesAreValid' <=> RulesAreValid)
    BY <1>6 DEF NextRow, Share, RulesAreValid
  <2>2. defaults \in Nat /\ values \in Nat /\ default_remaining \in Nat /\ at = "next"
    BY <1>6 DEF NextRow
  <2> QED BY <1>0, <1>6, <2>1, <2>2 DEF NextRow
<1>7. CASE UNCHANGED vars
  BY <1>0, <1>7 DEF vars, Share, RulesAreValid
<1> QED BY <1>1, <1>2, <1>3, <1>4, <1>5, <1>6, <1>7 DEF Next, Ended

(* What the invariant says of a state.                                     *)
LEMMA QuotasTell == QuotasInv => QuotasFitTheRowsLeft /\ DefaultShareIsKept
<1> SUFFICES ASSUME QuotasInv PROVE QuotasFitTheRowsLeft /\ DefaultShareIsKept
  OBVIOUS
<1> USE DEF QuotasInv
<1>0. /\ NullQuotaInv /\ field \in Fields /\ field.rows \in Nat \ {0}
      /\ nulls \in Nat /\ defaults \in Nat /\ values \in Nat
      /\ at \in {"parse", "refused", "generate", "next", "end"}
  BY FieldShape DEF NullQuotaInv
<1>1. QuotasFitTheRowsLeft
  <2> SUFFICES ASSUME at = "generate"
               PROVE  /\ nulls + defaults + values = row_index
                      /\ null_remaining <= RowsLeft
                      /\ nulls + null_remaining + defaults + default_remaining <= field.rows
    BY DEF QuotasFitTheRowsLeft
  <2>1. /\ null_remaining \in Nat /\ default_remaining \in Nat
        /\ nulls + null_remaining = Share(field.null)
        /\ defaults + default_remaining = Share(field.default)
        /\ null_remaining <= RowsLeft
    BY <1>0 DEF NullQuotaInv, RowsLeft
  <2>2. Share(field.null) + Share(field.default) <= field.rows
    BY <1>0, SharesFit
  <2> QED BY <1>0, <2>1, <2>2
<1>2. DefaultShareIsKept
  BY <1>0 DEF DefaultShareIsKept
<1> QED BY <1>1, <1>2

LEMMA QuotasInvariant == ASSUME NoOverflow PROVE Spec => []QuotasInv
<1>1. QuotasInv /\ [Next]_vars => QuotasInv'
  BY QuotasStep
<1> QED BY <1>1, QuotasInit, PTL DEF Spec

(* Each row has one outcome, and the two quotas never ask for more rows    *)
(* than are left.                                                          *)
THEOREM QuotasFitHolds == ASSUME NoOverflow PROVE Spec => []QuotasFitTheRowsLeft
<1>1. QuotasInv => QuotasFitTheRowsLeft
  BY QuotasTell
<1> QED BY <1>1, QuotasInvariant, PTL

(* A run never gives out more defaults than their share, and at its end it *)
(* misses as many of them as there are nulls at most, for any draws.       *)
THEOREM DefaultShareHolds == ASSUME NoOverflow PROVE Spec => []DefaultShareIsKept
<1>1. QuotasInv => DefaultShareIsKept
  BY QuotasTell
<1> QED BY <1>1, QuotasInvariant, PTL

-----------------------------------------------------------------------------
(***************************************************************************)
(* Types, whether or not a product overflows.                              *)
(***************************************************************************)
LEMMA WrappedInRange == ASSUME NEW n \in Int PROVE Wrapped(n) \in IntType
<1>1. IntMax \in Nat /\ Modulus \in Nat \ {0} /\ Modulus = 2 * (IntMax + 1)
  BY IntMaxAssumption DEF Modulus
<1>2. PICK m \in Int : m = n + IntMax + 1
  BY <1>1
<1>3. m % Modulus \in 0 .. Modulus - 1
  BY <1>1, SMT
<1> QED BY <1>1, <1>2, <1>3 DEF Wrapped, IntType

(* A quota fits an int, for it is the hundredth part of one or of a        *)
(* product that is a hundred times the rows at most.                       *)
LEMMA QuotaInRange ==
    ASSUME field \in Fields, RulesAreValid, NEW rule \in {field.null, field.default},
           NEW q \in Quotas(rule)
    PROVE  q \in IntType
<1>1. /\ field.rows \in Nat /\ field.rows <= IntMax /\ rule.percentage \in 0 .. 100
      /\ IntMax \in Nat
  BY FieldShape, IntMaxAssumption DEF RulesAreValid, IsPercentage
<1>2. CASE ~rule.enabled
  BY <1>1, <1>2 DEF Quotas, IntType
<1>3. CASE rule.enabled
  <2>1. PICK p \in Products(field.rows, rule.percentage) : q = Quotient(p, 100)
    BY <1>3 DEF Quotas
  <2>2. CASE p = field.rows * rule.percentage
    <3>1. p \in Nat /\ p <= field.rows * 100
      BY <1>1, <2>2, ProductBound
    <3>2. p \div 100 \in 0 .. field.rows
      BY <1>1, <3>1, QuotientBound
    <3> QED BY <1>1, <2>1, <3>1, <3>2 DEF Quotient, IntType
  <2>3. CASE p = Wrapped(field.rows * rule.percentage)
    <3>1. field.rows * rule.percentage \in Int
      BY <1>1, ProductBound
    <3>2. p \in IntType
      BY <2>3, <3>1, WrappedInRange
    <3>3. CASE p >= 0
      <4>1. p \in Nat /\ p <= IntMax
        BY <1>1, <3>2, <3>3 DEF IntType
      <4>2. p \div 100 \in 0 .. IntMax
        BY <1>1, <4>1
      <4> QED BY <1>1, <2>1, <3>3, <4>2 DEF Quotient, IntType
    <3>4. CASE p < 0
      <4>1. p \in Int /\ -p \in Nat /\ -p <= IntMax + 1
        BY <1>1, <3>2, <3>4 DEF IntType
      <4>2. (-p) \div 100 \in 0 .. IntMax + 1
        BY <1>1, <4>1
      <4>3. Quotient(p, 100) = -((-p) \div 100)
        BY <3>4, <4>1 DEF Quotient
      <4> QED BY <1>1, <2>1, <4>2, <4>3 DEF IntType
    <3> QED BY <1>1, <3>2, <3>3, <3>4 DEF IntType
  <2> QED BY <2>1, <2>2, <2>3 DEF Products
<1> QED BY <1>2, <1>3

LEMMA TypeInit == Init => TypeOK
<1> SUFFICES ASSUME Init PROVE TypeOK
  OBVIOUS
<1>1. field \in Fields /\ field.rows \in Nat \ {0} /\ IntMax \in Nat
  BY FieldShape, IntMaxAssumption DEF Init
<1> QED BY <1>1 DEF Init, TypeOK, IntType

LEMMA TypeStep == ASSUME TypeOK, [Next]_vars PROVE TypeOK'
<1> USE DEF TypeOK
<1>0. /\ field \in Fields /\ field.rows \in Nat \ {0} /\ IntMax \in Nat \ {0}
      /\ null_remaining \in IntType /\ default_remaining \in IntType
  BY FieldShape, IntMaxAssumption
<1>1. CASE Refuse
  BY <1>1 DEF Refuse
<1>2. CASE Parse
  <2>1. null_remaining' \in IntType /\ default_remaining' \in IntType
    BY <1>0, <1>2, QuotaInRange DEF Parse
  <2>2. IntType' = IntType
    BY DEF IntType
  <2> QED BY <1>2, <2>1 DEF Parse
<1>3. CASE GenerateNull
  BY <1>0, <1>3 DEF GenerateNull, Possible, IntType
<1>4. CASE GenerateDefault
  BY <1>0, <1>4 DEF GenerateDefault, Possible, IntType
<1>5. CASE GenerateValue
  BY <1>0, <1>5 DEF GenerateValue
<1>6. CASE NextRow
  BY <1>0, <1>6 DEF NextRow
<1>7. CASE UNCHANGED vars
  BY <1>7 DEF vars
<1> QED BY <1>1, <1>2, <1>3, <1>4, <1>5, <1>6, <1>7 DEF Next, Ended

(* Every variable has its type; the quotas stay within an int whatever a   *)
(* product that overflows comes to.                                        *)
THEOREM TypeCorrect == Spec => []TypeOK
  BY TypeInit, TypeStep, PTL DEF Spec

(***************************************************************************)
(* The sequences.                                                          *)
(***************************************************************************)

(***************************************************************************)
(* Numbers.                                                                *)
(***************************************************************************)
LEMMA Division ==
    ASSUME NEW a \in Nat, NEW p \in Nat \ {0}
    PROVE  /\ a \div p \in Nat /\ a % p \in 0 .. p - 1
           /\ a = p * (a \div p) + (a % p)
  BY SMT

LEMMA Multiples ==
    ASSUME NEW m \in Nat, NEW n \in Nat, m <= n, NEW k \in Nat
    PROVE  /\ m * k \in Nat /\ n * k \in Nat /\ m * k <= n * k
           /\ k * m = m * k
           /\ (m + 1) * k = m * k + k
<1>1. m * k \in Nat /\ n * k \in Nat /\ (n - m) * k \in Nat
  BY SMT
<1>2. (n - m) * k = n * k - m * k /\ k * m = m * k /\ (m + 1) * k = m * k + k
  BY SMT
<1> QED BY <1>1, <1>2, SMT

(* A remainder is what is left of any multiple.                            *)
LEMMA Remainder ==
    ASSUME NEW a \in Nat, NEW p \in Nat \ {0}, NEW q \in Nat, NEW k \in 0 .. p - 1,
           a = p * q + k
    PROVE  a % p = k
<1>1. PICK d \in Nat, m \in 0 .. p - 1 : d = a \div p /\ m = a % p /\ a = p * d + m
  BY Division
<1>2. p * d \in Nat /\ p * q \in Nat
  BY SMT
<1>3. CASE d = q
  <2>1. p * q + k = p * q + m
    BY <1>1, <1>3
  <2> QED BY <1>1, <1>2, <2>1
<1>4. CASE q < d
  <2>1. (q + 1) * p <= d * p /\ (q + 1) * p = q * p + p
    BY <1>4, Multiples
  <2>2. q * p = p * q /\ d * p = p * d
    BY SMT
  <2> QED BY <1>1, <1>2, <2>1, <2>2
<1>5. CASE d < q
  <2>1. (d + 1) * p <= q * p /\ (d + 1) * p = d * p + p
    BY <1>5, Multiples
  <2>2. q * p = p * q /\ d * p = p * d
    BY SMT
  <2> QED BY <1>1, <1>2, <2>1, <2>2
<1> QED BY <1>1, <1>3, <1>4, <1>5

(* Remainders count up and start over.                                     *)
LEMMA NextRemainder ==
    ASSUME NEW a \in Nat, NEW p \in Nat \ {0}
    PROVE  (a + 1) % p = IF (a % p) + 1 = p THEN 0 ELSE (a % p) + 1
<1>1. PICK q \in Nat, k \in 0 .. p - 1 : q = a \div p /\ k = a % p /\ a = p * q + k
  BY Division
<1>2. p * q \in Nat /\ p * (q + 1) = p * q + p
  BY SMT
<1>3. CASE k + 1 = p
  <2>1. /\ a + 1 = p * (q + 1) + 0
        /\ a + 1 \in Nat /\ q + 1 \in Nat /\ 0 \in 0 .. p - 1
    BY <1>1, <1>2, <1>3
  <2>2. (a + 1) % p = 0
    BY <2>1, Remainder
  <2> QED BY <1>1, <1>3, <2>2
<1>4. CASE k + 1 # p
  <2>1. PICK j \in 0 .. p - 1 : j = k + 1 /\ a + 1 = p * q + j
    BY <1>1, <1>2, <1>4
  <2>2. a + 1 \in Nat
    OBVIOUS
  <2>3. (a + 1) % p = k + 1
    BY <2>1, <2>2, Remainder
  <2> QED BY <1>1, <1>4, <2>1, <2>3
<1> QED BY <1>3, <1>4

(* Steps of s over a distance d: all but the last stay within it.          *)
LEMMA Walk ==
    ASSUME NEW d \in Nat, NEW s \in Nat \ {0}, NEW k \in 0 .. d \div s
    PROVE  /\ k * s \in 0 .. d
           /\ k = d \div s => k * s + s > d
           /\ k # d \div s => k * s + s <= d
<1>1. PICK q \in Nat, m \in 0 .. s - 1 : q = d \div s /\ d = s * q + m
  BY Division
<1>2. s * q = q * s /\ q * s \in Nat
  BY SMT
<1>3. k \in Nat /\ k <= q
  BY <1>1
<1>4. k * s \in Nat /\ k * s <= q * s
  BY <1>3, Multiples
<1>5. k # q => k * s + s <= q * s
  <2> SUFFICES ASSUME k # q PROVE k * s + s <= q * s
    OBVIOUS
  <2>1. k + 1 \in Nat /\ k + 1 <= q
    BY <1>3
  <2>2. (k + 1) * s <= q * s
    BY <2>1, Multiples
  <2>3. (k + 1) * s = k * s + s
    BY <1>3, Multiples
  <2> QED BY <2>2, <2>3
<1> QED BY <1>1, <1>2, <1>4, <1>5

(* A sum that fits is the only outcome.                                    *)
LEMMA SumFits ==
    ASSUME NEW m \in Int, NEW n \in Int, m + n \in LongType
    PROVE  LongSums(m, n) = {m + n}
<1>1. LongMax \in Nat \ {0}
  BY LongMaxAssumption
<1>2. PICK a \in Nat, p \in Nat \ {0} :
         a = m + n + LongMax + 1 /\ p = 2 * (LongMax + 1) /\ a \in 0 .. p - 1
  BY <1>1 DEF LongType
<1>3. a % p = a
  <2>1. a = p * 0 + a
    BY <1>2
  <2> QED BY <1>2, <2>1, Remainder
<1>4. ((m + n + LongMax + 1) % (2 * (LongMax + 1))) - LongMax - 1 = m + n
  BY <1>1, <1>2, <1>3
<1> QED BY <1>4 DEF LongSums

(***************************************************************************)
(* One step of the sequence.                                               *)
(***************************************************************************)
(* The number of row r.                                                    *)
NumberOf(r) ==
    IF sequence.circle \/ r < Period THEN sequence.start + (r % Period) * sequence.step
    ELSE sequence.end

(* The step after the last number before the end still fits.               *)
Fits == {sequence.start + sequence.step, sequence.end + sequence.step} \subseteq LongType

LEMMA SequenceShape ==
    ASSUME sequence \in Sequences
    PROVE  /\ sequence.start \in Int /\ sequence.end \in Int /\ sequence.step \in Int
           /\ sequence.circle \in BOOLEAN
  BY SequencesAssumption, LongMaxAssumption DEF SequenceType, LongType

(* The first row shows the start.                                          *)
LEMMA FirstNumber ==
    ASSUME sequence \in Sequences, sequence.step # 0
    PROVE  Period \in Nat \ {0} /\ NumberOf(0) = sequence.start
<1>1. /\ sequence.start \in Int /\ sequence.end \in Int /\ sequence.step \in Int
  BY SequenceShape
<1>2. Period \in Nat \ {0}
  <2>1. Stride \in Nat \ {0} /\ Distance \in Int
    BY <1>1 DEF Stride, Distance
  <2>2. CASE Distance < 0
    BY <2>2 DEF Period
  <2>3. CASE Distance >= 0
    <3>1. Distance \div Stride \in Nat
      BY <2>1, <2>3, Division
    <3> QED BY <2>1, <2>3, <3>1 DEF Period
  <2> QED BY <2>1, <2>2, <2>3
<1>3. 0 % Period = 0
  <2>1. 0 = Period * 0 + 0 /\ 0 \in 0 .. Period - 1
    BY <1>2
  <2> QED BY <1>2, <2>1, Remainder
<1>4. 0 < Period
  BY <1>2
<1>5. 0 * sequence.step = 0
  BY <1>1
<1> QED BY <1>1, <1>2, <1>3, <1>4, <1>5 DEF NumberOf

(* Where next() takes the number of a row, the number of the next row is.  *)
LEMMA NextNumber ==
    ASSUME sequence \in Sequences, sequence.step # 0, Fits, NEW r \in Nat,
           NEW n \in LongSums(NumberOf(r), sequence.step)
    PROVE  (IF ~PassesEnd(n) THEN n ELSE IF sequence.circle THEN sequence.start ELSE
    sequence.end)
               = NumberOf(r + 1)
<1>1. PICK first \in Int, last \in Int, step \in Int \ {0}, circle \in BOOLEAN :
          /\ first = sequence.start /\ last = sequence.end /\ step = sequence.step
          /\ circle = sequence.circle
          /\ first + step \in LongType /\ last + step \in LongType
  BY SequenceShape DEF Fits
<1>2. PICK p \in Nat \ {0} : p = Period
  BY FirstNumber
<1>3. PICK k \in 0 .. p - 1 : k = r % p
  BY Division
<1>4. (r + 1) % p = IF k + 1 = p THEN 0 ELSE k + 1
  BY <1>3, NextRemainder
<1>5. /\ NumberOf(r) = IF circle \/ r < p THEN first + k * step ELSE last
      /\ NumberOf(r + 1) = IF circle \/ r + 1 < p THEN first + ((r + 1) % p) * step ELSE last
  BY <1>1, <1>2, <1>3 DEF NumberOf
<1>6. ASSUME NEW m \in Int PROVE PassesEnd(m) <=> (step > 0 /\ m > last) \/ (step < 0 /\ m < last)
  BY <1>1 DEF PassesEnd
<1>7. LongType \subseteq Int
  BY LongMaxAssumption DEF LongType
<1>8. 0 * step = 0
  BY <1>1
(* The number stays at the end.                                            *)
<1>9. CASE ~(circle \/ r < p)
  <2>1. n = last + step
    BY <1>1, <1>5, <1>9, SumFits
  <2>2. PassesEnd(n)
    BY <1>1, <1>6, <2>1
  <2>3. ~(r + 1 < p)
    BY <1>9
  <2> QED BY <1>1, <1>5, <1>9, <2>2, <2>3
(* The start is beyond the end.                                            *)
<1>10. CASE (circle \/ r < p) /\ Distance < 0
  <2>1. p = 1 /\ k = 0
    BY <1>2, <1>10 DEF Period
  <2>2. NumberOf(r) = first /\ (r + 1) % p = 0 /\ ~(r + 1 < p)
    BY <1>4, <1>5, <1>8, <1>10, <2>1
  <2>3. n = first + step
    BY <1>1, <2>2, SumFits
  <2>4. PassesEnd(n)
    BY <1>1, <1>6, <1>10, <2>3 DEF Distance
  <2>5. NumberOf(r + 1) = IF circle THEN first ELSE last
    BY <1>5, <1>8, <2>2
  <2> QED BY <1>1, <2>4, <2>5
(* The number walks from the start to the end.                             *)
<1>11. CASE (circle \/ r < p) /\ Distance >= 0
  <2>1. PICK d \in Nat, s \in Nat \ {0} :
            /\ d = Distance /\ s = Stride
            /\ step > 0 => s = step /\ d = last - first
            /\ step < 0 => s = -step /\ d = first - last
    <3>1. Stride \in Nat \ {0} /\ Distance \in Nat
      BY <1>1, <1>11 DEF Stride, Distance
    <3>2. /\ step > 0 => Stride = step /\ Distance = last - first
          /\ step < 0 => Stride = -step /\ Distance = first - last
      BY <1>1 DEF Stride, Distance
    <3> QED BY <3>1, <3>2
  <2>2. p = d \div s + 1 /\ d \div s \in Nat
    <3>1. d \div s \in Nat
      BY Division
    <3> QED BY <1>2, <1>11, <2>1, <3>1 DEF Period
  <2>3. k \in 0 .. d \div s /\ (k + 1 = p <=> k = d \div s)
    BY <2>2
  <2>4. PICK x \in 0 .. d : /\ x = k * s
                            /\ k + 1 = p => x + s > d
                            /\ k + 1 # p => x + s <= d
    BY <2>3, Walk
  <2>5. /\ step > 0 => k * step = x /\ (k + 1) * step = x + s
        /\ step < 0 => k * step = -x /\ (k + 1) * step = -x - s
    <3>1. k \in Nat /\ k * s = x /\ (k + 1) * s = x + s
      BY <2>4, Multiples
    <3>2. CASE step > 0
      BY <2>1, <3>1, <3>2
    <3>3. CASE step < 0
      <4>1. step = -s
        BY <2>1, <3>3
      <4>2. k * (-s) = -(k * s) /\ (k + 1) * (-s) = -((k + 1) * s)
        BY <3>1, SMT
      <4> QED BY <3>1, <3>3, <4>1, <4>2
    <3> QED BY <1>1, <3>2, <3>3
  <2>6. PICK c \in Int : /\ c = NumberOf(r)
                         /\ step > 0 => c = first + x
                         /\ step < 0 => c = first - x
    BY <1>1, <1>5, <1>11, <2>5
  <2>7. c + step \in LongType
    BY <1>1, <2>1, <2>4, <2>6, LongMaxAssumption DEF LongType
  <2>8. n = c + step
    BY <1>1, <2>6, <2>7, SumFits
  <2>9. CASE k + 1 = p
    <3>1. PassesEnd(n)
      BY <1>1, <1>6, <2>1, <2>4, <2>6, <2>8, <2>9
    <3>2. NumberOf(r + 1) = IF circle THEN first ELSE last
      <4>1. r < p => ~(r + 1 < p)
        <5> SUFFICES ASSUME r < p PROVE r = k
          BY <2>9
        <5>1. r = p * 0 + r /\ r \in 0 .. p - 1
          OBVIOUS
        <5> QED BY <1>3, <5>1, Remainder
      <4> QED BY <1>1, <1>4, <1>5, <1>8, <1>11, <2>9, <4>1
    <3> QED BY <1>1, <3>1, <3>2
  <2>10. CASE k + 1 # p
    <3>1. ~PassesEnd(n)
      BY <1>1, <1>6, <2>1, <2>4, <2>6, <2>8, <2>10
    <3>2. circle \/ r + 1 < p
      <4> SUFFICES ASSUME r < p PROVE r = k
        BY <1>3, <1>11, <2>10
      <4>1. r = p * 0 + r /\ r \in 0 .. p - 1
        OBVIOUS
      <4> QED BY <1>3, <4>1, Remainder
    <3>3. NumberOf(r + 1) = first + (k + 1) * step
      BY <1>4, <1>5, <2>10, <3>2
    <3>4. NumberOf(r + 1) = c + step
      BY <1>1, <2>1, <2>5, <2>6, <3>3
    <3> QED BY <2>8, <3>1, <3>4
  <2> QED BY <2>9, <2>10
<1> QED BY <1>1, <1>9, <1>10, <1>11 DEF Distance

(***************************************************************************)
(* The sequence over the run.                                              *)
(***************************************************************************)
(* While rows are generated, current is the number of the row.             *)
SequenceInv ==
    /\ sequence \in Sequences /\ field \in Fields /\ row_index \in Nat
    /\ at \in {"parse", "refused", "generate", "next", "end"}
    /\ at = "parse" => row_index = 0 /\ current = sequence.start
    /\ at \in {"generate", "next"} => row_index < field.rows /\ sequence.step # 0
    /\ at \in {"generate", "next"} /\ Fits => current = NumberOf(row_index)

LEMMA SequenceInvInit == SequenceInit => SequenceInv
  BY DEF SequenceInit, Init, SequenceInv

LEMMA SequenceInvStep ==
    ASSUME SequenceInv, [SequenceNext]_sequenceVars
    PROVE  SequenceInv'
<1> USE DEF SequenceInv
<1>0. field.rows \in Nat \ {0}
  BY FieldShape
<1>1. ASSUME UNCHANGED sequence, NEW r
      PROVE  (Fits' <=> Fits) /\ NumberOf(r)' = NumberOf(r)
  BY <1>1 DEF Fits, NumberOf, Period, Distance, Stride
<1>2. CASE (Refuse /\ UNCHANGED <<sequence, current>>) \/ RefuseStep
  BY <1>2 DEF Refuse, RefuseStep
<1>3. CASE Construct
  <2>1. /\ at = "parse" /\ at' = "generate" /\ sequence.step # 0
        /\ UNCHANGED <<field, row_index, sequence, current>>
    BY <1>3 DEF Construct, Parse
  <2>2. NumberOf(row_index)' = sequence.start
    BY <1>1, <2>1, FirstNumber
  <2> QED BY <1>0, <2>1, <2>2
<1>4. CASE GenerateSequence
  <2>1. /\ at = "generate" /\ at' = "next"
        /\ UNCHANGED <<field, row_index, sequence, current>>
    BY <1>4 DEF GenerateSequence, GenerateNull, GenerateDefault, GenerateValue
  <2>2. (Fits' <=> Fits) /\ NumberOf(row_index)' = NumberOf(row_index)
    BY <1>1, <2>1
  <2> QED BY <2>1, <2>2
<1>5. CASE NextSequence
  <2>1. /\ at = "next" /\ at' \in {"generate", "end"} /\ row_index' = row_index + 1
        /\ at' = "generate" => row_index' < field'.rows
        /\ UNCHANGED <<field, sequence>>
    BY <1>0, <1>5 DEF NextSequence, NextRow
  <2>2. ASSUME Fits' PROVE current' = NumberOf(row_index + 1)
    <3>1. Fits /\ current = NumberOf(row_index)
      BY <1>1, <2>1, <2>2
    <3>2. PICK n \in LongSums(current, sequence.step) :
              current' = IF ~PassesEnd(n) THEN n
                         ELSE IF sequence.circle THEN sequence.start ELSE sequence.end
      BY <1>5 DEF NextSequence
    <3> QED BY <2>1, <3>1, <3>2, NextNumber
  <2>3. NumberOf(row_index)' = NumberOf(row_index + 1)
    BY <2>1 DEF NumberOf, Period, Distance, Stride
  <2> QED BY <2>1, <2>2, <2>3
<1>6. CASE UNCHANGED sequenceVars \/ (Ended /\ UNCHANGED <<sequence, current>>)
  <2>1. UNCHANGED <<at, row_index, field, sequence, current>>
    BY <1>6 DEF sequenceVars, vars, Ended
  <2>2. (Fits' <=> Fits) /\ NumberOf(row_index)' = NumberOf(row_index)
    BY <1>1, <2>1
  <2> QED BY <2>1, <2>2
<1> QED BY <1>2, <1>3, <1>4, <1>5, <1>6 DEF SequenceNext

(* A sequence shows the number of the row, whatever was overridden before, *)
(* for every start, end and step and any number of rows.                   *)
THEOREM SequenceHolds == SequenceSpec => []SequenceFollowsTheRows
<1>1. SequenceInv => SequenceFollowsTheRows
  BY DEF SequenceInv, SequenceFollowsTheRows, Fits, NumberOf
<1>2. SequenceInv /\ [SequenceNext]_sequenceVars => SequenceInv'
  BY SequenceInvStep
<1> QED BY <1>1, <1>2, SequenceInvInit, PTL DEF SequenceSpec

(***************************************************************************)
(* The rules of the field while the sequence runs.                         *)
(***************************************************************************)
(* A step of the sequence is one of its rules, or refuses the sequence.    *)
LEMMA SequenceStepsAreRuleSteps ==
    ASSUME [SequenceNext]_sequenceVars
    PROVE  RefuseStep \/ [Next]_vars
  BY DEF SequenceNext, sequenceVars, Construct, GenerateSequence, NextSequence, Next

LEMMA SequenceKeepsRules ==
    ASSUME NoOverflow
    PROVE  SequenceSpec => [](QuotasInv /\ TypeOK)
<1>1. SequenceInit => QuotasInv /\ TypeOK
  BY QuotasInit, TypeInit DEF SequenceInit
<1>2. QuotasInv /\ TypeOK /\ [SequenceNext]_sequenceVars => (QuotasInv /\ TypeOK)'
  <2> SUFFICES ASSUME QuotasInv, TypeOK, [SequenceNext]_sequenceVars
               PROVE  QuotasInv' /\ TypeOK'
    OBVIOUS
  <2>1. CASE [Next]_vars
    BY <2>1, QuotasStep, TypeStep
  <2>2. CASE RefuseStep
    <3>1. TypeOK'
      BY <2>2 DEF RefuseStep, TypeOK
    <3>2. NullQuotaInv'
      BY <2>2 DEF RefuseStep, QuotasInv, NullQuotaInv
    <3> QED BY <2>2, <3>1, <3>2 DEF RefuseStep, QuotasInv
  <2> QED BY <2>1, <2>2, SequenceStepsAreRuleSteps
<1> QED BY <1>1, <1>2, PTL DEF SequenceSpec

(* The quotas of the rules are kept in the run of a sequence as in that of *)
(* any other generator.                                                    *)
THEOREM SequenceQuotasHold ==
    ASSUME NoOverflow
    PROVE  SequenceSpec => [](TypeOK /\ NullShareIsExact /\ DefaultShareIsKept
                                /\ QuotasFitTheRowsLeft)
<1>1. QuotasInv => NullShareIsExact
  BY DEF QuotasInv, NullQuotaInv, NullShareIsExact
<1>2. QuotasInv => QuotasFitTheRowsLeft /\ DefaultShareIsKept
  BY QuotasTell
<1> QED BY <1>1, <1>2, SequenceKeepsRules, PTL
=============================================================================
