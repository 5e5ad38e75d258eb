------------------------------ MODULE GasMeter ------------------------------
(***************************************************************************)
(* GasMeter and GasEstimator of src/stdlib/core/gas.rs.  The meter keeps   *)
(* remaining, limit and used side by side and updates the first and last  *)
(* with saturating u64 arithmetic; it is shown to implement the abstract   *)
(* GasBudget with spent <- used.  The estimator's saturating formulas are *)
(* operators, checked against the exact cost capped at u64::MAX.  u64 is   *)
(* scaled to U64 (= 2^64 in the code).                                     *)
(***************************************************************************)
EXTENDS Naturals

CONSTANTS
  Limit,      \* GasMeter::new(limit)
  Amounts,    \* amounts passed to consume
  U64,        \* 2^(bits of u64)
  BaseCost,   \* GasEstimator::new(base_cost, _)
  PerByte,    \* GasEstimator::new(_, per_byte_cost)
  DataSizes   \* key and value sizes given to the estimator

ASSUME Limit < U64 /\ Amounts \subseteq 0..(U64 - 1)

VARIABLES
  remaining,  \* self.remaining
  limit,      \* self.limit
  used,       \* self.used
  result,     \* what the last consume returned
  estimate    \* the last estimate_storage_cost call: [key, value, cost]

vars == <<remaining, limit, used, result, estimate>>

U64Max == U64 - 1

\* u64::saturating_sub, saturating_add and saturating_mul.
SatSub(a, b) == IF a >= b THEN a - b ELSE 0
SatAdd(a, b) == IF a + b > U64Max THEN U64Max ELSE a + b

\* Mutation: a wrapping multiply where saturating_mul was meant.
SatMulWrapping(a, b) == (a * b) % U64

SatMul(a, b) == IF a * b > U64Max THEN U64Max ELSE a * b

\* costs::STORAGE_STORE (= HIGH)
StorageStore == 10

\* GasEstimator::estimate_cost(size)
EstimateCost(size) == SatAdd(BaseCost, SatMul(PerByte, size))

\* GasEstimator::estimate_storage_cost(key_size, value_size)
EstimateStorageCost(k, v) ==
  SatAdd(StorageStore, SatAdd(EstimateCost(k), EstimateCost(v)))

\* GasMeter::new(limit)
Init ==
  /\ remaining = Limit
  /\ limit = Limit
  /\ used = 0
  /\ result = "Ok"
  /\ estimate = [key |-> 0, value |-> 0, cost |-> EstimateStorageCost(0, 0)]

\* A caller asks the estimator what storing a key and a value costs.
Estimate(k, v) ==
  /\ estimate' = [key |-> k, value |-> v, cost |-> EstimateStorageCost(k, v)]
  /\ UNCHANGED <<remaining, limit, used, result>>

\* Mutation: consume refusing an amount equal to what remains.
ConsumeStrict(n) ==
  IF remaining > n
  THEN /\ remaining' = SatSub(remaining, n)
       /\ used' = SatAdd(used, n)
       /\ result' = "Ok"
       /\ UNCHANGED <<limit, estimate>>
  ELSE result' = "OutOfGas" /\ UNCHANGED <<remaining, limit, used, estimate>>

\* GasMeter::consume(amount)
Consume(n) ==
  IF remaining >= n
  THEN /\ remaining' = SatSub(remaining, n)
       /\ used' = SatAdd(used, n)
       /\ result' = "Ok"
       /\ UNCHANGED <<limit, estimate>>
  ELSE result' = "OutOfGas" /\ UNCHANGED <<remaining, limit, used, estimate>>

Next ==
  \/ \E n \in Amounts : Consume(n)
  \/ \E k, v \in DataSizes : Estimate(k, v)

Spec == Init /\ [][Next]_vars

-----------------------------------------------------------------------------
TypeOK ==
  /\ remaining \in 0..limit
  /\ used \in 0..limit
  /\ limit = Limit
  /\ result \in {"Ok", "OutOfGas"}

\* The meter does what spec 4.1 asks of consume: every call succeeds exactly
\* when the amount fits in what is left and then spends exactly that amount,
\* so the separately kept remaining and used never drift apart.
Budget == INSTANCE GasBudget WITH spent <- used, outcome <- result

ImplementsGasBudget == Budget!Spec

\* The estimate for storing a key and a value is the exact cost, capped at
\* u64::MAX: no large size can wrap any of the five saturating steps round
\* to a cheap estimate.
EstimatesSaturate ==
  LET exact == StorageStore + 2 * BaseCost
                 + PerByte * (estimate.key + estimate.value)
  IN  estimate.cost = IF exact > U64Max THEN U64Max ELSE exact
=============================================================================
