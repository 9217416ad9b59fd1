-------------------------- MODULE EvaluationLedger --------------------------
(***************************************************************************)
(* The questions an evaluation ledger answers from its rows,               *)
(* chia/trace/ledger.py: the curve of the best feasible value, and what is *)
(* read off it for one ledger and for a ledger against a reference.        *)
(*                                                                         *)
(* A row is a record of a value, a positive number, and of whether a       *)
(* constraint refused it.  A share or a ratio is the pair of its terms.    *)
(***************************************************************************)
EXTENDS Integers, Sequences, FiniteSets

None == 0              \* Python's None, which no value and no count is

\* The best feasible value after each row, None until the first feasible one.
BestSoFar(rows) ==
  LET best[n \in 0..Len(rows)] ==
        IF n = 0 THEN None
        ELSE IF ~rows[n].refused /\ rows[n].value > best[n - 1]
               THEN rows[n].value
               ELSE best[n - 1]
  IN  [n \in 1..Len(rows) |-> best[n]]

Final(rows) == IF rows = <<>> THEN None ELSE BestSoFar(rows)[Len(rows)]

First(S) == CHOOSE n \in S : \A m \in S : n <= m
Last(S) == CHOOSE n \in S : \A m \in S : n >= m

\* Faulty variant: the target must be beaten.
Beats(value, target) == value > target

Meets(value, target) == value >= target

\* How many rows it took to reach the target.
EvaluationsTo(rows, target) ==
  LET curve == BestSoFar(rows)
      there == {n \in DOMAIN rows : curve[n] # None /\ Meets(curve[n], target)}
  IN  IF there = {} THEN None ELSE First(there)

\* The rows that raised the best so far.
Gains(rows) ==
  LET curve == BestSoFar(rows)
  IN  {n \in DOMAIN rows : curve[n] # None /\ (n = 1 \/ curve[n] # curve[n - 1])}

\* The last gain, if at least window rows follow it.
Plateau(rows, window) ==
  IF Gains(rows) = {} \/ Len(rows) - Last(Gains(rows)) < window
    THEN None ELSE Last(Gains(rows))

\* The rows after the first that did not raise the best, of those rows.
WastedShare(rows) ==
  LET curve == BestSoFar(rows)
  IN  IF Len(rows) < 2 THEN <<0, 1>>
      ELSE <<Cardinality({n \in 2..Len(rows) : curve[n] = curve[n - 1]}), Len(rows) - 1>>

FeasibleRate(rows) ==
  IF rows = <<>> THEN <<0, 1>>
  ELSE <<Cardinality({n \in DOMAIN rows : ~rows[n].refused}), Len(rows)>>

\* The reference's rows over the rows this ledger needed to reach its final value.
EqualQualitySpeedup(fast, slow) ==
  LET needed == EvaluationsTo(fast, Final(slow))
  IN  IF Final(slow) = None \/ needed = None THEN <<None, 1>> ELSE <<Len(slow), needed>>

ConvergenceSpeedup(fast, slow, window) ==
  IF None \in {Plateau(fast, window), Plateau(slow, window)} THEN <<None, 1>>
  ELSE <<Plateau(slow, window), Plateau(fast, window)>>

\* A ledger's line of the report, read against the reference.
Line(rows, slow, isReference, window) ==
  [final        |-> Final(rows),
   evaluations  |-> Len(rows),
   toReference  |-> IF Final(slow) = None THEN None ELSE EvaluationsTo(rows, Final(slow)),
   plateau      |-> Plateau(rows, window),
   wasted       |-> WastedShare(rows),
   feasible     |-> FeasibleRate(rows),
   equalQuality |-> IF isReference THEN <<1, 1>> ELSE EqualQualitySpeedup(rows, slow),
   convergence  |-> IF isReference THEN <<1, 1>> ELSE ConvergenceSpeedup(rows, slow, window)]
=============================================================================
