------------------------- MODULE CellRunProperties -------------------------
(***************************************************************************)
(* What CellRun must keep to, and the inductive invariant of CellRunProofs.  *)
(***************************************************************************)
EXTENDS CellRun

\* Every variable has its type (search.py:311-365, suite.py:263-317).
TypeOK ==
  /\ place \in [Run -> {"unsent", "queued", "rung", "measuring", "stock", "arm",
                        "done", "failed", "broken"}]
  /\ shape \in [Run -> Rungs] /\ stock \in [Run -> Rungs \cup {Nothing}]
  /\ copy \in [Run -> [Rungs -> Row]] /\ table \in [Rungs -> Row]
  /\ result \in [Run -> History \cup {Nothing}]
  /\ stale \subseteq Rungs
  /\ driver \in {"submit", "collect", "write", "fill", "finished", "raised", "dead"}
  /\ next \in 0..Len(Order) + 1
  /\ runs \in [Run -> History \cup {Nothing}] /\ failed \subseteq Run
  /\ content \in {"missing", "torn", "whole"}
  /\ file \in [runs : [Run -> History \cup {Nothing}], failed : SUBSET Run]
  /\ deaths \in Nat

\* "The first rung down the ladder that does" fit, for every run, whichever of
\* them measured a rung first (suite.py:264-268, 301-303): the stock a run
\* decided keeps the caps and every larger rung breaks one.  It need not when an
\* older simulator left a row of a rung looked at: such a row is read as it is.
Refused(r) == r \notin Fitting \/ Draw[r] > PowerCap
IsFirstFit(r) == ~Refused(r) /\ \A q \in Rungs : Above(q, r) => Refused(q)
StockIsFirstFit ==
  \A j \in Run :
    (stock[j] # Nothing /\ \A q \in stale : q # stock[j] /\ ~Above(q, stock[j]))
      => IsFirstFit(stock[j])

\* The report that is left when the cell ends has every run once, in its
\* results with what it returned or among the failures, whatever failed and
\* died; one that is written earlier has no result that was not returned; and
\* only a death keeps the cell from its end (search.py:342-358).
EveryRunReported ==
  /\ content = "whole" => \A j \in Run : file.runs[j] \in {Nothing, result[j]}
  /\ driver = "finished" =>
       /\ content = "whole"
       /\ \A j \in Run : (j \in file.failed) = (file.runs[j] = Nothing)
       /\ \A j \in Run : (j \in file.failed) = (result[j] = Nothing)
  /\ driver \in {"raised", "dead"} => deaths > 0

\* What the scorer reads off a ledger is what its rows say (ledger.py:73-145):
\* the final value is that of a feasible row that none exceeds, and was reached
\* at the last gain; the reference's final value was reached exactly when this
\* one is no less, and then, the reference being the longest, in no more
\* evaluations than the reference spent.
Feasible(rows) == {rows[n].value : n \in {m \in DOMAIN rows : ~rows[m].refused}}
ScoresReadTheRuns ==
  scores # Nothing => \A j \in Ledgers :
    LET rows == file.runs[j]
        line == scores.lines[j]
        target == scores.lines[scores.reference].final
    IN  /\ line.final \in Feasible(rows) /\ \A v \in Feasible(rows) : v <= line.final
        /\ EvaluationsTo(rows, line.final) = Plateau(rows, 0)
        /\ line.plateau \in {None, Plateau(rows, 0)}
        /\ (line.toReference # None) = (line.final >= target)
        /\ line.toReference # None => line.equalQuality[1] >= line.equalQuality[2]

\* The cell ends, unless something died.
CellEnds == <>HasStopped

-----------------------------------------------------------------------------
(***************************************************************************)
(* The inductive invariant of CellRunProofs.  What a run has left behind on *)
(* the ladder it has refused, unless an older row spoke for it; and what the *)
(* driver has collected it holds.                                          *)
(***************************************************************************)

OldRowsAreStale ==
  \A r \in Rungs : (table[r] = "old" \/ \E j \in Run : copy[j][r] = "old") => r \in stale

LargerRungsRefused ==
  \A j \in Run :
    (\A q \in stale : ~Above(q, shape[j])) => \A q \in Rungs : Above(q, shape[j]) => Refused(q)

StockIsTheRung ==
  \A j \in Run :
    /\ place[j] \in {"unsent", "queued", "rung"} => stock[j] = Nothing
    /\ stock[j] # Nothing => stock[j] = shape[j] /\ (shape[j] \notin stale => ~Refused(shape[j]))

ResultsAreOfTheDone ==
  \A j \in Run :
    /\ (place[j] = "done") = (result[j] # Nothing)
    /\ runs[j] \in {Nothing, result[j]} /\ file.runs[j] \in {Nothing, result[j]}
    /\ j \in failed => place[j] \in {"failed", "broken"}

CollectedIsHeld ==
  /\ driver = "submit" =>
       \A i \in 1..Len(Order) : i > next => place[Order[i]] = "unsent"
  /\ driver \in {"collect", "write", "fill", "finished"} =>
       \A i \in 1..Len(Order) : i <= next =>
         /\ HasEnded(Order[i])
         /\ place[Order[i]] = "done" => runs[Order[i]] = result[Order[i]]
         /\ place[Order[i]] # "done" => Order[i] \in failed
  /\ driver = "finished" =>
       next = Len(Order) + 1 /\ content = "whole" /\ file = [runs |-> runs, failed |-> failed]

DeathsAreCounted ==
  /\ driver \in {"raised", "dead"} => deaths > 0
  /\ \A j \in Run : place[j] = "broken" => deaths > 0

IInv ==
  /\ TypeOK /\ OldRowsAreStale /\ LargerRungsRefused /\ StockIsTheRung
  /\ ResultsAreOfTheDone /\ CollectedIsHeld /\ DeathsAreCounted

\* What ScoresReadTheRuns needs besides: the scores are of the report there is,
\* read against one of the longest runs, and nobody writes it any more.
ScoresAreOfTheReport ==
  scores # Nothing =>
    /\ HasStopped
    /\ \E slow \in Ledgers :
         /\ \A j \in Ledgers : Len(file.runs[slow]) >= Len(file.runs[j])
         /\ scores = [reference |-> slow,
                      lines |-> [j \in Ledgers |-> Line(file.runs[j], file.runs[slow], j = slow, Window)]]
=============================================================================
