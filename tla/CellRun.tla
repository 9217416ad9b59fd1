------------------------------ MODULE CellRun ------------------------------
(***************************************************************************)
(* One cell of the experiment, council_loop/search.py:run_cell: a driver   *)
(* submits its runs to a pool of processes, collects them in order, and    *)
(* rewrites the report after each; council_loop/ledgers.py scores the      *)
(* report afterwards.  A run decides the stock design first, by measuring  *)
(* its way down a ladder of shrunk last levels (suite.py:make_suite_problem), *)
(* with a result table that the runs share; then its arm searches.         *)
(*                                                                         *)
(* The cell has one workload, so one table.  A store is one step           *)
(* (ResultTable has its parts), and so is an arm (AnytimeSearch).          *)
(***************************************************************************)
EXTENDS EvaluationLedger

CONSTANTS
  Run,            \* the runs: an arm and a seed each
  Order,          \* the runs in the order they are submitted
  MaxParallel,    \* PARALLEL_RUNS
  Sets, Ways,     \* the last level's shapes in the space
  StockShape,     \* the shape the chip ships with
  Characterised,  \* the shapes CACTI has numbers of
  Fitting,        \* those whose design keeps the order and the shape's caps
  PowerCap,
  Draw,           \* Draw[r]: what the design of shape r draws
  OldDraw,        \* OldDraw[r]: what a row of an older simulator makes of it
  Broken,         \* the shapes whose build or simulation fails
  History,        \* the rows an arm may report
  Window,         \* the scorer's plateau window
  MaxDeaths,      \* how many processes may die, at most
  Nothing         \* no shape, no history and no report

VARIABLES
  place,          \* place[j]: where run j is
  shape,          \* shape[j]: the rung run j considers
  stock,          \* stock[j]: the shape it decided for
  copy,           \* copy[j]: its copy of the table
  result,         \* result[j]: what it returned
  table,          \* table[r]: the row of the rung of shape r
  stale,          \* the rungs whose row an older simulator wrote
  driver,         \* what the driver does
  next,           \* how many runs it has submitted, then collected
  runs, failed,   \* the report it holds: results, and the runs that failed
  content, file,  \* the report's file: missing, torn or whole, and what was written
  scores,         \* what the scorer read off the file
  deaths

jobs == <<place, shape, stock, copy, result>>
report == <<driver, next, runs, failed, content, file>>
vars == <<jobs, table, stale, report, scores, deaths>>

-----------------------------------------------------------------------------
(***************************************************************************)
(* The ladder: the chip's own hierarchy, then fewer sets a rung at a time, *)
(* then fewer ways at the fewest sets.                                     *)
(***************************************************************************)

FewestSets == {s \in Sets : s <= StockShape[1] /\ \A x \in Sets : s <= x}

Rungs ==
  {<<s, StockShape[2]>> : s \in {x \in Sets : x <= StockShape[1]}}
    \cup {<<s, w>> : s \in FewestSets, w \in {x \in Ways : x <= StockShape[2]}}

Above(q, r) == q # r /\ q[1] >= r[1] /\ q[2] >= r[2]

Below(r) == {q \in Rungs : Above(r, q)}

IsNext(r, q) == q \in Below(r) /\ \A m \in Below(r) : m # q => Above(q, m)

ASSUME CellAssumption ==
  /\ Order \in Seq(Run) /\ \A j \in Run : \E i \in 1..Len(Order) : Order[i] = j
  /\ \A i, k \in 1..Len(Order) : Order[i] = Order[k] => i = k
  /\ MaxParallel \in Nat \ {0} /\ MaxDeaths \in Nat /\ Window \in Nat
  /\ Sets \subseteq Nat /\ Ways \subseteq Nat /\ StockShape \in Sets \X Ways
  /\ IsFiniteSet(Sets) /\ IsFiniteSet(Ways)
  /\ PowerCap \in Nat /\ Draw \in [Rungs -> Nat] /\ OldDraw \in [Rungs -> Nat]
  /\ History \subseteq Seq([value : Nat \ {0}, refused : BOOLEAN])
  /\ \A h \in History : h # <<>> /\ ~h[1].refused        \* the stock first, which no cap refuses
  /\ Nothing \notin History /\ Nothing \notin Rungs

Row == {"none", "old", "row", "null"}

\* A table that truthful runs, of this and of older simulators, left behind.
TableOk(t) ==
  \A r \in Rungs :
    /\ t[r] = "row" => r \notin Broken
    /\ t[r] = "null" => r \in Broken
    /\ t[r] # "none" => r \in Characterised

Init ==
  /\ place = [j \in Run |-> "unsent"]
  /\ shape = [j \in Run |-> StockShape]
  /\ stock = [j \in Run |-> Nothing]
  /\ copy = [j \in Run |-> [r \in Rungs |-> "none"]]
  /\ result = [j \in Run |-> Nothing]
  /\ table \in {t \in [Rungs -> Row] : TableOk(t)}
  /\ stale = {r \in Rungs : table[r] = "old"}
  /\ driver = "submit" /\ next = 0
  /\ runs = [j \in Run |-> Nothing] /\ failed = {}
  /\ content = "missing" /\ file = [runs |-> runs, failed |-> failed]
  /\ scores = Nothing
  /\ deaths = 0

Goto(j, where) == place' = [place EXCEPT ![j] = where]

-----------------------------------------------------------------------------
(***************************************************************************)
(* A run decides its stock (shrunk_to_fit, drawn).                         *)
(***************************************************************************)

Active == {j \in Run : place[j] \in {"rung", "measuring", "stock", "arm"}}

\* A worker of the pool takes the run submitted first, and loads the table.
Start(j) ==
  /\ place[j] = "queued" /\ driver # "dead"
  /\ Cardinality(Active) < MaxParallel
  /\ \A i, k \in 1..Len(Order) : (k < i /\ Order[i] = j) => place[Order[k]] # "queued"
  /\ Goto(j, "rung")
  /\ copy' = [copy EXCEPT ![j] = table]
  /\ UNCHANGED <<shape, stock, result, table, stale, scores, deaths>>
  /\ UNCHANGED report

\* A row with metrics is read as it is, whoever wrote it.
Known(j) == copy[j][shape[j]] \in {"row", "old"}
Reads(j) == IF copy[j][shape[j]] = "old" THEN OldDraw[shape[j]] ELSE Draw[shape[j]]

\* Faulty variant: the shape alone decides.
NeverOver(j) == FALSE

Overdrawn(j) == Reads(j) > PowerCap

\* The next rung down; below the last one shrunk_to_fit raises.
StepDown(j) ==
  /\ place[j] = "rung" /\ shape[j] \in Characterised
  /\ shape[j] \notin Fitting \/ (Known(j) /\ Overdrawn(j))
  /\ \/ \E r \in Rungs :
          /\ IsNext(shape[j], r)
          /\ shape' = [shape EXCEPT ![j] = r]
          /\ UNCHANGED place
     \/ /\ Below(shape[j]) = {}
        /\ Goto(j, "failed")
        /\ UNCHANGED shape
  /\ UNCHANGED <<stock, copy, result, table, stale, scores, deaths>>
  /\ UNCHANGED report

Decide(j) ==
  /\ place[j] = "rung" /\ shape[j] \in Characterised
  /\ shape[j] \in Fitting /\ Known(j) /\ ~Overdrawn(j)
  /\ stock' = [stock EXCEPT ![j] = shape[j]]
  /\ Goto(j, "stock")
  /\ UNCHANGED <<shape, copy, result, table, stale, scores, deaths>>
  /\ UNCHANGED report

\* evaluate_many loads the table again.  A null row raises, a complete row
\* answers, anything else is simulated.
Evaluate(j, answered) ==
  /\ copy' = [copy EXCEPT ![j] = table]
  /\ LET row == table[shape[j]]
     IN  Goto(j, CASE row = "null" -> "failed" [] row = "row" -> answered [] OTHER -> "measuring")
  /\ UNCHANGED <<shape, stock, result, table, stale, scores, deaths>>
  /\ UNCHANGED report

\* A rung the copy does not hold is measured now.
MeasureRung(j) ==
  /\ place[j] = "rung" /\ shape[j] \in Characterised
  /\ shape[j] \in Fitting /\ ~Known(j)
  /\ Evaluate(j, "rung")

\* The arm measures the stock before anything else.
MeasureStock(j) == place[j] = "stock" /\ Evaluate(j, "arm")

\* A simulation ends and its row is stored; a crash stores a null row and ends
\* the run.
Measured(j) ==
  /\ place[j] = "measuring"
  /\ LET row == IF shape[j] \in Broken THEN "null" ELSE "row"
     IN  /\ table' = [table EXCEPT ![shape[j]] = row]
         /\ copy' = [copy EXCEPT ![j][shape[j]] = row]
         /\ Goto(j, CASE row = "null" -> "failed"
                      [] row = "row" /\ stock[j] = Nothing -> "rung"
                      [] OTHER -> "arm")
  /\ UNCHANGED <<shape, stock, result, stale, scores, deaths>>
  /\ UNCHANGED report

\* A simulation is killed, the arm raises, or a rung has no numbers to be held
\* against the caps: no row, and the run is lost.
Raise(j) ==
  /\ \/ place[j] \in {"measuring", "arm"}
     \/ place[j] = "rung" /\ shape[j] \notin Characterised
  /\ Goto(j, "failed")
  /\ UNCHANGED <<shape, stock, copy, result, table, stale, scores, deaths>>
  /\ UNCHANGED report

\* The arm returns what it measured, the stock first.
Return(j) ==
  /\ place[j] = "arm"
  /\ \E h \in History : result' = [result EXCEPT ![j] = h]
  /\ Goto(j, "done")
  /\ UNCHANGED <<shape, stock, copy, table, stale, scores, deaths>>
  /\ UNCHANGED report

-----------------------------------------------------------------------------
(***************************************************************************)
(* The driver.                                                             *)
(***************************************************************************)

\* A worker died with a run.
PoolIsBroken == \E j \in Run : place[j] = "broken"

\* A broken pool takes no more: submit raises out of run_cell.
Submit ==
  /\ driver = "submit" /\ next < Len(Order)
  /\ IF PoolIsBroken
       THEN driver' = "raised" /\ UNCHANGED <<next, place>>
       ELSE next' = next + 1 /\ Goto(Order[next + 1], "queued") /\ UNCHANGED driver
  /\ UNCHANGED <<shape, stock, copy, result, table, stale, runs, failed, content, file, scores, deaths>>

AllSubmitted ==
  /\ driver = "submit" /\ next = Len(Order)
  /\ driver' = "collect" /\ next' = 0
  /\ UNCHANGED <<jobs, table, stale, runs, failed, content, file, scores, deaths>>

\* Faulty variant: only a run that returned has ended.
OnlyDone(j) == place[j] = "done"

HasEnded(j) == place[j] \in {"done", "failed", "broken"}

\* Faulty variant: a failure is only printed.
NotReported(j) == failed

Reported(j) == failed \cup {j}

\* The next handle: a result is reported and the report written, a failure is
\* reported only.
Collect ==
  /\ driver = "collect" /\ next < Len(Order)
  /\ LET j == Order[next + 1]
     IN  /\ HasEnded(j)
         /\ \/ /\ place[j] = "done"
               /\ runs' = [runs EXCEPT ![j] = result[j]]
               /\ driver' = "write"
               /\ UNCHANGED failed
            \/ /\ place[j] # "done"
               /\ failed' = Reported(j)
               /\ UNCHANGED <<runs, driver>>
  /\ next' = next + 1
  /\ UNCHANGED <<jobs, table, stale, content, file, scores, deaths>>

\* The driver blocks on a handle whose run has not ended.
AwaitRun ==
  /\ driver = "collect" /\ next < Len(Order) /\ ~HasEnded(Order[next + 1])
  /\ UNCHANGED vars

\* The report is written once more, with the time it took.
Close ==
  /\ driver = "collect" /\ next = Len(Order)
  /\ driver' = "write" /\ next' = next + 1
  /\ UNCHANGED <<jobs, table, stale, runs, failed, content, file, scores, deaths>>

\* write_report: the file is truncated, then filled.
Truncate ==
  /\ driver = "write"
  /\ content' = "torn" /\ driver' = "fill"
  /\ UNCHANGED <<jobs, table, stale, next, runs, failed, file, scores, deaths>>

Fill ==
  /\ driver = "fill"
  /\ content' = "whole" /\ file' = [runs |-> runs, failed |-> failed]
  /\ driver' = IF next > Len(Order) THEN "finished" ELSE "collect"
  /\ UNCHANGED <<jobs, table, stale, next, runs, failed, scores, deaths>>

-----------------------------------------------------------------------------
(***************************************************************************)
(* Deaths, and the scorer.                                                 *)
(***************************************************************************)

\* A worker dies with its run; the pool breaks, and what has not ended fails.
WorkerDies ==
  /\ deaths < MaxDeaths /\ driver # "dead"
  /\ Active # {}
  /\ deaths' = deaths + 1
  /\ place' = [j \in Run |-> IF place[j] \in {"unsent", "done", "failed"} THEN place[j] ELSE "broken"]
  /\ UNCHANGED <<shape, stock, copy, result, table, stale, scores>>
  /\ UNCHANGED report

\* The driver dies: the report stays as it is, torn if it was being written.
DriverDies ==
  /\ deaths < MaxDeaths
  /\ driver \notin {"finished", "raised", "dead"}
  /\ driver' = "dead" /\ deaths' = deaths + 1
  /\ UNCHANGED <<jobs, table, stale, next, runs, failed, content, file, scores>>

HasStopped == driver \in {"finished", "raised", "dead"}

Ledgers == {j \in Run : file.runs[j] # Nothing}

\* ledgers.py rebuilds a ledger from each run of the report and reads them
\* against the longest.
Score ==
  /\ HasStopped /\ content = "whole" /\ Ledgers # {}
  /\ \E slow \in Ledgers :
       /\ \A j \in Ledgers : Len(file.runs[slow]) >= Len(file.runs[j])
       /\ scores' = [reference |-> slow,
                     lines |-> [j \in Ledgers |-> Line(file.runs[j], file.runs[slow], j = slow, Window)]]
  /\ UNCHANGED <<jobs, table, stale, report, deaths>>

RunStep(j) ==
  \/ Start(j) \/ StepDown(j) \/ Decide(j) \/ MeasureRung(j) \/ MeasureStock(j)
  \/ Measured(j) \/ Raise(j) \/ Return(j)

DriverStep == Submit \/ AllSubmitted \/ AwaitRun \/ Collect \/ Close \/ Truncate \/ Fill

Next ==
  \/ \E j \in Run : RunStep(j)
  \/ DriverStep
  \/ WorkerDies \/ DriverDies \/ Score
  \/ HasStopped /\ UNCHANGED vars

Spec == Init /\ [][Next]_vars

\* A run ends: its simulations run under a timeout, and its arm returns.
FairSpec == Spec /\ WF_vars(DriverStep) /\ \A j \in Run : WF_vars(RunStep(j))
=============================================================================
