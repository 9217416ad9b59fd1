# Verification of the cache-design council

TLA+ models of the program under `src/council_loop`, checked with TLC and, in
part, proved with TLAPS.  The program searches for a better cache hierarchy of a
chip: search *arms* (a council of language models, a random arm, model-based
arms) propose designs, a simulator (ChampSim) measures them, caps on silicon,
power and per-workload losses refuse some, and the best feasible design so far
is the *incumbent*.  What is hard to test in it is of two kinds: a long
sequential loop whose bookkeeping must stay consistent over many rounds, and
files that threads and processes share without a server.

- [1. Inventory](#1-inventory)
- [2. Modules](#2-modules)
- [3. From code to model](#3-from-code-to-model)
- [4. Runs](#4-runs)
- [5. Proofs](#5-proofs)
- [6. Disagreements between the code and its documentation](#6-disagreements-between-the-code-and-its-documentation)
- [7. Not modelled](#7-not-modelled)
- [8. Plan](#8-plan)

## 1. Inventory

Paths are under `src/council_loop`; `blocks` stands for `chia_blocks/chia`.

| component | source | state it keeps | operations |
|---|---|---|---|
| council search loop | `council.py` `search` and helpers | `history`, `by_name`, `rounds`, the plateau and empty-round counters, the wave being planned | opening, incumbent, statistician, analyst, repairs, specialists, fill, measure, judge |
| random arm | `search.py` `random_search` | the drawn list, the batch, `history` | sample distinct feasible designs, draw, send a batch, keep, drop, return |
| result table and batch measuring | `suite.py` `ChampSimProblem`, `make_suite_problem`, `search.py` `measure_batch` | a JSON file of rows per workload, a copy of it in each process, a pool of simulator threads | start a batch on every workload, look up, submit, wait, store a row, store a null row, retry one by one |
| binary cache | `simulate.py` `build_binary` | `champsim_bin/`, a lock beside each binary, a lock in each source tree, temporary files | look, lock, take a tree, build, publish, leave |
| simulation run | `simulate.py` `run_simulation`, statistics | none kept | run, classify how the simulator stopped, parse |
| spend cap | `blocks/trace/spend.py` `LLMSpend` | a JSON file of totals, a lock beside it | construct, charge, raise `SpendExhausted` |
| CACTI ladder | `chip.py` | a dictionary per process, a JSON file | characterise, store, energy, latency, area |
| design space | `space.py`, `socs.py` | none kept | membership, hierarchy, caps, random draws |
| model access | `analyst.py` | call log, usage totals, gate log, lazily made decider, gates and node | ask, log a call, log a gate |
| gates and deciders | `blocks/models/*.py` | usage of the last question | decide, gate a prompt, rate a call and log what came of it |
| evaluation ledger | `blocks/trace/ledger.py`, `ledgers.py` | a JSON-lines file | open, record, rebuild from a report or from a seed, report |
| experiment runner | `search.py` `run_cell`, `run_one`, `gate` | a report file, a process pool | submit runs, collect, write, score |
| assessment replica | `circt_assess.py` | answers and verdicts of a pass, the prompts under way, the collector of events | gate, submit all, wait in order, retry on a rate limit, stop the collector |
| reports, audits, demo | `report.py`, `audit.py`, `fidelity.py`, `demo.py` | none kept | read and print |

**How they interact.**  `run_cell` runs each arm and seed in a process of its
own.  An arm calls `measure_batch`, which calls `evaluate_many` of the suite
problem; that looks each design up in the result table and gives the missing
ones to a thread pool.  A pool thread calls `build_binary` and then
`run_simulation`.  The main thread stores the results it waits for, the pool
threads store null rows of designs that crash.  The processes meet in the file
system only: the result table, the binaries, the source trees, the CACTI
ladder, the usage log, the spend total.  Exclusion is by `flock`, whole files by
rename; the exceptions are where the findings are.

**Behaviours that are hard to test.**  A wave whose designs were chosen against
an incumbent that has moved; a tabu list that must cover every record of a
plateau; counters that must agree with the history after crashes; a batch of
which some simulations crash, some are killed and others run on unawaited;
two processes that load, edit and replace one file; a process that dies at any
point of such an edit; a pool smaller than the requests waiting for it; limits
met in the middle of a wave; a suite whose workloads fail one without the other; prompts
submitted together and awaited one by one.  `PROJECT.json` lists each at its line.

## 2. Modules

| module | what it is |
|---|---|
| `AnytimeSearch` | abstract: what any search arm promises to its cell |
| `CouncilSearch` | the council's loop |
| `CouncilProperties` | its properties, the refinement to `AnytimeSearch`, the inductive invariant |
| `CouncilProofs` | theorems about it |
| `MeasureBatch` | abstract: what `measure_batch` promises the arms |
| `RandomSearch` | the random arm with its sampler, the ledger rebuilt from its seed, their properties, the refinement to `AnytimeSearch` |
| `RandomProofs` | theorems about it |
| `BinaryStore` | abstract: a set of published binaries, requests served or refused |
| `BuildCache` | `build_binary` in threads of several processes |
| `BuildCacheProperties` | its properties, the refinement to `BinaryStore`, the inductive invariant |
| `BuildCacheProofs` | theorems about it, and about `SuiteBatch` |
| `ResultTable` | the result table, the pool and `measure_batch` in several processes |
| `ResultTableProperties` | its properties, the refinement to `MeasureBatch`, the inductive invariants |
| `ResultTableProofs` | theorems about it |
| `SuiteBatch` | one call over a suite of workloads, a table each, its properties, its refinement to `MeasureBatch` and its inductive invariant |
| `SpendCap` | the shared cap on spend, its properties and its inductive invariant |
| `SpendCapProofs` | theorems about it, and about `CirctAssess` |
| `CactiLadder` | the characterisations of cache shapes that processes share |
| `CactiLadderProperties` | its properties and its inductive invariant |
| `CactiLadderProofs` | theorems about it |
| `ModelAccess` | a prompt's gate, its calls and the logs they leave, in threads of several processes |
| `ModelAccessProperties` | its properties and its inductive invariant |
| `ModelAccessProofs` | theorems about it |
| `CallGate` | what a gate makes of a rating |
| `CirctAssess` | one pass of the assessment replica, its properties and its inductive invariant; extends `CallGate` |
| `DesignSpace` | the shapes a chip may be built with, the order of the levels, the budget |
| `EvaluationLedger` | the queries of a ledger: best so far, evaluations to a target, plateau, shares, the two speedups |
| `LedgerNode` | recording through the node from several workers |
| `CellRun` | the runs of a cell, the pool, the stock each decides, the report, the scorer; extends `EvaluationLedger` |
| `CellRunProperties` | its properties and its inductive invariant |
| `CellRunProofs` | theorems about it, one about `DesignSpace`, and two about `LedgerNode` |
| `MCCouncil`, `MCRandom`, `MCBuildCache`, `MCResultTable`, `MCSuiteBatch`, `MCSpendCap`, `MCCactiLadder`, `MCModelAccess`, `MCCirctAssess`, `MCLedgerNode`, `MCCellRun` | small instances; `MCCellRun` takes its ladder from an instance of `DesignSpace` |

**How they compose.**  The arms stand on `AnytimeSearch` above them, which the cell relies
on, and on `MeasureBatch` below, which the table implements for one workload and the suite
for several: `CouncilSearch` and `RandomSearch` implement the first, `ResultTable` and
`SuiteBatch` the second.  An arm keeps or drops each design of a batch as `MeasureBatch`
lets a call do, one after the other, as the order is what an arm sees of it.  `CellRun`
uses `EvaluationLedger` for its scores and `DesignSpace` for its ladder, `CirctAssess`
uses `CallGate`.

The operators called *Faulty variant* in a comment are used by no behaviour:
each is a plausible bug that replaces the definition after it to see a property
fail (`mutants` in `PROJECT.json`).

## 3. From code to model

### CouncilSearch

One behaviour is one call of `search` (`council.py:1845`).  `pc` walks the phases
of a round in the order of the code: statistician, analyst, repairs,
specialists, fill, measure, judge.  A design is a function on a few knobs; a
*landscape*, fixed at the start, says what the simulator answers for each
design: a score, the cap it breaks when measured, whether it runs.  The
surrogate's choice, the analyst's sheet and the specialists' answers are any
choice that the code's own filters let through: those filters (`IsCandidate`,
`Blocked`, `Proposals`, `Shrunk`, `Offer`) are the model.  The specialists run in
threads but only read shared state and are joined in `ORDER` before an answer is
used, so their interleaving cannot be observed and the model takes them in that
order.  The prompts are left out: they change what is answered, not what is
accepted.

A simulation ends in one of three ways: recorded (`Record`), crashed with a null
row (`DropCrashed`), or killed twice from outside and dropped without a row
(`DropInterrupted`).

### RandomSearch

The list is drawn once, with spares, by `random_feasible_designs` (`space.py:295-312`): the
generator returns any design (`Sample`, `Reject`), one that is within the chip's budgets
(`feasible`) and not in the list yet joins it, and the phase ends when the list is full
(`Sampled`).  Nothing bounds the draws, so with too few feasible designs it never ends.
The inner loop pops designs into a batch and skips the
stock; the batch is measured design by design as in `measure_batch`, and an empty
batch goes out too, as in the code.

`Rebuilt` is `from_random_seed` (`ledgers.py:92`): it samples the same list again, which
the same seed makes the same, and takes rows until the budget is full or a design has no
metrics on the first workload.  Both properties about it hold it against the run for every
set of runnable designs that other runs may have measured: it parts from the run at the first
design that was killed in the run and measured by another (`RebuiltUpToAKill`), so it is not
always a beginning of it (`RebuiltIsTheRun`, section 6).  That `evaluate` may raise for want
of another workload's row (`ledgers.py:121`) is left out: then there is no ledger.

### BuildCache

One thread is one call of `build_binary`.  The places of `pc` are the statements
between which another thread can run: the look without a lock, the binary's
lock, the second look, the polling over the trees, the third look, the remote
build, the temporary file, the rename, the two `finally` clauses.  Temporary
files are per binary and process, as their names are.  A crash is of a process:
the kernel releases its locks, its temporary files stay.  The remote build is
external and ends with its caller.

### ResultTable

One process is one run that measures one batch for one workload.  The main
thread (`pc`) asks for every design, waits for each simulation in order, stores
the rows it gets; a failure abandons the batch, whose other simulations go on,
and each design is asked for alone (`stage`).  A pool thread (`job`) simulates,
and writes a null row itself when the attempt raised an error that is no kill.
`known` is the process's copy of the table (`sweep_table`), `file` the file; a
writer loads under the lock, edits, and saves by rename.  A call loads the file
(`LoadTable`), makes that its copy (`TakeCopy`) and then tests the copy (`Ask`), three
steps between which the pool threads of the batch that failed put nulls into the copy
and, later, into the file.  An attempt fails when the design crashes the simulator, when
it is killed (`Killable`), or for a reason of its own, such as a build stopped by its
clock (`Unlucky`); the code takes the last for a crash.  Rows are `"row"`, `"null"`,
`"old"` (a row without every workload's or field's measurement, see `complete`) or none.
At the start the file is any table that tells the truth: a row of a design that runs, a
null row of one that crashes or that an error may have hit.  The pool threads of an
earlier batch of the same process are not modelled; those of its own first attempt are.
`save_table` renames a finished file, so a reader never sees a part of one, and
the retry in `load_table` never happens.

### MeasureBatch and SuiteBatch

`MeasureBatch` has one action, the return of a call, with its batch split in two.  `mayRun`
and `mayFail` overlap where a design may be killed: the answer is then either.

One behaviour of `SuiteBatch` is one `measure_batch` on a suite, `evaluate_many` of
`make_suite_problem` (`suite.py:335`).  `Ask` is `evaluate_many_async` of one workload's
holder; an error in it leaves running what this holder and those before it have started.
The answers are then awaited in the order of the code: for each design, each workload.
`OtherRun` is any other process that fills a hole of a table meanwhile; it cannot remove a
row.  The table's file protocol is one step here, so the copy and the file change together and no
reload falls between them: that window, and what it costs, is `ResultTable`'s.  The thread
pool has room for all: who waits for a thread is a question of `ResultTable`.
`IsCandidate` and `MeasuredDesigns` are what the arms read of the suite's copies.

### SpendCap

One process constructs `LLMSpend` (which creates the file when there is none),
then makes model calls and charges each.  The file is missing, torn (opened for
writing, not filled) or whole.  USD and tokens are one unit: both caps are the
same comparison on the same read.  `existed` says whether the file was there before
the run; it never changes.

### CactiLadder

One thread asks for a shape's time or area (`latency`, `area_mm2`) or for its energy
(`energy`).  `memory` is the dictionary `_ladder` of a process, `file` the JSON file; a
row is nothing, of two fields (`"old"`, written before energy was read) or of five
(`"full"`).  The file is read without a lock, and again under it before a store; a
store puts all the process holds over what the file held.  CACTI is external: it
characterises a shape or it does not.  The temporary file is named after the process
and written under the lock only, so it is part of the rename.  A shape stands for the
arrays CACTI is run on (`ArraysOf`): one when its ways are a power of two, else the two
that bracket it, and it has numbers when CACTI builds them all.

### ModelAccess

One thread is the analyst or a specialist of a run; it asks prompts one after another
(`ask`, `analyst.py:156`).  The places of `pc` follow a prompt: the gate, the call, the
totals (read under the lock, truncated, filled), the gate log, the parsing of the
answer, and again the call when the answer is not JSON.  `lastUsage` is the state of
the decider that the threads of a process share: whose question it answered last.  It is
read when the call is back, which another thread's question may precede.  A
gate that fails leaves the prompt ungated, with or without having been answered.
Tokens are not counted: a call is one unit, and `total` is the number of calls the
totals hold.  `rows`, the length of the call log, is appended to without a lock, as in
the code.  What a verdict cuts from the prompt is left out: it changes what is asked.

### CallGate and CirctAssess

`Consult` is the verdict of `CallGate.gate`: a probability is what the threshold makes of
it, and one the decider does not give counts as certain (`call_gate.py:42`).  One behaviour of
`CirctAssess` is one `run_pass`: the driver (`phase`, `at`) asks the gate about every issue and
submits a prompt for those it lets through, then collects them in order.  `prompt` is the
state of an issue's latest prompt on its worker, `attempt` the variable of the inner loop,
`answer` the issue whose answer the variable of that name holds, which survives the loop of
an issue.  `inFlight` are the events sent to the collector and not landed: `Finish` waits
for them, since the events of one sender arrive in order and the call that reads the
collector is sent last.  A prompt that raises, the gate, and the answer read before any is
bound end the pass (`failed`).

### DesignSpace

A shape is a pair of sets and ways, a hierarchy a shape of each of three levels.  What
`chip.py` says of a shape (area, leakage, latency, or that CACTI refuses it) is a constant,
in whole units.  `UsableSets` and `UsableWays` are `shape_ladder`: what some buildable
shape of the level uses.  Their product is the space of the level, as in the code, and may
hold a pair that no chip can be built with.  `WithinBudget` is for hierarchies whose shapes
have numbers; on others the code raises, and so does a run of `CellRun` (`Raise`).

### EvaluationLedger

A ledger is a sequence of rows with a value and a verdict.  The curve is a recursive
function over its prefixes, as `best_so_far` is a loop over the rows; 0 stands for `None`,
and the values are positive, as scores are.  `Line` is the record that `report` prints for
a ledger against the longest one.

### LedgerNode

One task is `LedgerNode.record` on a worker (`ledger.py:275`): it opens the ledger, which
reads the file, and records.  The append of a line is one short write and is one step.

### CellRun

One behaviour is one call of `run_cell` and the scoring of what it left.  `driver` and
`next` are the driver's place and how many handles it has submitted, then collected.  A
run (`place`) waits for a worker, walks down the ladder of rungs (`shape`, one `IsNext` at
a time), measures what it must, and lets its arm search.  `copy` is the run's copy of the
table, `table` the file; rows are as in `ResultTable`.  A row of an older simulator is
taken as a hit when the draw of a rung is read, and measured again when the rung is
evaluated, as in the code; `stale` remembers which rungs had such a row and nothing reads
it but a property.  A store is one step here and an arm is one step: `ResultTable` has the
parts of the first, and of the second `AnytimeSearch`, which both arms that are modelled
implement, says what it returns.  One workload and a chip with a power cap are modelled;
without the cap there is no ladder to walk.  What a rung draws is a constant.  A worker
is modelled dying while it has a run.  The driver's death leaves the report torn if
it fell between the truncation and the write.  The scorer rebuilds the ledgers from the
report; when two are longest, which is the reference follows the order of the file, and
the model takes either.

## 4. Runs

| run | what it asks | bounds |
|---|---|---|
| `council` | the bookkeeping of the loop; does it end and within what bound; does it implement an arm | two knobs, eight designs of which six fit; three landscapes; a wave of 2; budget 4; four rounds |
| `random` | what the random arm measures; how far its ledger is rebuilt from its seed; does it end; does it implement an arm | six designs, the stock among them, of which three, four or five are feasible, every list of four, every set of runnable designs, one that may be killed, a budget of 2, two spares, a batch larger than the budget |
| `build_cache` | exclusion and whole files; does every request end; does it implement the store | three threads, two processes, three binaries, two trees, one death |
| `result_table` | what may happen to a row; is an answer stored; is a kill blamed or a crash forgotten; does each call implement `MeasureBatch`; does every batch end | two processes, one wanting two designs and one the second of them, two pool threads, one design that may be killed and one that an error of the machine may hit, one death, every truthful table at the start |
| `suite` | is what a suite keeps on disk for every workload; is a crash on one of them known; does the call implement `MeasureBatch` | two designs on two workloads, every set of pairs that run, one design that may be killed, one old row, another run, simulating or not |
| `spend` | are the charges kept and the cap respected; does every loop stop | three processes of two calls of one or two units, a cap of 3, one death, the file there before or not |
| `cacti` | is an entry lost; is what CACTI was run for stored | two threads of one process, one of another, three shapes of which one needs two arrays and one needs an array CACTI refuses, two ladders to start from, one request each, one death |
| `access` | do the totals count the calls; is an answer thrown away without a death; does every prompt end | two specialists of one run and the analyst of another, one prompt each of at most two calls, one death |
| `circt` | is a verdict its own issue's; does the log hold every event; does the pass end | three issues, gated or not, two waits for a prompt that answers, is rate-limited or fails |
| `cell` | do the runs share a stock; is every run in the report once; do the scores follow from what the runs returned; does the cell end | three runs in a pool of two, five rungs (over the silicon, drawing too much, fitting, crashing, without numbers), every table that may be left behind, two histories to return, one death |

`council_repair` and `ledger_node` expect a violation and are in section 6.

**Why the bounds are enough.**  The council's instance has an incumbent that
moves, two caps that refuse, a design that crashes, one that may be killed,
two equal designs, a proposal of every source at once and a wave smaller than the
number of proposers; four rounds are two rounds on one incumbent before and
after a move.  The random arm's lists contain the stock early, late or not at
all, and more failures than spares; three feasible designs are too few for its list.  Two
workloads let one fail where the other answers, before or after it in the suite's order,
and two designs let a failure strike what another design has under way; a third of either
repeats a case.  In the pass, three issues put one between the issue whose answer is used
and the one it is used for, and two waits are a first and a last one.  In the file protocols two processes and a
third thread give every pair of concurrent edits plus one that waits; one death
can fall between any two steps, and the bound `MaxCrashes` only keeps the number
of states finite; the theorems of section 5 have no such bound.  In the cell three runs and two
workers make one run wait for another's end, each rung ends the walk in another way, and
the second history has a refused row and a tie.  `MaxRounds` is the code's own cap (`max_rounds`), `Calls`
bounds how long a spend loop is.

**Fairness.**  `CouncilSearch` and `RandomSearch` are one sequential process:
weak fairness of the step.  For the random arm that includes its sampler: a uniform generator
that has a fresh feasible design left to find is assumed to find one.  In the file protocols each thread is scheduled by the
operating system: weak fairness of the thread's step.  A `flock` queue that a
thread could lose for ever would need strong fairness; it is not assumed, because
each holder makes finitely many requests.  A simulation, a remote build
and a call of the model end because the code runs them under a timeout (and the call
under a bounded number of retries).  In `CellRun` a run's step is fair as well: its
simulations are under a timeout, and its arm returns where `Termination` and
`EndsWhenSparesSuffice` say so (a random arm with too few spares does not, see section 6).  In `CirctAssess` the driver runs, a prompt ends by its own timeout, and a sent event
arrives.  `SuiteBatch`, the ladder's run and the node's ask for safety only and assume
no fairness.  Deaths and kills are never fair.

**What the properties say** is written above each in the modules.  The ones worth
reading first: `NoMoveProposedTwice`, `PlateauCountExact`, `RecordNamesIncumbent`
(council), `SameSequenceWhateverBatch` and `RebuiltUpToAKill` (random arm), `ServedFindsBinary` and
`NeverRebuilt` (binary cache), `SettledForGood`, `CrashIsNotForgotten` and `ImplementsMeasureBatch` (table), `CrashAnywhereIsKnown` (suite),
`NoChargeLost` and `OverspendBounded` (spend), `NoEntryLost` and `PaidForIsStored`
(ladder), `TotalsCountTheRows` and `WastedOnlyAfterDeath` (model access), `VerdictIsOwn` (assessment), `StockIsFirstFit` and
`EveryRunReported` (cell).

## 5. Proofs

All theorems hold for every value of the constants that satisfies the module's
named assumptions, so for any number of designs, processes, threads or deaths.

- **CouncilProofs.**  `IInv` adds to the types where the indices point
  (`IndicesInRange`), that at most one empty round precedes a search that goes on,
  and `RoomLeft`: the designs measured plus those the wave may still send stay
  under the bound.  Without the last, `OvershootBounded` is not inductive, since the
  guard that limits it is read a whole wave before the designs are recorded.
  From `IInv`: `TypeCorrect`, `EvaluatedOnce`, `BoundOnDesigns`, and `Refinement`,
  that every behaviour is one of `AnytimeSearch`.  What relates one round to another
  follows from a second invariant, `RoundInv`: the history is in the order of the rounds
  (`RoundsInOrder`), a wave's entries in the order the wave first asked for them
  (`WaveInOrder`), and a round stands on the best that was measured before it
  (`StandsOnTheBest`).  The order within a wave matters since of two equal best designs
  the first is the incumbent, and the round must have named that one.  A round that
  included a design is never stood on again (`MovedOn`), so the rounds of a stall are
  those the tabu remembers, and what this round's members asked for is in none of them
  (`AskedAnew`).  From it: `PlateauIsExact`, `RecordIsTheIncumbent`, `TabuHolds`.
- **RandomProofs.**  `IInv` says that the sampler puts no design into the list twice
  (`DrawnOnce`), and that batch and history come from the part of the
  list already popped and do not meet (`FromThePool`): the next design popped is
  then new to both.  From it: `WithinBudget`, `EvaluatedOnce`, `Refinement`.  `OrderInv`
  adds the order: history and batch each follow the list, the batch comes after the history,
  and a popped design that can be measured is in one of them (`NoneIsLost`).
  `SameSequenceWhateverBatch` says the order by positions in the list and in the history,
  not by filtering sequences, and so needs no induction over them: `TheSeedFixesTheOrder`.
  `TheSeedRebuildsTheRun` compares the rebuilt ledger with the history row by row.  At the
  first row where they part, the run had popped the rebuilt row's design and measured it
  nowhere earlier, so had lost it, and the table has it only when the loss was a kill: all
  rows before the first such design are the run's, with no assumption on what others measured.
- **BuildCacheProofs.**  `IInv` says who is inside a critical section is the holder
  its lock names, what a temporary file holds at each place, and that a published
  name is whole.  From it: exclusion, `NothingHalfWritten`, `AnswersAreThere`,
  `BuiltOnce`, and `Refinement` to `BinaryStore`, where a death is an abandoned
  build or a stutter.
- **ResultTableProofs.**  `IInv` says that a writer between its load and its save
  holds the lock and its draft *is* the file (`LoadedIsFile`), that every row, in
  the file, in a copy or on its way there, tells the truth (`RowsAreTrue`), and that a row
  a call has loaded and will answer from is on file still (`CopiedRowsAreOnFile`).  From it:
  `LossesAreFailures`, `KillsAreForgiven`, `NothingIsUndone`, `AnswersAreKept`.  The last two
  say nothing of the designs in `Unlucky`, whose row a late error may replace by a null
  (section 6); no theorem assumes that there are none.  `CrashInv`, behind
  `CrashesAreStored`, says that a simulation is submitted once (`JobsAreNew`), so that no
  thread that is to store a null is replaced by another, and that a null of a design that
  cannot run, wherever it was read, is in the file or on its way there (`NullsAreStored`).
    `Refinement`, that each
  call implements `MeasureBatch`, rests on a second invariant, `CallInv`: the designs behind
  a call's place are kept or dropped, once each (`AccountedFor`), and a position without a
  simulation has a design that ran (`NoJobMeansRan`).  Without the latter a kept design
  need not have run; the file does not say so, since the null row of a later error may have replaced the row by then.
- **SpendCapProofs.**  `IInv` says that, when the file was there before the run,
  a process between its read and its write holds the lock and knows the total.
  `ChargesAddUp`, `CapIsKept` and `OverspendIsBounded` are stated for such runs
  (`existed`); for the others the first is false, as section 6 says.  The last rests on an
  account (`BilledIsAccounted`): what was billed and not charged is owed by a process, at
  most one call each, or was lost with one that died, at most one call a death.  The sum
  over the processes is a function on their sets that adds up one process at a time, so that a
  step of one process changes it by what that process owes.  The dearest call exists
  (`SpendAssumption`) because the program limits the length of an answer
  (`vertex_json.py:43`).
- **CactiLadderProofs.**  `IInv` says that who is between the load and the rename
  holds the lock and has the file in hand (`DraftsCoverTheFile`), and that what was read
  without the lock is still there.  From it: `EntriesStay`, `PaidForStays`.  Which of two rows
  of one shape is in the dictionary is not settled: section 6.
- **ModelAccessProofs.**  `IInv` says that who books a call holds the lock and knows the
  total (`BookingHoldsTheLock`), that the rows written are those counted, those being
  booked and those lost (`CallsAddUp`, which unlike the property also holds while the
  file is torn), and how many gate rows a prompt has at each place (`GateRowsSoFar`).
  From it: `TotalsAddUp`, `NothingWasted`, `GateLogIsComplete`.
- **The pass (SpendCapProofs, at the end).**
  `PassInv` says how many prompts an issue has had by the driver's place (`Asking`,
  `Collected`) and which events have been sent by then (`Sent`), landed or not; the
  collector's end adds that none is under way.  From it: `VerdictsAreOwn`, `EveryEventLands`.
- **The suite (BuildCacheProofs, at the end).**  `SuiteInv` says that a row in a copy that is
  of this simulator is in the file (`TablesAreTrue`), that what was asked for has a row or a job of this stage
  (`AskedAreCovered`, up to the holder whose turn it is), and that the designs behind the
  call's place are kept or dropped (`PastIsSettled`).  `AskedAreCovered` is what makes an
  answer without a job a row, also for a workload whose table was loaded long before.  From
  it: `KeptOnEveryWorkload`, `CrashesAreKnownAnywhere`, `SuiteRefinement`.
- **CellRunProofs.**  The ladder is total under `Above` (`LadderIsTotal`), so one rung at
  most is the first to fit (`FirstFitIsUnique`).  `IInv` says that every rung above the one
  a run considers was rightly refused (`LargerRungsRefused`), unless an older row spoke for
  one, that every row tells the truth, and that the runs already collected are held by the
  driver, once each (`CollectedIsHeld`).  From it: `StockIsRight`, `ReportIsComplete`.
  `ScoresAreRight` needs one fact of the state, that the scores were taken from the report
  there is against one of its longest ledgers (`ScoresAreOfTheReport`); the rest is about
  the curve.  `BestSoFar` is a recursive function, and the library's induction theorems take
  an operator, which no prover here instantiates: that the function exists, and that its
  value is the best of the rows so far, is proved by a least counterexample instead
  (`LeastNatural`, from the library's well-foundedness of `<`).  It assumes of an arm's
  history what the arms do (`CellAssumption`): the stock comes first and no cap refuses it
  (`council.py:1726`, `search.py:224`).
  `NothingLegalIsDropped`, about `DesignSpace`, needs no state.  At the end, on an instance
  of `LedgerNode`: an index never points past its row (`IndicesAreNeverAhead`), and with one
  recorder it is the row's position (`OneRecorderKeepsOrder`), so the disorder of section 6
  takes a second recorder.

A type invariant is part of each `IInv`, so each `Invariance` theorem proves it; where a
module has one, a run checks what `IInv` implies and the proof settles `IInv` itself.
Some safety properties are proved and no longer have a run, as the theorem says more:
`OneRowPerGatedCall` (model access), `OnlyFailuresAreDropped` (table).

The theorems about the suite and the pass are guests of another component's proof module.
`SuiteBatch` and `CirctAssess` name their behaviour apart for that (`SuiteSpec`, `PassSpec`,
`phase`), and share nothing with their hosts; no proof of one part uses a fact of the other.
The node is taken by `INSTANCE` into `CellRunProofs`.

Only model-checked: the liveness properties (`Termination`, `EndsWhenSparesSuffice`,
`EveryRequestEnds`, `BatchEnds`, `EveryLoopStops`, `EveryPromptEnds`, `PassEnds`, `CellEnds`),
as fairness and ENABLED are out of the prover's reach.  Every invariant, action property and
refinement that a passing run checks is also a theorem.

## 6. Disagreements between the code and its documentation

Two are runs that expect a property to fail, with the sentence it contradicts in
`PROJECT.json`.

| run | what happens |
|---|---|
| `council_repair` | a repair fitted on last round's base is put on this round's incumbent and measured without being checked: it may break the silicon cap or the hierarchy (`council.py:1969-1973` against `council.py:991-992`) |
| `ledger_node` | two workers record through the node at once: two rows get one index, and the later indices are off their positions for good (`ledger.py:49` against `ledger.py:32` and `266-267`) |

The others are properties that the modules state and no run lists, since they are false of
the code.  TLC refutes each in seconds as soon as it is named in the configuration of the
run in the second column.

| property | run | the sentence it states | what happens |
|---|---|---|---|
| `NothingLeftWhenGivenUp` | `council` | "a second empty round in a row means nothing is left to measure" (`council.py:1992-1993`) | two waves whose designs all crash or are killed count as two empty rounds (`council.py:1990-1994`), and the search stops with runnable one-knob moves of the incumbent unmeasured |
| `EndsWhateverFails` | `random` | "drop whatever still fails: the budget counts designs that produced a measurement" (`search.py:194-195`) | with more failures than spares the arm sends empty batches for ever (`search.py:229-236`) |
| `RebuiltIsTheRun` | `random` | "the seed fixes the draws, the table holds every measurement, so the ledger needs no report and no log" (`ledgers.py:93-94`) | any row with metrics counts as the run's (`ledgers.py:116-117`): a design killed in the run and measured since by another is put into the ledger, and the last one the run measured is left out |
| `BlameIsDeserved` | `result_table` | "A kill from outside or the clock: the design is not to blame and the table must not remember it as a crash" (`simulate.py:116-117`) | the clock of a build (`simulate.py:273`), like any other error of the machine, is no `SimulatorInterrupted`: it leaves a null row (`suite.py:210-211`), and no run tries the design again |
| `CrashesAreKnown` | `result_table` | "Any design the loop may run: in the space, inside the budget, not crashed anywhere" (`suite.py:320`) | a run loads the table, a pool thread of its failed batch puts a null into the copy (`suite.py:190`) and has not saved it (`195`), the copy is tested and the design dropped; the next reload (`161`) loses the null from the copy, and the design is offered again |
| `EnergyIsInTheRow` | `cacti` | "An entry cached before energy was read carries two fields and is characterised again" (`chip.py:307`) | the threads of a process share `_ladder` without a lock: one that has read the old file puts the old row back (`chip.py:265-266`) between another's store (`311`) and its read (`312`), which then raises |
| `UsageIsOwn` | `access` | "the decider's own usage" beside the gate's verdict (`context_gate.py:160-162`, `analyst.py:122`) | the specialists' threads share one decider (`council.py:1920`), whose usage is read when the call is back (`analyst.py:128`): a row may carry the usage of another specialist's question |
| `OneCapForAll` | `spend` | "the processes of one run share one cap" (`spend.py:169`) | two processes find no file, and the second to create it, outside the lock (`spend.py:176-181`), empties it after the first has charged |
| `VerdictIsOfItsIssue` | `circt` | "the replica waits and asks again" (`circt_assess.py:96`) and compares its verdicts with the paper's (`8`) | after six rate limits the loop goes on with the answer of the issue before (`circt_assess.py:97-104`), and the prompt asked last is never waited for |

Most have a counterpart that holds and is checked.  `EndsWhenSparesSuffice` excepts
the lists with more losses than spares (`TooManyLost`) and the chips with fewer feasible
designs than the list asks for (`TooFewFeasible`), for which the sampler draws for ever
(`space.py:301`); `RebuiltUpToAKill` says up to where the rebuilt ledger is the run's;
`KillsAreNotBlamed` and `CrashIsNotForgotten` say which null rows there are and which there
must be; `PaidForIsStored` and `NoEntryLost` say what of a shape is kept; `NoChargeLost` is for
runs that find the file (`existed`); `VerdictIsOwn` lets the six limits be the only way to a
foreign verdict.  `SettledForGood` and `AnswersAreStored` say nothing of the designs in
`Unlucky`: the null row of a late error replaces the row another run has stored.

More are visible in runs that pass, so no run is spent on them: the last
wave takes a council past its budget, by less than a wave (`OvershootBounded`), although
`search.py:7` has each arm measure its budget; and the call whose charge is refused was
already billed (`OverspendBounded`), although `spend.py:168` has a loop stop before it
overspends; and a store of the ladder may put a row of two fields back over a full one
(`Merged` in `CactiLadder`): no entry is lost, as `chip.py:282` says, but what is in it
may be, and CACTI runs once more.  A
death between the truncation and the write of a total leaves an empty file: every
later charge of the spend cap fails (`content` is torn in `SpendCap`, `spend.py:180`),
and every later answer of the model is thrown away by `log_cost` after it was paid for
(`LoadFails` in `ModelAccess`, `analyst.py:213`).

Some were met in reading and in traces, without a run of their own:

- When no issue before has an answer, six rate limits end the pass (`NoAnswerYet`).  Any other
  exception of one prompt loses every answer of the pass, since they are written at its end
  (`PromptRaises`).
- `from_random_seed` ends the ledger at a design without metrics, a crash too, where the
  run dropped it and went on: the ledger is shorter than the run, which `ledgers.py:93-96`
  does not mention.  A row of an older simulator passes the look
  (`ledgers.py:116`) and then raises in `evaluate` (`ledgers.py:121`).
- `measured_designs` takes rows of an older simulator for measured (`suite.py:404`), though
  `suite.py:104-108` calls such a row a miss (`MeasuredDesigns` in `SuiteBatch`).
- A proposal that finds the wave full is logged as held: `log_skip` is given the wave
  (`council.py:1985-1988`), and `council.py:512-513` has it say what the specialist did.
- The events of the gates carry `decider_input_tokens`, and the spend view skips an event
  without `input_tokens` (`spend.py:60`): what a decider spends is in no table.
- `suite.py:307-308` takes any row with metrics for the draw of a rung, an older simulator's
  too, though `suite.py:104-108` calls such a row a miss and `suite.py:301-303` has every run
  decide the same stock.  A run that reads the old row and one that reads the new one can
  stand on different stocks; `StockIsFirstFit` excepts the rungs in `stale` for this reason.
- A rung that crashes fails every run of the cell, though a lower one may fit
  (`suite.py:309`, `suite.py:164-165`): `Evaluate` sends a null row to `"failed"`.
- `submit` on a pool that is broken raises out of `run_cell` before any report is written
  (`Submit`), whatever the other runs did.
- `report` gives the reference ledger a speedup of 1 (`ledger.py:232`); the equal-quality
  speedup of a ledger against itself is more when its best came before its end.
- `shape_ladder` says that the stock's associativity is always kept and the stock always
  inside the space (`space.py:54-56`); a stock that breaks a cap on one level, or that CACTI
  refuses, is not.  `stock_design` then refuses to start (`StockIsInSpace`).

## 7. Not modelled

- Floating-point arithmetic: CACTI's interpolation, power and area of a shape, expected
  improvement and the forest, a suite's metrics, the ranks and their agreement
  (`ranks`, `rank_agreement`).  What is decided from it is a constant or any choice.
- Text: prompts, configurations, logs, Markdown, the parsing of records
  (`ledgers.py` from logs and transcripts), the issues of the assessment.
- `report.py`, `audit.py`, `fidelity.py`, `demo.py`, the sums of `spend_summary` and the
  preview and gate commands of `search.py`: they read what is finished, keep no state and
  take no part in an interleaving.  `gate` measures a sample through `measure_batch`.
- Remote services behind one call: the compiler, the simulator, the models, CACTI.  A remote
  build that outlives the caller that died would go on in a tree whose lock the kernel
  has given back; whether the task system cancels it is decided outside this repository, and
  `BuildCache` has it end with its caller.
- Data, patches of other repositories, the paper.

The other parts are listed with their reasons in `PROJECT.json`.

## 8. Plan

Done, in this order: the council (the system's core behaviour), the random arm
as a second implementation of the same promise, the binary cache and the result
table (the two shared stores every arm measures through), the spend cap, the ladder of
characterisations, the access to the model, the cell that runs the arms with its stock, its
report and its scores; then the promise of `measure_batch` with its two implementations, the
suite of several workloads, the random arm's sampler and rebuilt ledger, the assessment
with its gate, and recording through the ledger's node.

Then the proofs: the council's rounds, the accounts of the spend cap, the crashes of the
table, the order of the random arm, the scores of a cell, the suite and the pass.

Next: the facts that the liveness properties stand on and that are safety, such as the measure
a call or a pass decreases; the parts of `AnytimeSearch` that `CellRun` relies on, as theorems
of the abstract module.
