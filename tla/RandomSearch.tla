----------------------------- MODULE RandomSearch -----------------------------
(***************************************************************************)
(* The random arm, council_loop/search.py:random_search: the stock, then a *)
(* list of budget + 20 distinct feasible designs sampled once (space.py:   *)
(* random_feasible_designs), then batches from that list.  A design the    *)
(* simulator cannot measure is dropped and the next of the list takes its  *)
(* place; when the list is empty nothing can.  Rebuilt is the ledger       *)
(* ledgers.py:from_random_seed makes of the same seed and a table.         *)
(***************************************************************************)
EXTENDS Integers, Sequences, FiniteSets

CONSTANTS
  Design,         \* the points of the search space, and the stock
  Stock,          \* the chip as it is
  Chips,          \* the sets of designs that may be within the chip's budgets
  Runs,           \* the sets of designs the simulator may be able to run
  Interruptible,  \* the designs whose simulation may be killed from outside
  Budget, Batch,
  Spares          \* 20: how many more are drawn than the budget asks for

ASSUME ArmAssumption ==
  /\ Stock \in Design
  /\ \A chip \in Chips : chip \subseteq Design
  /\ \A runs \in Runs : runs \subseteq Design /\ Stock \in runs
  /\ Interruptible \subseteq Design
  /\ Budget \in Nat /\ Spares \in Nat
  /\ Batch \in Nat \ {0}

VARIABLES
  feasible,   \* the designs within the chip's budgets
  drawn,      \* the list drawn from the seed
  runs,       \* the designs the simulator can run
  pc,
  popped,     \* how many of the list were popped off the pool
  batch,      \* knobs_list, the round's designs still to measure
  history     \* the designs measured, in order

vars == <<feasible, drawn, runs, pc, popped, batch, history>>

Measured == {history[i] : i \in DOMAIN history}

Init ==
  /\ feasible \in Chips
  /\ drawn = <<>>
  /\ runs \in Runs
  /\ pc = "stock"
  /\ popped = 0
  /\ batch = <<>>
  /\ history = <<>>

MeasureStock ==
  /\ pc = "stock"
  /\ history' = <<Stock>>
  /\ pc' = "sample"
  /\ UNCHANGED <<feasible, drawn, runs, popped, batch>>

InPool == {drawn[i] : i \in DOMAIN drawn}

IsFresh(knobs) == knobs \in feasible /\ knobs \notin InPool

\* A feasible design the list does not hold joins it.
Sample ==
  /\ pc = "sample"
  /\ Len(drawn) < Budget + Spares
  /\ \E knobs \in Design : IsFresh(knobs) /\ drawn' = Append(drawn, knobs)
  /\ UNCHANGED <<feasible, runs, pc, popped, batch, history>>

\* One over a budget, or held already, is thrown away.
Reject ==
  /\ pc = "sample"
  /\ Len(drawn) < Budget + Spares
  /\ \E knobs \in Design : ~IsFresh(knobs)
  /\ UNCHANGED vars

Sampled ==
  /\ pc = "sample"
  /\ Len(drawn) >= Budget + Spares
  /\ pc' = "draw"
  /\ UNCHANGED <<feasible, drawn, runs, popped, batch, history>>

\* Faulty variant: the last batch is not cut to what the budget has left.
WholeBatch == Batch

\* How many designs a round may take.
Room == IF Batch < Budget - (Len(history) - 1) THEN Batch ELSE Budget - (Len(history) - 1)

IsNew(knobs) == knobs # Stock

PoolIsEmpty == popped = Len(drawn)

\* The next of the pool joins the batch, unless it is the stock.
Draw ==
  /\ pc = "draw"
  /\ Len(history) - 1 < Budget
  /\ Len(batch) < Room
  /\ ~PoolIsEmpty
  /\ popped' = popped + 1
  /\ batch' = IF IsNew(drawn[popped + 1]) THEN Append(batch, drawn[popped + 1]) ELSE batch
  /\ UNCHANGED <<feasible, drawn, runs, pc, history>>

\* The batch goes out, an empty one too.
SendBatch ==
  /\ pc = "draw"
  /\ Len(history) - 1 < Budget
  /\ Len(batch) >= Room \/ PoolIsEmpty
  /\ pc' = "measure"
  /\ UNCHANGED <<feasible, drawn, runs, popped, batch, history>>

\* The first of the batch produced a measurement.
Keep ==
  /\ pc = "measure"
  /\ batch # <<>>
  /\ Head(batch) \in runs
  /\ history' = Append(history, Head(batch))
  /\ batch' = Tail(batch)
  /\ UNCHANGED <<feasible, drawn, runs, pc, popped>>

\* Faulty variant: a failure ends the batch.
NoneLeft == <<>>

OthersLeft == Tail(batch)

\* It crashed the simulator, or was killed in the batch and in its retry.
Drop ==
  /\ pc = "measure"
  /\ batch # <<>>
  /\ Head(batch) \in (Design \ runs) \cup Interruptible
  /\ batch' = OthersLeft
  /\ UNCHANGED <<feasible, drawn, runs, pc, popped, history>>

NextRound ==
  /\ pc = "measure"
  /\ batch = <<>>
  /\ pc' = "draw"
  /\ UNCHANGED <<feasible, drawn, runs, popped, batch, history>>

Return ==
  /\ pc = "draw"
  /\ Len(history) - 1 >= Budget
  /\ pc' = "done"
  /\ UNCHANGED <<feasible, drawn, runs, popped, batch, history>>

Done == pc = "done" /\ UNCHANGED vars

Step == MeasureStock \/ Sample \/ Sampled \/ Draw \/ SendBatch \/ Keep \/ Drop \/ NextRound \/ Return

Next == Step \/ Reject \/ Done

Spec == Init /\ [][Next]_vars

\* The arm is one sequential process; a uniform generator that still has a
\* fresh design to find finds one.
FairSpec == Spec /\ WF_vars(Step)

-----------------------------------------------------------------------------
(***************************************************************************)
(* ledgers.py:from_random_seed: the run's ledger made again from its seed  *)
(* and the result table, without its report.                               *)
(***************************************************************************)

\* Faulty variant: the stock, when it was drawn, counts as a draw.
EveryDraw(list) == list

\* The draws that count: the stock, drawn once at most, is not measured again.
Counted(list) ==
  LET places == {i \in DOMAIN list : list[i] = Stock}
      place == CHOOSE i \in places : TRUE
  IN  IF places = {} THEN list
      ELSE SubSeq(list, 1, place - 1) \o SubSeq(list, place + 1, Len(list))

\* The rows up to the budget, or to the first design without metrics.  table holds
\* the designs with metrics on the first workload (line 117); that evaluate, called
\* without simulating (121), may raise for want of another workload's row is left
\* out: then there is no ledger.
Rebuilt(table) ==
  LET draws == Counted(drawn)
      Lacks(i) == i > Len(draws) \/ i > Budget \/ draws[i] \notin table
      end == CHOOSE i \in 1..(Len(draws) + 1) : Lacks(i) /\ \A j \in 1..(i - 1) : ~Lacks(j)
  IN  SubSeq(draws, 1, end - 1)

-----------------------------------------------------------------------------
(***************************************************************************)
(* What the arm must keep to.                                              *)
(***************************************************************************)

\* Every variable has its type (search.py:random_search's locals).
TypeOK ==
  /\ feasible \in Chips
  /\ drawn \in Seq(Design)
  /\ runs \in Runs
  /\ pc \in {"stock", "sample", "draw", "measure", "done"}
  /\ popped \in 0..Len(drawn)
  /\ batch \in Seq(Design)
  /\ history \in Seq(Design)

\* The arm never measures more than its budget, whatever the batch
\* (search.py:232, the min in the inner loop's guard).
NeverOverBudget == Len(history) - 1 <= Budget

\* No design is measured twice, the stock included although it may be drawn.
MeasuredOnce == \A i, j \in DOMAIN history : history[i] = history[j] => i = j

\* "Drawn once, in order, so a seed is the same sequence whatever the batch"
\* (search.py:225): the designs certain to be measurable, those a kill from
\* outside may cost left aside, are measured once each, in the list's order and
\* without a gap.
Sure == runs \ (Interruptible \cup {Stock})
SameSequenceWhateverBatch ==
  /\ MeasuredOnce
  /\ Measured \cap Sure \subseteq InPool
  /\ \A i, j \in DOMAIN drawn : i < j /\ drawn[i] \in Sure /\ drawn[j] \in Sure \cap Measured =>
       \E k, l \in DOMAIN history : k < l /\ history[k] = drawn[i] /\ history[l] = drawn[j]

\* The arm returns when the chip has enough feasible designs for the list
\* (space.py:301) and the list enough designs that can be measured
\* (search.py:229), the stock and a killed design counted as losses.
Lost == {i \in DOMAIN drawn : drawn[i] \in {Stock} \cup (Design \ runs) \cup Interruptible}
TooFewFeasible == Cardinality(feasible) < Budget + Spares
TooManyLost == Len(drawn) = Budget + Spares /\ Spares < Cardinality(Lost)
EndsWhenSparesSuffice == <>(pc = "done" \/ TooFewFeasible \/ TooManyLost)

\* "Retry design by design instead and drop whatever still fails: the budget counts
\* designs that produced a measurement" (search.py:194-195): once the list could be
\* drawn, the arm measures its budget, whatever fails.  It does not: see
\* EndsWhenSparesSuffice.
EndsWhateverFails == <>(pc = "done" \/ TooFewFeasible)

Popped == {drawn[i] : i \in 1..popped}

\* "the seed fixes the draws, the table holds every measurement, so the ledger
\* needs no report and no log" (ledgers.py:93-94): whatever other runs measured,
\* the ledger rebuilt is a beginning of what the run measured after the stock.
\* It is not: see RebuiltUpToAKill.
RebuiltIsTheRun ==
  pc = "done" =>
    \A others \in SUBSET runs :
      LET told == Rebuilt(Measured \cup others)
      IN  \E n \in 0..Len(Tail(history)) : told = SubSeq(Tail(history), 1, n)

\* What does hold of it, whatever other runs measured (ledgers.py:109-126): it
\* parts from the run no earlier than at a design that was killed in this run and
\* measured by another, and is the whole run unless the run lost a design.
Killed == (Popped \cap Interruptible) \ Measured
RebuiltUpToAKill ==
  pc = "done" =>
    \A others \in SUBSET runs :
      LET told == Rebuilt(Measured \cup others)
          measured == Tail(history)
      IN  /\ Len(told) <= Len(measured)
          /\ \A n \in 1..Len(told) : told[n] # measured[n] => \E m \in 1..n : told[m] \in Killed
          /\ told # measured => ~(Popped \subseteq Measured)

\* The arm as AnytimeSearch describes one; a result is fixed by its design.
Anytime == INSTANCE AnytimeSearch WITH
             Result <- {"measured"},
             Limit <- Budget,
             results <- {<<d, "measured">> : d \in Measured},
             count <- Len(history),
             ended <- (pc = "done")

\* The random arm implements the promise of a search arm.
ImplementsAnytimeSearch == Anytime!Spec

-----------------------------------------------------------------------------
(***************************************************************************)
(* The inductive invariant of RandomProofs: the designs of the batch and   *)
(* of the history come from the part of the list already popped, so the    *)
(* next one is new to both.                                                *)
(***************************************************************************)

InBatch == {batch[i] : i \in DOMAIN batch}

DrawnOnce ==
  /\ \A i, j \in DOMAIN drawn : drawn[i] = drawn[j] => i = j
  /\ pc \in {"stock", "sample"} => popped = 0

FromThePool ==
  /\ InBatch \subseteq Popped \ {Stock}
  /\ Measured \subseteq Popped \cup {Stock}
  /\ InBatch \cap Measured = {}
  /\ \A i, j \in DOMAIN batch : batch[i] = batch[j] => i = j

RoomLeft ==
  /\ pc = "stock" => history = <<>>
  /\ pc \in {"stock", "sample"} => batch = <<>>
  /\ pc # "stock" => history # <<>>
  /\ pc \in {"sample", "draw", "measure"} => Len(history) - 1 + Len(batch) <= Budget
  /\ pc = "done" => Len(history) - 1 <= Budget

IInv == TypeOK /\ DrawnOnce /\ FromThePool /\ MeasuredOnce /\ RoomLeft

\* What the order of the measurements needs besides: the history and then the
\* batch follow the list, and none that can be measured is missing from them.
NoneIsLost == \A i \in 1..popped : drawn[i] \in Sure => drawn[i] \in Measured \cup InBatch

InListOrder(seq) ==
  \A k, l \in DOMAIN seq : k < l =>
    \A i, j \in 1..popped : drawn[i] = seq[k] /\ drawn[j] = seq[l] => i < j \/ seq[k] = Stock

BatchComesLast ==
  \A i, j \in 1..popped : drawn[i] \in Measured \ {Stock} /\ drawn[j] \in InBatch => i < j

StockFirst ==
  /\ pc # "stock" => history[1] = Stock
  /\ pc = "done" => batch = <<>> /\ Len(history) = Budget + 1

OrderInv == NoneIsLost /\ InListOrder(history) /\ InListOrder(batch) /\ BatchComesLast /\ StockFirst
=============================================================================
