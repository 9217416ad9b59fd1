---------------------------- MODULE CouncilSearch ----------------------------
(***************************************************************************)
(* The council's search loop, council_loop/council.py:search: an opening   *)
(* wave, then rounds of one wave each.  A round stands on the best         *)
(* feasible design measured (the incumbent), collects proposals from the   *)
(* statistician, the analyst, the repairs of last round's refusals and     *)
(* the four specialists, tops the wave up with untried one-knob moves,     *)
(* measures it, and decides whether to go on.                              *)
(*                                                                         *)
(* Data that no property tells apart is abstracted.  A design is a         *)
(* function on a few knobs.  What the simulator says of a design is fixed  *)
(* by a landscape chosen initially: its score, the cap it breaks when      *)
(* measured, whether it runs at all.  What the models answer and what the  *)
(* surrogate expects is any choice the filters of the code leave open.     *)
(* The specialists of a round run in threads, but they only read the       *)
(* history and their answers are joined in ORDER before any is used, so    *)
(* the module takes the answers in that order.                             *)
(***************************************************************************)
EXTENDS Integers, Sequences, FiniteSets

CONSTANTS
  Knob,           \* the knobs of the search space
  SearchSpace,    \* SearchSpace[k]: the values knob k may take
  LevelOf,        \* LevelOf[k]: the cache level knob k sits at
  Shape,          \* the knobs that shape a level (its sets and ways)
  Order,          \* the specialists, in the order their answers are taken
  ConcernKnobs,   \* ConcernKnobs[c]: the knobs specialist c may propose
  Stock,          \* the chip as it is
  Buildable,      \* the designs within_budget accepts
  Pool,           \* the statistician's random sample
  RandomDesigns,  \* the designs the opening may draw
  SheetDesigns,   \* the whole designs the analyst may write
  Landscapes,     \* the functions from designs to what the simulator says
  FlatTolerance,  \* FLAT_SHARE of the incumbent, in units of the score
  WAVE, OPENINGS, PLATEAU, Budget, MaxRounds,
  RepairFits,     \* REPAIR = "fit"
  Interruptible,  \* the designs whose simulation may be killed from outside
  None            \* no design, no level

Value == UNION {SearchSpace[k] : k \in Knob}
Design == {d \in [Knob -> Value] : \A k \in Knob : d[k] \in SearchSpace[k]}
Concern == {Order[i] : i \in DOMAIN Order}
Cap == {"none", "power", "floor"}
Outcome == [score : Nat, broken : Cap, runs : BOOLEAN]

ASSUME SpaceAssumption ==
  /\ Buildable \subseteq Design
  /\ Stock \in Buildable
  /\ Pool \subseteq Buildable
  /\ RandomDesigns \subseteq Buildable
  /\ SheetDesigns \subseteq Buildable
  /\ Interruptible \subseteq Design
  /\ Shape \subseteq Knob
  /\ None \notin Design

ASSUME LandscapeAssumption ==
  \A l \in Landscapes : l \in [Design -> Outcome] /\ l[Stock].runs

ASSUME LimitsAssumption ==
  /\ WAVE \in Nat \ {0}
  /\ OPENINGS \in Nat \ {0}
  /\ PLATEAU \in Nat \ {0}
  /\ Budget \in Nat
  /\ MaxRounds \in Nat
  /\ FlatTolerance \in Nat
  /\ RepairFits \in BOOLEAN

ASSUME OrderAssumption ==
  /\ Order \in Seq(Concern)
  /\ \A c \in Concern : ConcernKnobs[c] \subseteq Knob
  /\ Concern \cap {"opening", "statistician", "analyst", "repair", "sweep"} = {}

VARIABLES
  landscape,      \* what the simulator says of each design, fixed
  pc,             \* where the loop is
  history,        \* the designs measured, in order
  crashed,        \* the designs the result table holds as null rows
  rounds,         \* one record per council round
  roundNumber,
  sinceIncumbent, \* designs measured since the incumbent last moved
  fruitless,      \* rounds in a row that measured nothing
  incumbent,      \* the index in history of the design the round stands on
  pick,           \* the statistician's proposal
  blamed,         \* the level the sheet's bottleneck names
  cursor,         \* position in the list a phase walks
  repairs,        \* repairs found this round
  planned,        \* the wave: who asked for which design
  attempted       \* the designs of the wave sent to the simulator

vars == <<landscape, pc, history, crashed, rounds, roundNumber, sinceIncumbent,
          fruitless, incumbent, pick, blamed, cursor, repairs,
          planned, attempted>>

runVars == <<landscape, history, crashed, rounds, roundNumber, sinceIncumbent, fruitless>>
roundVars == <<incumbent, pick, blamed, repairs>>

-----------------------------------------------------------------------------
(***************************************************************************)
(* Reading the history.                                                    *)
(***************************************************************************)

Asker == Concern \cup {"opening", "statistician", "analyst", "repair", "sweep"}
Request == [by : Asker, design : Design]
Entry == [design : Design, score : Nat, broken : Cap, round : Nat]

Measured == {history[i].design : i \in DOMAIN history}
Planned == {planned[i].design : i \in DOMAIN planned}

\* The index of the entry by_name holds for a measured design.
IndexOf(d) == CHOOSE i \in DOMAIN history : history[i].design = d

Feasible(i) == history[i].broken = "none"

\* incumbent_of: the best feasible design measured, the earliest of equals.
IsIncumbent(i) ==
  /\ i \in DOMAIN history
  /\ Feasible(i)
  /\ \A j \in DOMAIN history :
        Feasible(j) => \/ history[j].score < history[i].score
                       \/ history[j].score = history[i].score /\ i <= j

Current == history[incumbent].design

\* is_candidate: inside the budget and not known to crash.
IsCandidate(d) == d \in Buildable /\ d \notin crashed

\* A move is what knobs_changed says: the knobs that differ, old and new value.
Move(d, base) == {<<k, base[k], d[k]>> : k \in {j \in Knob : d[j] # base[j]}}

\* The peers of the incumbent: the feasible designs within the flat tolerance.
Peers == {i \in DOMAIN history :
            Feasible(i) /\ history[i].score >= history[incumbent].score - FlatTolerance}

\* refused_moves: measured against a peer and not the one committed, or not
\* measurable.  A position of the wave stands for its label.
RefusedMoves ==
  UNION {{Move(rounds[r].planned[p].design, history[rounds[r].against].design) :
            p \in (DOMAIN rounds[r].planned) \ {rounds[r].include}} :
              r \in {q \in DOMAIN rounds : rounds[q].against \in Peers}}

\* Faulty variant: the tabu list is not read.
NeverBlocked(d) == FALSE

\* Why a move is a hold: it was made against a peer of this design.
Blocked(d) == Move(d, Current) \in RefusedMoves

\* The designs one knob away from d.
OneKnobAway(d) == {e \in Design : Cardinality({k \in Knob : e[k] # d[k]}) = 1}

\* The statistician's candidates: the pool and the neighbours, unmeasured.
Candidates ==
  (Pool \cup {e \in OneKnobAway(Current) : IsCandidate(e)}) \ Measured

\* untried_moves: the runnable one-knob moves the run has not measured.
Untried == {e \in OneKnobAway(Current) : IsCandidate(e) /\ e \notin Measured}

\* A repair is a part of another base put on the current design.
Onto(e, base, d) == [k \in Knob |-> IF e[k] # base[k] THEN e[k] ELSE d[k]]

\* repair_to_fit: the refused design with levels shrunk until it is estimated
\* to fit.  Which shape fits is arithmetic; any smaller runnable one may.
Shrunk(d) ==
  {e \in Buildable : /\ e # d
                     /\ \A k \in Knob : e[k] <= d[k]
                     /\ \A k \in Knob \ Shape : e[k] = d[k]
                     /\ e \notin crashed
                     /\ e \notin Measured}

\* Position p of last round's wave gained, and the power cap refused it.
PowerRefused(record, p) ==
  /\ record.planned[p].by # "sweep"
  /\ record.planned[p].design \in Measured
  /\ LET entry == history[IndexOf(record.planned[p].design)]
     IN  /\ entry.broken = "power"
         /\ entry.score > history[record.against].score

\* The next of the WAVE slots goes to this design; a full wave drops it.
Offer(by, d) ==
  IF Len(planned) < WAVE THEN Append(planned, [by |-> by, design |-> d]) ELSE planned

-----------------------------------------------------------------------------
(***************************************************************************)
(* The stock and the opening wave.                                         *)
(***************************************************************************)

Init ==
  /\ landscape \in Landscapes
  /\ pc = "stock"
  /\ history = <<>>
  /\ crashed = {}
  /\ rounds = <<>>
  /\ roundNumber = 0
  /\ sinceIncumbent = 0
  /\ fruitless = 0
  /\ incumbent = 0
  /\ pick = None
  /\ blamed = None
  /\ cursor = 1
  /\ repairs = 0
  /\ planned = <<>>
  /\ attempted = {}

\* The stock is the first design recorded; it is the reference for the floors,
\* so it breaks nothing.
MeasureStock ==
  /\ pc = "stock"
  /\ history' = <<[design |-> Stock, score |-> landscape[Stock].score,
                   broken |-> "none", round |-> 0]>>
  /\ roundNumber' = 1
  /\ pc' = "opening"
  /\ UNCHANGED <<landscape, crashed, rounds, sinceIncumbent, fruitless,
                 cursor, planned, attempted>>
  /\ UNCHANGED roundVars

\* The analyst's opening design, when it wrote one that differs from the stock.
OpeningDesign ==
  /\ pc = "opening"
  /\ planned = <<>>
  /\ \E d \in SheetDesigns \ {Stock} :
        planned' = <<[by |-> "opening", design |-> d]>>
  /\ UNCHANGED <<pc, cursor, attempted>>
  /\ UNCHANGED runVars
  /\ UNCHANGED roundVars

\* Random feasible designs fill the opening; one may be the stock again.
DrawOpener ==
  /\ pc = "opening"
  /\ Len(planned) < OPENINGS
  /\ \E d \in RandomDesigns \ Planned :
        planned' = Append(planned, [by |-> "opening", design |-> d])
  /\ UNCHANGED <<pc, cursor, attempted>>
  /\ UNCHANGED runVars
  /\ UNCHANGED roundVars

OpeningReady ==
  /\ pc = "opening"
  /\ Len(planned) >= OPENINGS
  /\ pc' = "measure"
  /\ UNCHANGED <<cursor, planned, attempted>>
  /\ UNCHANGED runVars
  /\ UNCHANGED roundVars

-----------------------------------------------------------------------------
(***************************************************************************)
(* One round: the loop's guard, then each source of proposals in the order *)
(* of the wave's slots.  The filters of a source do not read the other     *)
(* proposals, so filtering and taking a slot are one step.                 *)
(***************************************************************************)

\* Faulty variant: the stock is not counted, and the budget is met one late.
GoesOnAtBudget ==
  /\ Len(history) - 1 <= Budget
  /\ roundNumber < MaxRounds
  /\ sinceIncumbent < PLATEAU

LoopGoesOn ==
  /\ Len(history) - 1 < Budget
  /\ roundNumber < MaxRounds
  /\ sinceIncumbent < PLATEAU

StartRound ==
  /\ pc = "loop"
  /\ LoopGoesOn
  /\ \E i \in DOMAIN history : IsIncumbent(i) /\ incumbent' = i
  /\ roundNumber' = roundNumber + 1
  /\ pc' = "statistician"
  /\ UNCHANGED <<landscape, history, crashed, rounds, sinceIncumbent, fruitless>>
  /\ UNCHANGED <<pick, blamed, cursor, repairs, planned, attempted>>

EndSearch ==
  /\ pc = "loop"
  /\ ~LoopGoesOn
  /\ pc' = "done"
  /\ UNCHANGED <<cursor, planned, attempted>>
  /\ UNCHANGED runVars
  /\ UNCHANGED roundVars

\* The candidate of largest expected improvement, None when all are measured.
Statistician ==
  /\ pc = "statistician"
  /\ pc' = "analyst"
  /\ \/ /\ Candidates = {}
        /\ UNCHANGED <<pick, planned>>
     \/ \E d \in Candidates :
          /\ pick' = d
          /\ planned' = IF IsCandidate(d) /\ ~Blocked(d)
                          THEN Offer("statistician", d) ELSE planned
  /\ UNCHANGED <<incumbent, blamed, repairs, cursor, attempted>>
  /\ UNCHANGED runVars

\* diagnose: the level the sheet's bottleneck names, when it names one, and the
\* whole design it carries, when it carries one that fits.  A call that failed
\* and an answer that is no sheet leave neither.
Sheets == [blames : {None} \cup {LevelOf[k] : k \in Knob}, design : {None} \cup SheetDesigns]

\* The sheet's design, if it changes something; without one the statistician's
\* second candidate takes the slot.
Analyst ==
  /\ pc = "analyst"
  /\ pc' = "repair"
  /\ pick' = None
  /\ \E sheet \in Sheets :
       LET own == {sheet.design} \ {None, Current}
           runnerUps == IF pick = None THEN {} ELSE Candidates \ {pick}
           slot == IF own # {} THEN own ELSE runnerUps
       IN  /\ blamed' = sheet.blames
           /\ \/ slot = {} /\ UNCHANGED planned
              \/ \E d \in slot : planned' = IF IsCandidate(d) /\ ~Blocked(d)
                                               THEN Offer("analyst", d) ELSE planned
  /\ cursor' = 1
  /\ UNCHANGED <<incumbent, repairs, attempted>>
  /\ UNCHANGED runVars

\* A gain the power cap refused last round comes back shrunk, at most two of
\* them.  The part is the repaired design's difference from last round's base;
\* it is put on this round's design, where only a changed, unblocked move counts.
Repair ==
  /\ pc = "repair"
  /\ RepairFits
  /\ rounds # <<>>
  /\ repairs < 2
  /\ LET last == rounds[Len(rounds)]
         base == history[last.against].design
     IN  \E p \in cursor..Len(last.planned) :
           /\ PowerRefused(last, p)
           /\ \E e \in Shrunk(last.planned[p].design) :
                LET d == Onto(e, base, Current)
                IN  planned' = IF d # Current /\ ~Blocked(d)
                                 THEN Offer("repair", d) ELSE planned
           /\ cursor' = p + 1
  /\ repairs' = repairs + 1
  /\ UNCHANGED <<pc, incumbent, pick, blamed, attempted>>
  /\ UNCHANGED runVars

RepairsDone ==
  /\ pc = "repair"
  /\ pc' = "specialists"
  /\ cursor' = 1
  /\ repairs' = 0
  /\ UNCHANGED <<incumbent, pick, blamed, planned, attempted>>
  /\ UNCHANGED runVars

\* What specialist c may propose: its own knobs moved, inside the budget (over
\* the budget it is asked once more, then held).
Proposals(c) ==
  {e \in Buildable : e # Current /\ \A k \in Knob \ ConcernKnobs[c] : e[k] = Current[k]}

\* The next specialist in ORDER: not consulted or holding, or proposing.  A
\* proposal that crashed before or was measured is a hold.
Specialist ==
  /\ pc = "specialists"
  /\ cursor \in DOMAIN Order
  /\ \/ UNCHANGED planned
     \/ \E e \in Proposals(Order[cursor]) :
          planned' = IF IsCandidate(e) /\ ~Blocked(e)
                       THEN Offer(Order[cursor], e) ELSE planned
  /\ cursor' = cursor + 1
  /\ UNCHANGED <<pc, incumbent, pick, blamed, repairs, attempted>>
  /\ UNCHANGED runVars

SpecialistsDone ==
  /\ pc = "specialists"
  /\ cursor \notin DOMAIN Order
  /\ pc' = "fill"
  /\ cursor' = 1
  /\ UNCHANGED <<planned, attempted>>
  /\ UNCHANGED runVars
  /\ UNCHANGED roundVars

AtBlamedLevel(d) == \E k \in Knob : LevelOf[k] = blamed /\ d[k] # Current[k]

Unplanned == Untried \ Planned

\* The fill tops the wave up, the knobs of the level the sheet blames first.
Fill ==
  /\ pc = "fill"
  /\ Len(planned) < WAVE
  /\ \E d \in Unplanned :
        /\ AtBlamedLevel(d) \/ \A e \in Unplanned : ~AtBlamedLevel(e)
        /\ planned' = Append(planned, [by |-> "sweep", design |-> d])
  /\ UNCHANGED <<pc, cursor, attempted>>
  /\ UNCHANGED runVars
  /\ UNCHANGED roundVars

FillDone ==
  /\ pc = "fill"
  /\ Len(planned) >= WAVE \/ Unplanned = {}
  /\ pc' = "measure"
  /\ blamed' = None
  /\ UNCHANGED <<incumbent, pick, repairs, cursor, planned, attempted>>
  /\ UNCHANGED runVars

-----------------------------------------------------------------------------
(***************************************************************************)
(* Measuring a wave: measure() sends each design not evaluated yet to the  *)
(* simulator once; measure_batch keeps what produced a measurement.        *)
(***************************************************************************)

\* Faulty variant: designs of earlier rounds are not looked up.
FreshInWave(d) == d \notin attempted

\* by_name does not hold the design, and the wave has not sent it yet.
Fresh(d) == d \notin Measured \cup attempted

\* Faulty variant: the wave's reader stays where it is.
Stay == cursor

Advance == cursor + 1

ReadBack ==
  /\ pc = "measure"
  /\ cursor \in DOMAIN planned
  /\ ~Fresh(planned[cursor].design)
  /\ cursor' = Advance
  /\ UNCHANGED <<pc, planned, attempted>>
  /\ UNCHANGED runVars
  /\ UNCHANGED roundVars

\* The design at the cursor, which this wave sends to the simulator now.
Simulate(d) ==
  /\ pc = "measure"
  /\ cursor \in DOMAIN planned
  /\ d = planned[cursor].design
  /\ Fresh(d)
  /\ attempted' = attempted \cup {d}
  /\ cursor' = Advance
  /\ UNCHANGED <<pc, planned, landscape, rounds, roundNumber, sinceIncumbent, fruitless>>
  /\ UNCHANGED roundVars

Record(d) ==
  /\ Simulate(d)
  /\ landscape[d].runs
  /\ history' = Append(history, [design |-> d, score |-> landscape[d].score,
                                 broken |-> landscape[d].broken, round |-> roundNumber])
  /\ UNCHANGED crashed

\* The simulator produced no statistics: a null row, and the design is dropped.
DropCrashed(d) ==
  /\ Simulate(d)
  /\ ~landscape[d].runs
  /\ crashed' = crashed \cup {d}
  /\ UNCHANGED history

\* The simulator was killed from outside, twice: dropped, and no row written.
DropInterrupted(d) ==
  /\ Simulate(d)
  /\ d \in Interruptible
  /\ UNCHANGED <<crashed, history>>

OpeningMeasured ==
  /\ pc = "measure"
  /\ roundNumber = 1
  /\ cursor \notin DOMAIN planned
  /\ pc' = "loop"
  /\ planned' = <<>>
  /\ attempted' = {}
  /\ cursor' = 1
  /\ UNCHANGED runVars
  /\ UNCHANGED roundVars

\* Faulty variant: a refused design may be included.
WaveMeasured == {p \in DOMAIN planned : planned[p].design \in Measured}

\* The positions of the wave whose design measured and broke no cap.
WaveFeasible == {p \in DOMAIN planned : /\ planned[p].design \in Measured
                                        /\ Feasible(IndexOf(planned[p].design))}

\* The best feasible position of the wave, the first of equals, if it beats the
\* incumbent; 0 otherwise.
BestOfWave ==
  LET score(p) == history[IndexOf(planned[p].design)].score
      best == {p \in WaveFeasible : /\ score(p) > history[incumbent].score
                                /\ \A q \in WaveFeasible :
                                      score(q) < score(p) \/ (score(q) = score(p) /\ p <= q)}
  IN  IF best = {} THEN 0 ELSE CHOOSE p \in best : TRUE

\* Faulty variant: the wave's designs are counted, measured or not.
PlannedThisRound == Len(planned)

MeasuredThisRound == Cardinality({i \in DOMAIN history : history[i].round = roundNumber})

GiveUp == fruitless + 1 >= 2

\* The wave's record is written; two rounds in a row that measured nothing end
\* the search, and a round that measured counts towards the plateau unless the
\* incumbent moved.
Judge ==
  /\ pc = "measure"
  /\ roundNumber > 1
  /\ cursor \notin DOMAIN planned
  /\ rounds' = Append(rounds, [against |-> incumbent, planned |-> planned, include |-> BestOfWave])
  /\ IF MeasuredThisRound = 0
       THEN /\ fruitless' = fruitless + 1
            /\ pc' = IF GiveUp THEN "done" ELSE "loop"
            /\ UNCHANGED sinceIncumbent
       ELSE /\ fruitless' = 0
            /\ pc' = "loop"
            /\ sinceIncumbent' = IF IsIncumbent(incumbent)
                                    THEN sinceIncumbent + MeasuredThisRound ELSE 0
  /\ planned' = <<>>
  /\ attempted' = {}
  /\ cursor' = 1
  /\ UNCHANGED <<landscape, history, crashed, roundNumber>>
  /\ UNCHANGED roundVars

Done == pc = "done" /\ UNCHANGED vars

Propose ==
  \/ StartRound \/ Statistician \/ Analyst \/ Repair \/ RepairsDone
  \/ Specialist \/ SpecialistsDone \/ Fill \/ FillDone

Open == MeasureStock \/ OpeningDesign \/ DrawOpener \/ OpeningReady \/ OpeningMeasured

Measure ==
  \/ ReadBack
  \/ \E d \in Design : Record(d) \/ DropCrashed(d) \/ DropInterrupted(d)

Step == Open \/ Propose \/ Measure \/ Judge \/ EndSearch

Next == Step \/ Done

Spec == Init /\ [][Next]_vars

\* The loop is one sequential process: it takes a step whenever it can.
FairSpec == Spec /\ WF_vars(Step)

=============================================================================
