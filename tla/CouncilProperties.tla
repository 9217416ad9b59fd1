-------------------------- MODULE CouncilProperties --------------------------
(***************************************************************************)
(* What the council's search must keep to, stated over CouncilSearch.      *)
(***************************************************************************)
EXTENDS CouncilSearch

\* Every variable has its type (council.py:search's locals).
TypeOK ==
  /\ landscape \in Landscapes
  /\ pc \in {"stock", "opening", "loop", "statistician", "analyst", "repair",
             "specialists", "fill", "measure", "done"}
  /\ history \in Seq(Entry)
  /\ crashed \subseteq Design
  /\ rounds \in Seq([against : Nat, planned : Seq(Request), include : Nat])
  /\ roundNumber \in Nat
  /\ sinceIncumbent \in Nat
  /\ fruitless \in 0..2
  /\ incumbent \in Nat
  /\ pick \in Design \cup {None}
  /\ blamed \in {LevelOf[k] : k \in Knob} \cup {None}
  /\ cursor \in Nat
  /\ repairs \in 0..2
  /\ planned \in Seq(Request)
  /\ attempted \subseteq Design

\* A design is evaluated once, however many rounds and members ask for it
\* (by_name: "a design is evaluated once").
MeasuredOnce ==
  \A i, j \in DOMAIN history : history[i].design = history[j].design => i = j

\* The run never measures more than a wave past its budget, or its opening.
MostDesigns == IF Budget + WAVE - 1 > OPENINGS THEN Budget + WAVE - 1 ELSE OPENINGS
OvershootBounded == Len(history) - 1 <= MostDesigns

\* The plateau's counter is exact: at the loop's head it counts the designs
\* recorded in the rounds after the one that found the incumbent.
RoundOfIncumbent(i) == IF history[i].round > 1 THEN history[i].round ELSE 1
PlateauCountExact ==
  pc = "loop" =>
    \A i \in DOMAIN history :
      IsIncumbent(i) =>
        sinceIncumbent = Cardinality({j \in DOMAIN history :
                                        history[j].round > RoundOfIncumbent(i)})

\* What a round writes in its record and what the next round stands on agree:
\* when the wave includes a label, that label's design is the incumbent after
\* it, and when it includes none the incumbent stands.
RecordNamesIncumbent ==
  (pc = "loop" /\ rounds # <<>>) =>
    LET last == rounds[Len(rounds)]
    IN  \A i \in DOMAIN history :
          IsIncumbent(i) =>
            IF last.include = 0 THEN i = last.against
            ELSE history[i].design = last.planned[last.include].design

\* The tabu of a stall: no member spends a slot on a move an earlier round made
\* against the same design.
NoMoveProposedTwice ==
  \A i, j \in DOMAIN rounds :
    (i < j /\ rounds[i].against = rounds[j].against) =>
      \A p \in DOMAIN rounds[i].planned, q \in DOMAIN rounds[j].planned :
        rounds[j].planned[q].by # "sweep" =>
          rounds[i].planned[p].design # rounds[j].planned[q].design

\* "A second empty round in a row means nothing is left to measure"
\* (council.py:1992-1993): when the search gives up for that, no runnable one-knob
\* move of the incumbent is left.  One may be: README, section 6.
NothingLeftWhenGivenUp == pc = "done" /\ fruitless >= 2 => Untried = {}

\* The caps decide before a design is measured: only designs that fit are built
\* (council.py:991-992, chip.py:164).
MeasuredDesignsFit == \A i \in DOMAIN history : history[i].design \in Buildable

\* The search ends: every wave ends, and the rounds are capped.
Termination == <>(pc = "done")

\* What a history row may say of a design.
Reportable == {[score |-> l[d].score, broken |-> b] : l \in Landscapes, d \in Design, b \in Cap}

\* The search is an arm as AnytimeSearch describes one.
Anytime == INSTANCE AnytimeSearch WITH
             Result <- Reportable,
             Limit <- MostDesigns,
             results <- {<<history[i].design, [score |-> history[i].score,
                                               broken |-> history[i].broken]>> :
                           i \in DOMAIN history},
             count <- Len(history),
             ended <- (pc = "done")

\* The council's search implements the promise of a search arm.
ImplementsAnytimeSearch == Anytime!Spec
-----------------------------------------------------------------------------
(***************************************************************************)
(* The inductive invariant behind the theorems of CouncilProofs: where the *)
(* indices point, what the loop's phases leave empty, and that the designs *)
(* still to send never pass the bound.                                     *)
(***************************************************************************)

RoundPhases == {"statistician", "analyst", "repair", "specialists", "fill"}

\* The stock is recorded before anything indexes the history, and a round's
\* incumbent and base are entries of it.
IndicesInRange ==
  /\ pc = "stock" => history = <<>> /\ roundNumber = 0
  /\ pc # "stock" => history # <<>> /\ roundNumber > 0
  /\ pc \in RoundPhases => roundNumber > 1
  /\ roundNumber > 1 => incumbent \in DOMAIN history
  /\ \A r \in DOMAIN rounds : rounds[r].against \in DOMAIN history

\* One empty round at most is behind a search that goes on.
OneEmptyRound == pc # "done" => fruitless <= 1

\* The designs measured and those the wave may still send keep to the bound.
RoomLeft ==
  /\ pc \in {"stock", "opening", "fill"} => cursor = 1
  /\ pc \in {"stock", "loop"} => planned = <<>> /\ cursor = 1
  /\ pc = "opening" => Len(history) = 1 /\ Len(planned) <= OPENINGS
  /\ pc \in RoundPhases => Len(history) - 1 < Budget /\ Len(planned) <= WAVE
  /\ pc = "measure" => /\ cursor \in 1..Len(planned) + 1
                       /\ Len(history) + Len(planned) - cursor <= MostDesigns
  /\ pc \in {"loop", "done"} => Len(history) - 1 <= MostDesigns

IInv == TypeOK /\ IndicesInRange /\ OneEmptyRound /\ MeasuredOnce /\ RoomLeft
-----------------------------------------------------------------------------
(***************************************************************************)
(* What a round relies on between its start and its record: the inductive  *)
(* invariant behind the theorems about rounds, which stands on IInv.       *)
(***************************************************************************)

InRound == roundNumber > 1 /\ pc \in RoundPhases \cup {"measure"}

\* The history is in the order of the rounds, and a wave has no entry before it
\* is measured.
RoundsInOrder ==
  /\ \A j, k \in DOMAIN history : j < k => history[j].round <= history[k].round
  /\ \A j \in DOMAIN history : history[j].round <= roundNumber
  /\ pc \in RoundPhases \cup {"opening"} =>
       \A j \in DOMAIN history : history[j].round < roundNumber
  /\ roundNumber <= 1 => rounds = <<>> /\ sinceIncumbent = 0
  /\ pc = "opening" => roundNumber = 1

\* Feasible entry i is before feasible entry j in the order incumbents are
\* chosen by.
Beats(i, j) ==
  \/ history[j].score < history[i].score
  \/ history[j].score = history[i].score /\ i <= j

\* A round stands on the best of what was measured before it.
StandsOnTheBest ==
  InRound =>
    /\ Feasible(incumbent)
    /\ history[incumbent].round < roundNumber
    /\ \A j \in DOMAIN history :
         Feasible(j) /\ history[j].round < roundNumber => Beats(incumbent, j)

\* Position p is the first of the wave, among those read, to ask for entry j.
FirstAsked(j, p) ==
  /\ p \in DOMAIN planned /\ p < cursor
  /\ planned[p].design = history[j].design
  /\ \A q \in DOMAIN planned : planned[q].design = history[j].design => p <= q

\* A wave's entries are in the order the wave first asked for them.
WaveInOrder ==
  /\ pc # "measure" => attempted = {}
  /\ pc = "measure" =>
       /\ \A q \in DOMAIN planned :
            q < cursor => planned[q].design \in Measured \cup attempted
       /\ \A k \in DOMAIN history :
            history[k].round = roundNumber =>
              \E q \in DOMAIN planned :
                /\ FirstAsked(k, q)
                /\ \A j \in DOMAIN history, p \in DOMAIN planned :
                     history[j].round = roundNumber /\ j < k /\ FirstAsked(j, p) => p < q

\* During a round the plateau's counter counts the designs of the rounds between
\* the incumbent's and this one.
PlateauStands ==
  InRound =>
    sinceIncumbent = Cardinality({j \in DOMAIN history :
                                    /\ RoundOfIncumbent(incumbent) < history[j].round
                                    /\ history[j].round < roundNumber})

\* A round that included a design is never stood on again: something better is
\* in the history.
MovedOn ==
  \A r \in DOMAIN rounds :
    rounds[r].include # 0 =>
      \E j \in DOMAIN history :
        Feasible(j) /\ history[rounds[r].against].score < history[j].score

\* What a member of this round asked for is in no earlier wave planned against
\* the same incumbent.
AskedAnew ==
  InRound =>
    \A q \in DOMAIN planned, r \in DOMAIN rounds :
      (planned[q].by # "sweep" /\ rounds[r].against = incumbent) =>
        \A p \in DOMAIN rounds[r].planned : rounds[r].planned[p].design # planned[q].design

RoundInv ==
  /\ RoundsInOrder /\ StandsOnTheBest /\ WaveInOrder
  /\ PlateauStands /\ PlateauCountExact
  /\ RecordNamesIncumbent
  /\ MovedOn /\ AskedAnew /\ NoMoveProposedTwice
=============================================================================
