---------------------------- MODULE CouncilProofs ----------------------------
(***************************************************************************)
(* The council's search is type correct, evaluates a design once, keeps to *)
(* its bound on the designs measured and implements AnytimeSearch, for any *)
(* space, landscape, budget and wave size.  All of it follows from IInv.   *)
(* What the records of its rounds say (the plateau, the incumbent, the     *)
(* moves that may not be proposed again, the waves that were not full)     *)
(* follows from RoundInv.                                                  *)
(***************************************************************************)
EXTENDS CouncilProperties, FiniteSetTheorems, TLAPS

(***************************************************************************)
(* Facts about the operators of the search.                                *)
(***************************************************************************)

\* Every design a member may name is a design of the space.
LEMMA DesignsOfTheSpace ==
  /\ Buildable \subseteq Design
  /\ Stock \in Design
  /\ Pool \subseteq Design
  /\ RandomDesigns \subseteq Design
  /\ SheetDesigns \subseteq Design
  /\ \A d : OneKnobAway(d) \subseteq Design
  /\ Candidates \subseteq Design
  /\ Untried \subseteq Design
BY SpaceAssumption DEF OneKnobAway, Candidates, Untried

\* A part of one design put on another stays in the space.
LEMMA OntoIsDesign ==
  ASSUME NEW e \in Design, NEW base \in Design, NEW d \in Design
  PROVE  Onto(e, base, d) \in Design
BY DEF Onto, Design

\* A proposal takes the next slot or is dropped: the wave stays a list of
\* requests, of at most WAVE if it was.
LEMMA OfferKeepsTheWave ==
  ASSUME planned \in Seq(Request), NEW by \in Asker, NEW d \in Design
  PROVE  /\ Offer(by, d) \in Seq(Request)
         /\ Len(planned) <= WAVE => Len(Offer(by, d)) <= WAVE
<1>1. [by |-> by, design |-> d] \in Request
  BY DEF Request
<1>2. /\ Append(planned, [by |-> by, design |-> d]) \in Seq(Request)
      /\ Len(Append(planned, [by |-> by, design |-> d])) = Len(planned) + 1
      /\ Len(planned) \in Nat
  BY <1>1
<1> QED  BY <1>2, LimitsAssumption DEF Offer

\* The elements of a sequence over S are in S.
LEMMA ElementsOfASequence ==
  ASSUME NEW S, NEW s \in Seq(S), NEW i \in DOMAIN s
  PROVE  s[i] \in S
OBVIOUS

\* What one more element does to a sequence.
LEMMA OneMore ==
  ASSUME NEW S, NEW s \in Seq(S), NEW e \in S
  PROVE  /\ Append(s, e) \in Seq(S)
         /\ Len(Append(s, e)) = Len(s) + 1
         /\ DOMAIN Append(s, e) = DOMAIN s \cup {Len(s) + 1}
         /\ \A i \in DOMAIN s : Append(s, e)[i] = s[i]
         /\ Append(s, e)[Len(s) + 1] = e
         /\ Len(s) + 1 \notin DOMAIN s
OBVIOUS

\* An entry of the history names a design, its score and its round.
LEMMA EntriesOfTheHistory ==
  ASSUME history \in Seq(Entry), NEW i \in DOMAIN history
  PROVE  history[i].design \in Design /\ history[i].score \in Nat /\ history[i].round \in Nat
<1>1. history[i] \in Entry
  BY ElementsOfASequence
<1> QED  BY <1>1 DEF Entry

\* What a run of the simulator says has the type of a result.
LEMMA LandscapeSays ==
  ASSUME landscape \in Landscapes, NEW d \in Design
  PROVE  /\ landscape[d].score \in Nat
         /\ landscape[d].broken \in Cap
         /\ landscape[d].runs \in BOOLEAN
BY LandscapeAssumption DEF Outcome

\* The designs recorded in this round are finitely many.
LEMMA MeasuredThisRoundIsNat ==
  ASSUME history \in Seq(Entry)
  PROVE  MeasuredThisRound \in Nat
<1>1. IsFiniteSet(DOMAIN history)
  BY FS_Interval, DOMAIN history = 1..Len(history)
<1>2. IsFiniteSet({i \in DOMAIN history : history[i].round = roundNumber})
  BY <1>1, FS_Subset
<1> QED  BY <1>2, FS_CardinalityType DEF MeasuredThisRound

\* What a wave includes is a position of it, or 0.
LEMMA BestOfWaveIsNat ==
  ASSUME planned \in Seq(Request)
  PROVE  BestOfWave \in Nat
<1>1. WaveFeasible \subseteq Nat
  BY DEF WaveFeasible
<1> QED  BY <1>1 DEF BestOfWave

\* The bound on the designs measured.
LEMMA MostDesignsBound ==
  /\ MostDesigns \in Nat
  /\ OPENINGS <= MostDesigns
  /\ Budget + WAVE - 1 <= MostDesigns
BY LimitsAssumption DEF MostDesigns

-----------------------------------------------------------------------------
(***************************************************************************)
(* Each action keeps the invariant.                                        *)
(***************************************************************************)

\* Nothing is recorded at the start.
LEMMA InitIInv == Init => IInv
<1> SUFFICES ASSUME Init PROVE IInv
  OBVIOUS
<1> USE DEF Init
<1>1. TypeOK
  BY DEF TypeOK
<1>2. IndicesInRange /\ OneEmptyRound /\ MeasuredOnce
  BY DEF IndicesInRange, OneEmptyRound, MeasuredOnce, RoundPhases
<1>3. RoomLeft
  BY DEF RoomLeft, RoundPhases
<1> QED  BY <1>1, <1>2, <1>3 DEF IInv

\* The stock becomes the first entry of the history.
LEMMA MeasureStockKeeps == IInv /\ MeasureStock => IInv'
<1> SUFFICES ASSUME IInv, MeasureStock PROVE IInv'
  OBVIOUS
<1> USE DEF IInv, MeasureStock
<1>1. landscape[Stock].score \in Nat /\ Stock \in Design
  BY LandscapeSays, DesignsOfTheSpace DEF TypeOK
<1>2. history' \in Seq(Entry) /\ Len(history') = 1 /\ DOMAIN history' = {1}
  BY <1>1 DEF Entry, Cap
<1>3. TypeOK'
  BY <1>2 DEF TypeOK, runVars, roundVars
<1>4. IndicesInRange' /\ OneEmptyRound' /\ MeasuredOnce'
  <2>1. roundNumber = 0 /\ history = <<>>
    BY DEF IndicesInRange
  <2>2. rounds = rounds' /\ \A r \in DOMAIN rounds : rounds[r].against \notin DOMAIN history
    BY <2>1
  <2> QED  BY <1>2, <2>1, <2>2 DEF IndicesInRange, OneEmptyRound, MeasuredOnce, RoundPhases, roundVars
<1>5. RoomLeft'
  BY <1>2, LimitsAssumption DEF RoomLeft, RoundPhases
<1> QED  BY <1>3, <1>4, <1>5 DEF IInv

\* The opening's steps plan at most OPENINGS designs.
LEMMA OpeningKeeps ==
  IInv /\ (OpeningDesign \/ DrawOpener \/ OpeningReady) => IInv'
<1> SUFFICES ASSUME IInv, OpeningDesign \/ DrawOpener \/ OpeningReady PROVE IInv'
  OBVIOUS
<1> USE DEF IInv
<1>1. /\ UNCHANGED <<cursor, attempted>> /\ UNCHANGED runVars /\ UNCHANGED roundVars
      /\ pc = "opening" /\ pc' \in {"opening", "measure"}
  BY DEF OpeningDesign, DrawOpener, OpeningReady
<1>2. /\ planned' \in Seq(Request)
      /\ Len(planned') <= OPENINGS
  <2>1. CASE OpeningDesign
    <3>1. PICK d \in SheetDesigns \ {Stock} :
             planned' = <<[by |-> "opening", design |-> d]>>
      BY <2>1 DEF OpeningDesign
    <3>2. [by |-> "opening", design |-> d] \in Request
      BY <3>1, DesignsOfTheSpace DEF Request, Asker
    <3> QED  BY <3>1, <3>2, LimitsAssumption
  <2>2. CASE DrawOpener
    <3>1. PICK d \in RandomDesigns \ Planned :
             planned' = Append(planned, [by |-> "opening", design |-> d])
      BY <2>2 DEF DrawOpener
    <3>2. [by |-> "opening", design |-> d] \in Request
      BY <3>1, DesignsOfTheSpace DEF Request, Asker
    <3>3. Len(planned) < OPENINGS /\ planned \in Seq(Request)
      BY <2>2 DEF DrawOpener, TypeOK
    <3> QED  BY <3>1, <3>2, <3>3, LimitsAssumption
  <2>3. CASE OpeningReady
    BY <2>3 DEF OpeningReady, TypeOK, RoomLeft
  <2> QED  BY <2>1, <2>2, <2>3
<1>3. TypeOK'
  BY <1>1, <1>2 DEF TypeOK, runVars, roundVars
<1>4. IndicesInRange' /\ OneEmptyRound' /\ MeasuredOnce'
  BY <1>1 DEF IndicesInRange, OneEmptyRound, MeasuredOnce, RoundPhases, runVars, roundVars
<1>5. RoomLeft'
  <2>1. history' = history /\ Len(history) = 1 /\ cursor' = 1
    BY <1>1 DEF RoomLeft, runVars
  <2>2. Len(planned') \in Nat
    BY <1>2
  <2> QED
    BY <1>1, <1>2, <2>1, <2>2, MostDesignsBound, LimitsAssumption
       DEF RoomLeft, RoundPhases, MostDesigns
<1> QED  BY <1>3, <1>4, <1>5 DEF IInv

\* A step that only collects proposals keeps the invariant when the wave it
\* leaves is a list of at most WAVE requests.
LEMMA ProposalStepKeeps ==
  ASSUME IInv,
         pc \in RoundPhases, pc' \in RoundPhases,
         UNCHANGED runVars, UNCHANGED <<incumbent, attempted>>,
         planned' \in Seq(Request), Len(planned') <= WAVE,
         pick' \in Design \cup {None},
         blamed' \in {LevelOf[k] : k \in Knob} \cup {None},
         repairs' \in 0..2,
         cursor' \in Nat,
         pc' = "fill" => cursor' = 1
  PROVE  IInv'
<1> USE DEF IInv
<1>1. TypeOK'
  BY DEF TypeOK, runVars, RoundPhases
<1>2. IndicesInRange' /\ OneEmptyRound' /\ MeasuredOnce'
  BY DEF IndicesInRange, OneEmptyRound, MeasuredOnce, RoundPhases, runVars
<1>3. RoomLeft'
  BY DEF RoomLeft, RoundPhases, runVars
<1> QED  BY <1>1, <1>2, <1>3 DEF IInv

\* The members that name a whole design: the statistician and the analyst.
LEMMA StatisticianKeeps == IInv /\ Statistician => IInv'
<1> SUFFICES ASSUME IInv, Statistician PROVE IInv'
  OBVIOUS
<1>1. /\ planned \in Seq(Request) /\ Len(planned) <= WAVE
      /\ pick \in Design \cup {None}
  BY DEF IInv, TypeOK, RoomLeft, RoundPhases, Statistician
<1>2. /\ planned' \in Seq(Request) /\ Len(planned') <= WAVE
      /\ pick' \in Design \cup {None}
  <2>1. CASE Candidates = {} /\ UNCHANGED <<pick, planned>>
    BY <1>1, <2>1
  <2>2. ASSUME NEW d \in Candidates,
               pick' = d,
               planned' = IF IsCandidate(d) /\ ~Blocked(d)
                            THEN Offer("statistician", d) ELSE planned
        PROVE  /\ planned' \in Seq(Request) /\ Len(planned') <= WAVE
               /\ pick' \in Design \cup {None}
    <3>1. "statistician" \in Asker /\ d \in Design
      BY DesignsOfTheSpace DEF Asker
    <3> QED  BY <1>1, <2>2, <3>1, OfferKeepsTheWave
  <2> QED  BY <2>1, <2>2 DEF Statistician
<1> QED
  BY <1>2, ProposalStepKeeps DEF Statistician, IInv, TypeOK, RoundPhases

\* The analyst adds at most one request.
LEMMA AnalystKeeps == IInv /\ Analyst => IInv'
<1> SUFFICES ASSUME IInv, Analyst PROVE IInv'
  OBVIOUS
<1>1. planned \in Seq(Request) /\ Len(planned) <= WAVE
  BY DEF IInv, TypeOK, RoomLeft, RoundPhases, Analyst
<1>2. planned' \in Seq(Request) /\ Len(planned') <= WAVE
  <2>1. CASE UNCHANGED planned
    BY <1>1, <2>1
  <2>2. ASSUME NEW d \in SheetDesigns \cup Candidates,
               planned' = IF IsCandidate(d) /\ ~Blocked(d)
                            THEN Offer("analyst", d) ELSE planned
        PROVE  planned' \in Seq(Request) /\ Len(planned') <= WAVE
    <3>1. "analyst" \in Asker /\ d \in Design
      BY DesignsOfTheSpace DEF Asker
    <3> QED  BY <1>1, <2>2, <3>1, OfferKeepsTheWave
  <2>3. PICK sheet \in Sheets :
          LET own == {sheet.design} \ {None, Current}
              runnerUps == IF pick = None THEN {} ELSE Candidates \ {pick}
              slot == IF own # {} THEN own ELSE runnerUps
          IN  \/ slot = {} /\ UNCHANGED planned
              \/ \E d \in slot : planned' = IF IsCandidate(d) /\ ~Blocked(d)
                                               THEN Offer("analyst", d) ELSE planned
    BY DEF Analyst
  <2>4. {sheet.design} \ {None, Current} \subseteq SheetDesigns
    BY DEF Sheets
  <2> QED  BY <2>1, <2>2, <2>3, <2>4
<1>3. cursor' = 1 /\ pc = "analyst" /\ pc' = "repair"
      /\ blamed' \in {LevelOf[k] : k \in Knob} \cup {None}
      /\ pick' = None
      /\ UNCHANGED <<incumbent, repairs, attempted>> /\ UNCHANGED runVars
  BY DEF Analyst, Sheets
<1> QED
  BY <1>2, <1>3, ProposalStepKeeps DEF IInv, TypeOK, RoundPhases

\* The repairs, whose design is a part put on the current design.
LEMMA RepairKeeps == IInv /\ (Repair \/ RepairsDone) => IInv'
<1> SUFFICES ASSUME IInv, Repair \/ RepairsDone PROVE IInv'
  OBVIOUS
<1> DEFINE last == rounds[Len(rounds)]
           base == history[last.against].design
<1>1. /\ planned \in Seq(Request) /\ Len(planned) <= WAVE
      /\ rounds \in Seq([against : Nat, planned : Seq(Request), include : Nat])
      /\ history \in Seq(Entry)
  BY DEF IInv, TypeOK, RoomLeft, RoundPhases, Repair, RepairsDone
<1>2. CASE RepairsDone
  BY <1>1, <1>2, ProposalStepKeeps DEF RepairsDone, IInv, TypeOK, RoundPhases, roundVars
<1>3. CASE Repair
  <2>1. /\ Current \in Design
        /\ base \in Design
        /\ last.planned \in Seq(Request)
    <3>1. rounds # <<>> /\ pc = "repair"
      BY <1>3 DEF Repair
    <3>2. Len(rounds) \in DOMAIN rounds
      BY <1>1, <3>1
    <3>3. incumbent \in DOMAIN history
      BY <3>1 DEF IInv, IndicesInRange, RoundPhases
    <3>4. last.against \in DOMAIN history
      BY <3>2 DEF IInv, IndicesInRange
    <3>5. last.planned \in Seq(Request)
      <4>1. last \in [against : Nat, planned : Seq(Request), include : Nat]
        BY <1>1, <3>2, ElementsOfASequence
      <4> HIDE DEF last
      <4> QED  BY <4>1
    <3>6. \A i \in DOMAIN history : history[i].design \in Design
      BY <1>1, EntriesOfTheHistory
    <3> QED  BY <3>3, <3>4, <3>5, <3>6 DEF Current
  <2>2. PICK p \in cursor..Len(last.planned) :
           /\ cursor' = p + 1
           /\ \E e \in Shrunk(last.planned[p].design) :
                 planned' = IF Onto(e, base, Current) # Current /\ ~Blocked(Onto(e, base, Current))
                              THEN Offer("repair", Onto(e, base, Current)) ELSE planned
    BY <1>3 DEF Repair
  <2>3. PICK e \in Buildable :
           planned' = IF Onto(e, base, Current) # Current /\ ~Blocked(Onto(e, base, Current))
                        THEN Offer("repair", Onto(e, base, Current)) ELSE planned
    BY <2>2 DEF Shrunk
  <2>4. Onto(e, base, Current) \in Design /\ "repair" \in Asker
    BY <2>1, <2>3, DesignsOfTheSpace, OntoIsDesign DEF Asker
  <2>5. planned' \in Seq(Request) /\ Len(planned') <= WAVE
    BY <1>1, <2>3, <2>4, OfferKeepsTheWave
  <2>6. /\ cursor' \in Nat
        /\ repairs' \in 0..2
        /\ pc = "repair" /\ pc' = "repair"
        /\ UNCHANGED <<incumbent, pick, blamed, attempted>> /\ UNCHANGED runVars
    <3>1. /\ repairs < 2 /\ repairs' = repairs + 1
          /\ pc = "repair" /\ UNCHANGED <<pc, incumbent, pick, blamed, attempted>>
          /\ UNCHANGED runVars
      BY <1>3 DEF Repair
    <3>2. cursor \in Nat /\ repairs \in 0..2
      BY DEF IInv, TypeOK
    <3>3. cursor' \in Nat
      BY <2>1, <2>2, <3>2
    <3> QED
      BY <3>1, <3>2, <3>3
  <2> QED
    BY <2>5, <2>6, ProposalStepKeeps DEF IInv, TypeOK, RoundPhases
<1> QED  BY <1>2, <1>3

\* The specialists, one at a time in ORDER.
LEMMA SpecialistKeeps == IInv /\ (Specialist \/ SpecialistsDone) => IInv'
<1> SUFFICES ASSUME IInv, Specialist \/ SpecialistsDone PROVE IInv'
  OBVIOUS
<1>1. planned \in Seq(Request) /\ Len(planned) <= WAVE
  BY DEF IInv, TypeOK, RoomLeft, RoundPhases, Specialist, SpecialistsDone
<1>2. CASE SpecialistsDone
  BY <1>1, <1>2, ProposalStepKeeps DEF SpecialistsDone, IInv, TypeOK, RoundPhases, roundVars
<1>3. CASE Specialist
  <2> DEFINE c == Order[cursor]
  <2>1. c \in Concern /\ c \in Asker
    BY <1>3 DEF Specialist, Concern, Asker
  <2>2. \/ UNCHANGED planned
        \/ \E e \in Buildable : planned' = Offer(c, e)
    BY <1>3 DEF Specialist, Proposals
  <2>3. planned' \in Seq(Request) /\ Len(planned') <= WAVE
    <3>1. CASE UNCHANGED planned
      BY <1>1, <3>1
    <3>2. CASE \E e \in Buildable : planned' = Offer(c, e)
      <4>1. PICK e \in Buildable : planned' = Offer(c, e)
        BY <3>2
      <4>2. e \in Design
        BY <4>1, DesignsOfTheSpace
      <4> QED  BY <1>1, <2>1, <4>1, <4>2, OfferKeepsTheWave
    <3> QED  BY <2>2, <3>1, <3>2
  <2>4. /\ cursor' \in Nat
        /\ pc = "specialists" /\ pc' = "specialists"
        /\ UNCHANGED <<incumbent, pick, blamed, repairs, attempted>> /\ UNCHANGED runVars
    BY <1>3 DEF Specialist, IInv, TypeOK
  <2> HIDE DEF c
  <2> QED
    BY <2>3, <2>4, ProposalStepKeeps DEF IInv, TypeOK, RoundPhases
<1> QED  BY <1>2, <1>3

\* The fill tops the wave up and the wave goes out.
LEMMA FillKeeps == IInv /\ (Fill \/ FillDone) => IInv'
<1> SUFFICES ASSUME IInv, Fill \/ FillDone PROVE IInv'
  OBVIOUS
<1>1. /\ planned \in Seq(Request) /\ Len(planned) <= WAVE
      /\ pc = "fill" /\ UNCHANGED <<cursor, attempted>>
      /\ UNCHANGED runVars /\ UNCHANGED <<incumbent, pick, repairs>>
      /\ blamed' \in {blamed, None}
      /\ cursor = 1
  BY DEF IInv, TypeOK, RoomLeft, RoundPhases, Fill, FillDone, roundVars
<1>2. CASE Fill
  <2>1. PICK d \in Unplanned : planned' = Append(planned, [by |-> "sweep", design |-> d])
    BY <1>2 DEF Fill
  <2>2. [by |-> "sweep", design |-> d] \in Request
    BY <2>1, DesignsOfTheSpace DEF Unplanned, Request, Asker
  <2>3. planned' \in Seq(Request) /\ Len(planned') <= WAVE
    BY <1>1, <1>2, <2>1, <2>2, LimitsAssumption DEF Fill
  <2> QED
    BY <1>1, <1>2, <2>3, ProposalStepKeeps DEF Fill, IInv, TypeOK, RoundPhases, roundVars
<1>3. CASE FillDone
  <2> USE DEF IInv
  <2>1. pc' = "measure" /\ planned' = planned
    BY <1>3 DEF FillDone
  <2>2. TypeOK'
    BY <1>1, <2>1 DEF TypeOK, runVars, roundVars
  <2>3. IndicesInRange' /\ OneEmptyRound' /\ MeasuredOnce'
    BY <1>1, <2>1 DEF IndicesInRange, OneEmptyRound, MeasuredOnce, RoundPhases, runVars, roundVars
  <2>4. RoomLeft'
    <3>1. Len(history) - 1 < Budget /\ Len(history) \in Nat /\ Len(planned) \in Nat
      BY <1>1 DEF RoomLeft, RoundPhases, TypeOK
    <3> QED
      BY <1>1, <2>1, <3>1, MostDesignsBound, LimitsAssumption
         DEF RoomLeft, RoundPhases, runVars, MostDesigns
  <2> QED  BY <2>2, <2>3, <2>4
<1> QED  BY <1>2, <1>3

\* A round starts on the incumbent; the loop may end instead.
LEMMA LoopKeeps == IInv /\ (StartRound \/ EndSearch) => IInv'
<1> SUFFICES ASSUME IInv, StartRound \/ EndSearch PROVE IInv'
  OBVIOUS
<1> USE DEF IInv
<1>1. pc = "loop" /\ planned = <<>> /\ cursor = 1 /\ roundNumber \in Nat /\ roundNumber > 0
  BY DEF StartRound, EndSearch, RoomLeft, IndicesInRange, TypeOK
<1>2. CASE StartRound
  <2>1. incumbent' \in DOMAIN history /\ incumbent' \in Nat
    BY <1>2 DEF StartRound, TypeOK
  <2>2. TypeOK'
    BY <1>1, <1>2, <2>1 DEF StartRound, TypeOK
  <2>3. IndicesInRange' /\ OneEmptyRound' /\ MeasuredOnce'
    BY <1>1, <1>2, <2>1
       DEF StartRound, IndicesInRange, OneEmptyRound, MeasuredOnce, RoundPhases
  <2>4. RoomLeft'
    BY <1>1, <1>2, LimitsAssumption DEF StartRound, LoopGoesOn, RoomLeft, RoundPhases
  <2> QED  BY <2>2, <2>3, <2>4
<1>3. CASE EndSearch
  <2>1. TypeOK'
    BY <1>3 DEF EndSearch, TypeOK, runVars, roundVars
  <2>2. IndicesInRange' /\ OneEmptyRound' /\ MeasuredOnce'
    BY <1>1, <1>3
       DEF EndSearch, IndicesInRange, OneEmptyRound, MeasuredOnce, RoundPhases, runVars, roundVars
  <2>3. RoomLeft'
    BY <1>1, <1>3 DEF EndSearch, RoomLeft, RoundPhases, runVars, MostDesigns
  <2> QED  BY <2>1, <2>2, <2>3
<1> QED  BY <1>2, <1>3

\* What every step of a wave's reader does.
LEMMA CursorInTheWave ==
  ASSUME IInv, pc = "measure", cursor \in DOMAIN planned
  PROVE  /\ planned[cursor].design \in Design
         /\ Len(history) \in Nat /\ Len(planned) \in Nat /\ cursor \in Nat
         /\ cursor \in 1..Len(planned)
         /\ Len(history) + Len(planned) - cursor <= MostDesigns
         /\ Len(history) <= MostDesigns
<1>1. planned \in Seq(Request) /\ history \in Seq(Entry)
  BY DEF IInv, TypeOK
<1>2. planned[cursor] \in Request
  BY <1>1, ElementsOfASequence
<1>3. planned[cursor].design \in Design
  BY <1>2 DEF Request
<1>4. /\ Len(history) \in Nat /\ Len(planned) \in Nat
      /\ cursor \in 1..Len(planned)
  BY <1>1
<1>5. Len(history) + Len(planned) - cursor <= MostDesigns
  BY DEF IInv, RoomLeft
<1> QED  BY <1>3, <1>4, <1>5, MostDesignsBound

\* A design already measured is read back, and a design the simulator lost is
\* dropped: the history stands and the reader advances.
LEMMA ReaderAdvances ==
  ASSUME IInv, pc = "measure", cursor \in DOMAIN planned, pc' = pc,
         UNCHANGED <<planned, landscape, history, rounds, roundNumber, sinceIncumbent, fruitless>>,
         UNCHANGED roundVars, cursor' = cursor + 1,
         crashed' \subseteq Design, attempted' \subseteq Design
  PROVE  IInv'
<1> USE DEF IInv
<1>1. TypeOK'
  BY DEF TypeOK, roundVars
<1>2. IndicesInRange' /\ OneEmptyRound' /\ MeasuredOnce'
  BY DEF IndicesInRange, OneEmptyRound, MeasuredOnce, RoundPhases, roundVars
<1>3. RoomLeft'
  BY CursorInTheWave, MostDesignsBound DEF RoomLeft, RoundPhases, MostDesigns
<1> QED  BY <1>1, <1>2, <1>3

\* A design measured before is not recorded again.
LEMMA ReadBackKeeps == IInv /\ ReadBack => IInv'
<1> SUFFICES ASSUME IInv, ReadBack PROVE IInv'
  OBVIOUS
<1>1. crashed' \subseteq Design /\ attempted' \subseteq Design
  BY DEF IInv, TypeOK, ReadBack, runVars
<1> QED  BY <1>1, ReaderAdvances DEF ReadBack, Advance, runVars

\* A design that failed leaves the wave unrecorded.
LEMMA DropKeeps ==
  ASSUME NEW d \in Design
  PROVE  IInv /\ (DropCrashed(d) \/ DropInterrupted(d)) => IInv'
<1> SUFFICES ASSUME IInv, DropCrashed(d) \/ DropInterrupted(d) PROVE IInv'
  OBVIOUS
<1>1. crashed' \subseteq Design /\ attempted' \subseteq Design
  BY DEF IInv, TypeOK, DropCrashed, DropInterrupted, Simulate
<1> QED
  BY <1>1, ReaderAdvances DEF DropCrashed, DropInterrupted, Simulate, Advance

\* A measurement is appended once: its design was not in the history.
LEMMA RecordKeeps ==
  ASSUME NEW d \in Design
  PROVE  IInv /\ Record(d) => IInv'
<1> SUFFICES ASSUME IInv, Record(d) PROVE IInv'
  OBVIOUS
<1> USE DEF IInv
<1> DEFINE entry == [design |-> d, score |-> landscape[d].score,
                     broken |-> landscape[d].broken, round |-> roundNumber]
<1>1. /\ pc = "measure" /\ pc' = "measure" /\ cursor \in DOMAIN planned /\ cursor' = cursor + 1
      /\ UNCHANGED <<planned, landscape, rounds, roundNumber, sinceIncumbent, fruitless, crashed>>
      /\ UNCHANGED roundVars
      /\ attempted' = attempted \cup {d}
      /\ d \notin Measured
      /\ history' = Append(history, entry)
  BY DEF Record, Simulate, Advance, Fresh
<1>2. entry \in Entry
  BY LandscapeSays DEF Entry, TypeOK
<1>3. /\ history' \in Seq(Entry)
      /\ Len(history') = Len(history) + 1
      /\ DOMAIN history' = DOMAIN history \cup {Len(history) + 1}
      /\ \A i \in DOMAIN history : history'[i] = history[i]
      /\ history'[Len(history) + 1] = entry
      /\ Len(history) + 1 \notin DOMAIN history
  <2>1. history \in Seq(Entry)
    BY DEF TypeOK
  <2>2. history' = Append(history, entry)
    BY <1>1
  <2> HIDE DEF entry, IInv
  <2> QED  BY ONLY <1>2, <2>1, <2>2, OneMore
<1>4. TypeOK'
  BY <1>1, <1>3 DEF TypeOK, roundVars
<1>5. IndicesInRange' /\ OneEmptyRound'
  BY <1>1, <1>3 DEF IndicesInRange, OneEmptyRound, RoundPhases, roundVars
<1>6. MeasuredOnce'
  <2>1. \A i \in DOMAIN history : history[i].design # d
    BY <1>1 DEF Measured
  <2>2. history'[Len(history) + 1].design = d
    BY <1>3
  <2> QED  BY <1>3, <2>1, <2>2 DEF MeasuredOnce
<1>7. RoomLeft'
  BY <1>1, <1>3, CursorInTheWave, MostDesignsBound DEF RoomLeft, RoundPhases, MostDesigns
<1> QED  BY <1>4, <1>5, <1>6, <1>7

\* The end of a wave: no design is left to send.
LEMMA WaveEnds ==
  ASSUME IInv, pc = "measure", cursor \notin DOMAIN planned
  PROVE  Len(history) - 1 <= MostDesigns
<1>1. /\ planned \in Seq(Request) /\ history \in Seq(Entry)
      /\ cursor \in 1..Len(planned) + 1
      /\ Len(history) + Len(planned) - cursor <= MostDesigns
  BY DEF IInv, TypeOK, RoomLeft
<1>2. Len(planned) \in Nat /\ Len(history) \in Nat /\ cursor = Len(planned) + 1
  BY <1>1
<1> QED  BY <1>1, <1>2, MostDesignsBound

\* The end of the opening records nothing.
LEMMA OpeningMeasuredKeeps == IInv /\ OpeningMeasured => IInv'
<1> SUFFICES ASSUME IInv, OpeningMeasured PROVE IInv'
  OBVIOUS
<1> USE DEF IInv, OpeningMeasured
<1>1. TypeOK'
  BY DEF TypeOK, runVars, roundVars
<1>2. IndicesInRange' /\ OneEmptyRound' /\ MeasuredOnce'
  BY DEF IndicesInRange, OneEmptyRound, MeasuredOnce, RoundPhases, runVars, roundVars
<1>3. RoomLeft'
  BY WaveEnds DEF RoomLeft, RoundPhases, runVars, MostDesigns
<1> QED  BY <1>1, <1>2, <1>3

\* The round's record joins the rounds; the base it names is in the history.
LEMMA JudgeKeeps == IInv /\ Judge => IInv'
<1> SUFFICES ASSUME IInv, Judge PROVE IInv'
  OBVIOUS
<1> USE DEF IInv
<1> DEFINE record == [against |-> incumbent, planned |-> planned, include |-> BestOfWave]
<1>1. /\ pc = "measure" /\ roundNumber > 1 /\ cursor \notin DOMAIN planned
      /\ rounds' = Append(rounds, record)
      /\ pc' \in {"loop", "done"}
      /\ planned' = <<>> /\ attempted' = {} /\ cursor' = 1
      /\ UNCHANGED <<landscape, history, crashed, roundNumber, incumbent>>
  BY DEF Judge, roundVars
<1>2. record \in [against : Nat, planned : Seq(Request), include : Nat]
  BY BestOfWaveIsNat DEF TypeOK
<1>3. /\ rounds' \in Seq([against : Nat, planned : Seq(Request), include : Nat])
      /\ DOMAIN rounds' = DOMAIN rounds \cup {Len(rounds) + 1}
      /\ \A r \in DOMAIN rounds : rounds'[r] = rounds[r]
      /\ rounds'[Len(rounds) + 1] = record
  <2> DEFINE Row == [against : Nat, planned : Seq(Request), include : Nat]
  <2>1. rounds \in Seq(Row)
    BY DEF TypeOK
  <2>2. rounds' = Append(rounds, record)
    BY <1>1
  <2>3. record \in Row
    BY <1>2
  <2> HIDE DEF record, Row, IInv
  <2>4. /\ rounds' \in Seq(Row)
        /\ DOMAIN rounds' = DOMAIN rounds \cup {Len(rounds) + 1}
        /\ \A r \in DOMAIN rounds : rounds'[r] = rounds[r]
        /\ rounds'[Len(rounds) + 1] = record
    BY ONLY <2>1, <2>2, <2>3, OneMore
  <2> QED  BY <2>4 DEF Row
<1>4. /\ fruitless <= 1 /\ fruitless' \in 0..2
      /\ pc' = "loop" => fruitless' <= 1
      /\ sinceIncumbent' \in Nat
  <2>1. fruitless \in 0..2 /\ fruitless <= 1 /\ sinceIncumbent \in Nat
    BY <1>1 DEF TypeOK, OneEmptyRound
  <2>2. MeasuredThisRound \in Nat
    BY MeasuredThisRoundIsNat DEF TypeOK
  <2> QED  BY <2>1, <2>2 DEF Judge, GiveUp
<1>5. TypeOK'
  <2>1. UNCHANGED <<pick, blamed, repairs>>
    BY DEF Judge, roundVars
  <2> QED  BY <1>1, <1>3, <1>4, <2>1 DEF TypeOK
<1>6. IndicesInRange' /\ OneEmptyRound' /\ MeasuredOnce'
  <2>1. incumbent \in DOMAIN history /\ record.against = incumbent
    BY <1>1 DEF IndicesInRange
  <2>2. \A r \in DOMAIN rounds' : rounds'[r].against \in DOMAIN history'
    <3> HIDE DEF record
    <3> QED  BY <1>1, <1>3, <2>1 DEF IndicesInRange
  <2> QED
    BY <1>1, <1>4, <2>1, <2>2 DEF IndicesInRange, OneEmptyRound, MeasuredOnce, RoundPhases
<1>7. RoomLeft'
  BY <1>1, WaveEnds DEF RoomLeft, RoundPhases, MostDesigns
<1> QED  BY <1>5, <1>6, <1>7

\* A step that changes nothing keeps everything.
LEMMA StutterKeeps == IInv /\ UNCHANGED vars => IInv'
BY DEF IInv, TypeOK, IndicesInRange, OneEmptyRound, MeasuredOnce, RoomLeft, RoundPhases,
       MostDesigns, vars

\* Every step of the search keeps the invariant.
LEMMA NextKeeps == IInv /\ [Next]_vars => IInv'
<1> SUFFICES ASSUME IInv, [Next]_vars PROVE IInv'
  OBVIOUS
<1>1. CASE Open
  BY <1>1, MeasureStockKeeps, OpeningKeeps, OpeningMeasuredKeeps DEF Open
<1>2. CASE Propose
  BY <1>2, LoopKeeps, StatisticianKeeps, AnalystKeeps, RepairKeeps, SpecialistKeeps, FillKeeps
     DEF Propose
<1>3. CASE Measure
  BY <1>3, ReadBackKeeps, RecordKeeps, DropKeeps DEF Measure
<1>4. CASE Judge
  BY <1>4, JudgeKeeps
<1>5. CASE EndSearch
  BY <1>5, LoopKeeps
<1>6. CASE Done \/ UNCHANGED vars
  BY <1>6, StutterKeeps DEF Done
<1> QED  BY <1>1, <1>2, <1>3, <1>4, <1>5, <1>6 DEF Next, Step

-----------------------------------------------------------------------------
(***************************************************************************)
(* The theorems.                                                           *)
(***************************************************************************)

\* The strengthened invariant holds of every state of the search.
THEOREM Invariance == Spec => []IInv
<1>1. Init => IInv
  BY InitIInv
<1>2. IInv /\ [Next]_vars => IInv'
  BY NextKeeps
<1> QED  BY <1>1, <1>2, PTL DEF Spec

\* The search's locals keep their types, the empty rounds never pass two.
THEOREM TypeCorrect == Spec => []TypeOK
<1>1. IInv => TypeOK
  BY DEF IInv
<1> QED  BY <1>1, Invariance, PTL

\* A design is evaluated once, however many rounds and members ask for it.
THEOREM EvaluatedOnce == Spec => []MeasuredOnce
<1>1. IInv => MeasuredOnce
  BY DEF IInv
<1> QED  BY <1>1, Invariance, PTL

\* The run measures at most a wave less one past its budget, or its opening.
THEOREM BoundOnDesigns == Spec => []OvershootBounded
<1>1. IInv => OvershootBounded
  <2> SUFFICES ASSUME IInv PROVE Len(history) - 1 <= MostDesigns
    BY DEF OvershootBounded
  <2>1. /\ Len(history) \in Nat /\ Len(planned) \in Nat
        /\ cursor \in Nat
        /\ pc \in {"stock", "opening", "loop", "measure", "done"} \cup RoundPhases
    BY DEF IInv, TypeOK, RoundPhases
  <2>2. CASE pc = "stock"
    BY <2>1, <2>2, MostDesignsBound DEF IInv, IndicesInRange
  <2>3. CASE pc = "opening"
    <3>1. Len(history) = 1
      BY <2>3 DEF IInv, RoomLeft
    <3> QED  BY <3>1, MostDesignsBound
  <2>4. CASE pc \in {"loop", "done"}
    BY <2>4 DEF IInv, RoomLeft
  <2>5. CASE pc \in RoundPhases
    BY <2>1, <2>5, MostDesignsBound, LimitsAssumption DEF IInv, RoomLeft
  <2>6. CASE pc = "measure"
    BY <2>1, <2>6, MostDesignsBound DEF IInv, RoomLeft
  <2> QED  BY <2>1, <2>2, <2>3, <2>4, <2>5, <2>6
<1> QED  BY <1>1, Invariance, PTL

-----------------------------------------------------------------------------
(***************************************************************************)
(* The rounds.  RoundInv says what a round relies on from its start to its *)
(* record.  The proposals only touch the wave, the reader only the entries *)
(* of its own round, and the round's record closes the argument: the best  *)
(* of the wave, first asked for, is the next incumbent.                    *)
(***************************************************************************)

\* Two incumbents are one: the order incumbents are chosen by is strict.
LEMMA OneIncumbent ==
  ASSUME history \in Seq(Entry), NEW i, NEW j, IsIncumbent(i), IsIncumbent(j)
  PROVE  i = j
<1>1. /\ i \in DOMAIN history /\ j \in DOMAIN history
      /\ Feasible(i) /\ Feasible(j)
      /\ history[i].score \in Nat /\ history[j].score \in Nat
      /\ i \in Nat /\ j \in Nat
  BY EntriesOfTheHistory DEF IsIncumbent
<1>2. /\ history[j].score < history[i].score \/ (history[j].score = history[i].score /\ i <= j)
      /\ history[i].score < history[j].score \/ (history[i].score = history[j].score /\ j <= i)
  BY <1>1 DEF IsIncumbent
<1> QED  BY <1>1, <1>2

\* by_name finds the one entry of a measured design.
LEMMA IndexOfMeasured ==
  ASSUME MeasuredOnce, NEW i \in DOMAIN history
  PROVE  IndexOf(history[i].design) = i
BY DEF IndexOf, MeasuredOnce

\* The incumbent that a round's measurements put in place is an entry of the
\* round, and strictly better than the one the round stands on.
LEMMA NewIncumbent ==
  ASSUME IInv, RoundInv, InRound, NEW i, IsIncumbent(i), i # incumbent
  PROVE  /\ history[i].round = roundNumber
         /\ history[incumbent].score < history[i].score
<1>1. history \in Seq(Entry) /\ roundNumber \in Nat
  BY DEF IInv, TypeOK
<1>2. incumbent \in DOMAIN history
  BY DEF IInv, IndicesInRange, InRound
<1>3. /\ i \in DOMAIN history /\ Feasible(i)
      /\ history[i].score \in Nat /\ history[incumbent].score \in Nat
      /\ history[i].round \in Nat /\ history[incumbent].round \in Nat
      /\ i \in Nat /\ incumbent \in Nat
  BY <1>1, <1>2, EntriesOfTheHistory DEF IsIncumbent
<1>4. /\ Feasible(incumbent) /\ history[incumbent].round < roundNumber
      /\ history[i].round < roundNumber => Beats(incumbent, i)
  BY <1>3 DEF RoundInv, StandsOnTheBest
<1>5. Beats(i, incumbent)
  BY <1>2, <1>4 DEF IsIncumbent, Beats
<1>6. history[i].round <= roundNumber
      /\ (i < incumbent => history[i].round <= history[incumbent].round)
  BY <1>2, <1>3 DEF RoundInv, RoundsInOrder
<1>7. ~Beats(incumbent, i)
  BY <1>3, <1>5 DEF Beats
<1>8. history[i].round = roundNumber
  BY <1>1, <1>3, <1>4, <1>6, <1>7
<1>9. incumbent < i
  BY <1>1, <1>3, <1>4, <1>6, <1>8
<1> QED  BY <1>3, <1>5, <1>8, <1>9 DEF Beats

\* A step that leaves the history, the rounds and their counters leaves the
\* facts that only read them.
LEMMA RecordsStand ==
  ASSUME RoundInv, UNCHANGED <<history, rounds, roundNumber>>
  PROVE  MovedOn' /\ NoMoveProposedTwice'
BY DEF RoundInv, MovedOn, NoMoveProposedTwice, Feasible

\* A move that is not blocked is in no wave planned against this incumbent: a
\* refused one is in the tabu, and a round that included a design was not
\* against this incumbent.
LEMMA UnblockedIsNew ==
  ASSUME IInv, RoundInv, pc \in RoundPhases, NEW d \in Design, ~Blocked(d),
         NEW r \in DOMAIN rounds, rounds[r].against = incumbent,
         NEW p \in DOMAIN rounds[r].planned
  PROVE  rounds[r].planned[p].design # d
<1>1. history \in Seq(Entry) /\ roundNumber > 1 /\ incumbent \in DOMAIN history
  BY DEF IInv, TypeOK, IndicesInRange
<1>2. /\ Feasible(incumbent)
      /\ \A j \in DOMAIN history : Feasible(j) => Beats(incumbent, j)
  BY <1>1 DEF RoundInv, StandsOnTheBest, RoundsInOrder, InRound
<1>3. \A j \in DOMAIN history : history[j].score \in Nat
  BY <1>1, EntriesOfTheHistory
<1>4. rounds[r].include = 0
  <2>1. \A j \in DOMAIN history : Feasible(j) => ~(history[incumbent].score < history[j].score)
    BY <1>1, <1>2, <1>3 DEF Beats
  <2> QED  BY <2>1 DEF RoundInv, MovedOn
<1>5. incumbent \in Peers
  <2>1. history[incumbent].score >= history[incumbent].score - FlatTolerance
    BY <1>1, <1>3, LimitsAssumption
  <2> QED  BY <1>1, <1>2, <2>1 DEF Peers
<1>6. p # 0
  <2>1. rounds[r] \in [against : Nat, planned : Seq(Request), include : Nat]
    BY ElementsOfASequence DEF IInv, TypeOK
  <2>2. rounds[r].planned \in Seq(Request)
    BY <2>1
  <2> QED  BY <2>2
<1>7. Move(rounds[r].planned[p].design, Current) \in RefusedMoves
  BY <1>4, <1>5, <1>6 DEF RefusedMoves, Current
<1> QED  BY <1>7 DEF Blocked

\* What a step of the proposals leaves: the wave grows by a sweep or by a move
\* that is not blocked, or stands.
GrowsAnew ==
  \/ UNCHANGED planned
  \/ \E by \in Asker, d \in Design :
       /\ by = "sweep" \/ ~Blocked(d)
       /\ planned' = Append(planned, [by |-> by, design |-> d])

\* A proposal, offered when it is not blocked, makes the wave grow so.
LEMMA OfferGrowsAnew ==
  ASSUME NEW by \in Asker, NEW d \in Design,
         planned' = Offer(by, d) /\ ~Blocked(d)
  PROVE  GrowsAnew
BY DEF Offer, GrowsAnew

\* A step of the proposals keeps what the round relies on.
LEMMA ProposalKeepsRound ==
  ASSUME IInv, RoundInv, pc \in RoundPhases, pc' \in RoundPhases,
         UNCHANGED runVars, UNCHANGED <<incumbent, attempted>>, GrowsAnew
  PROVE  RoundInv'
<1> USE DEF runVars
<1>1. /\ pc # "measure" /\ pc' # "measure" /\ pc' # "loop" /\ pc # "loop"
      /\ pc # "opening" /\ pc' # "opening"
      /\ InRound /\ InRound'
  BY DEF RoundPhases, InRound, IInv, IndicesInRange
<1>2. RoundsInOrder' /\ StandsOnTheBest' /\ PlateauStands'
  BY <1>1 DEF RoundInv, RoundsInOrder, StandsOnTheBest, PlateauStands, Beats, Feasible,
              RoundOfIncumbent
<1>3. WaveInOrder' /\ PlateauCountExact' /\ RecordNamesIncumbent'
  BY <1>1 DEF RoundInv, WaveInOrder, PlateauCountExact, RecordNamesIncumbent
<1>4. MovedOn' /\ NoMoveProposedTwice'
  BY RecordsStand
<1>5. AskedAnew'
  <2>1. CASE UNCHANGED planned
    BY <1>1, <2>1 DEF RoundInv, AskedAnew
  <2>2. ASSUME NEW by \in Asker, NEW d \in Design, by = "sweep" \/ ~Blocked(d),
               planned' = Append(planned, [by |-> by, design |-> d])
        PROVE  AskedAnew'
    <3>1. /\ DOMAIN planned' = DOMAIN planned \cup {Len(planned) + 1}
          /\ \A q \in DOMAIN planned : planned'[q] = planned[q]
          /\ planned'[Len(planned) + 1] = [by |-> by, design |-> d]
      <4>1. planned \in Seq(Request) /\ [by |-> by, design |-> d] \in Request
        BY DEF IInv, TypeOK, Request
      <4> QED  BY ONLY <2>2, <4>1, OneMore
    <3>2. SUFFICES ASSUME NEW q \in DOMAIN planned', NEW r \in DOMAIN rounds,
                          planned'[q].by # "sweep", rounds[r].against = incumbent,
                          NEW p \in DOMAIN rounds[r].planned
                   PROVE  rounds[r].planned[p].design # planned'[q].design
      BY DEF AskedAnew
    <3>3. CASE q \in DOMAIN planned
      BY <1>1, <3>1, <3>2, <3>3 DEF RoundInv, AskedAnew
    <3>4. CASE q = Len(planned) + 1
      <4>1. planned'[q].by = by /\ planned'[q].design = d
        BY <3>1, <3>4
      <4> QED  BY <2>2, <3>2, <4>1, UnblockedIsNew
    <3> QED  BY <3>1, <3>3, <3>4
  <2> QED  BY <2>1, <2>2 DEF GrowsAnew
<1> QED  BY <1>2, <1>3, <1>4, <1>5 DEF RoundInv

\* The statistician and the analyst offer what is not blocked.
LEMMA MembersKeepRound == IInv /\ RoundInv /\ (Statistician \/ Analyst) => RoundInv'
<1> SUFFICES ASSUME IInv, RoundInv, Statistician \/ Analyst PROVE RoundInv'
  OBVIOUS
<1>1. Candidates \subseteq Design /\ SheetDesigns \subseteq Design
      /\ {"statistician", "analyst"} \subseteq Asker
  BY DesignsOfTheSpace DEF Asker
<1>2. CASE Statistician
  <2>1. \/ UNCHANGED planned
        \/ \E d \in Candidates : ~Blocked(d) /\ planned' = Offer("statistician", d)
    BY <1>2 DEF Statistician
  <2>2. GrowsAnew
    BY <1>1, <2>1, OfferGrowsAnew DEF GrowsAnew
  <2> QED  BY <1>2, <2>2, ProposalKeepsRound DEF Statistician, RoundPhases
<1>3. CASE Analyst
  <2>1. PICK sheet \in Sheets :
          LET own == {sheet.design} \ {None, Current}
              runnerUps == IF pick = None THEN {} ELSE Candidates \ {pick}
              slot == IF own # {} THEN own ELSE runnerUps
          IN  \/ slot = {} /\ UNCHANGED planned
              \/ \E d \in slot : planned' = IF IsCandidate(d) /\ ~Blocked(d)
                                               THEN Offer("analyst", d) ELSE planned
    BY <1>3 DEF Analyst
  <2>2. {sheet.design} \ {None, Current} \subseteq SheetDesigns
    BY DEF Sheets
  <2>3. \/ UNCHANGED planned
        \/ \E d \in SheetDesigns \cup Candidates : ~Blocked(d) /\ planned' = Offer("analyst", d)
    BY <2>1, <2>2
  <2>4. GrowsAnew
    BY <1>1, <2>3, OfferGrowsAnew DEF GrowsAnew
  <2> QED  BY <1>3, <2>4, ProposalKeepsRound DEF Analyst, RoundPhases
<1> QED  BY <1>2, <1>3

\* So do the repairs and the specialists, and the fill is a sweep.
LEMMA SpecialistsKeepRound ==
  IInv /\ RoundInv /\ (Repair \/ RepairsDone \/ Specialist \/ SpecialistsDone \/ Fill) => RoundInv'
<1> SUFFICES ASSUME IInv, RoundInv, Repair \/ RepairsDone \/ Specialist \/ SpecialistsDone \/ Fill
             PROVE  RoundInv'
  OBVIOUS
<1>1. CASE RepairsDone \/ SpecialistsDone
  BY <1>1, ProposalKeepsRound DEF RepairsDone, SpecialistsDone, RoundPhases, GrowsAnew, roundVars
<1>2. CASE Repair
  <2> DEFINE last == rounds[Len(rounds)]
             base == history[last.against].design
  <2>1. \/ UNCHANGED planned
        \/ \E e \in Buildable : /\ ~Blocked(Onto(e, base, Current))
                                /\ planned' = Offer("repair", Onto(e, base, Current))
    BY <1>2 DEF Repair, Shrunk
  <2>2. base \in Design /\ Current \in Design
    <3>1. rounds # <<>> /\ pc = "repair"
      BY <1>2 DEF Repair
    <3>2. Len(rounds) \in DOMAIN rounds
      BY <3>1 DEF IInv, TypeOK
    <3>3. last.against \in DOMAIN history /\ incumbent \in DOMAIN history
      BY <3>1, <3>2 DEF IInv, IndicesInRange, RoundPhases
    <3> QED  BY <3>3, EntriesOfTheHistory DEF IInv, TypeOK, Current
  <2>3. GrowsAnew
    <3>1. "repair" \in Asker
      BY DEF Asker
    <3>2. \A e \in Buildable : Onto(e, base, Current) \in Design
      BY <2>2, DesignsOfTheSpace, OntoIsDesign
    <3> HIDE DEF base
    <3> QED  BY <2>1, <3>1, <3>2, OfferGrowsAnew DEF GrowsAnew
  <2> QED  BY <1>2, <2>3, ProposalKeepsRound DEF Repair, RoundPhases
<1>3. CASE Specialist
  <2> DEFINE c == Order[cursor]
  <2>1. c \in Asker
    BY <1>3 DEF Specialist, Concern, Asker
  <2>2. \/ UNCHANGED planned
        \/ \E e \in Design : ~Blocked(e) /\ planned' = Offer(c, e)
    BY <1>3, DesignsOfTheSpace DEF Specialist, Proposals
  <2> HIDE DEF c
  <2>3. GrowsAnew
    BY <2>1, <2>2, OfferGrowsAnew DEF GrowsAnew
  <2> QED  BY <1>3, <2>3, ProposalKeepsRound DEF Specialist, RoundPhases
<1>4. CASE Fill
  <2>1. \E d \in Unplanned : planned' = Append(planned, [by |-> "sweep", design |-> d])
    BY <1>4 DEF Fill
  <2>2. Unplanned \subseteq Design /\ "sweep" \in Asker
    BY DesignsOfTheSpace DEF Unplanned, Asker
  <2>3. GrowsAnew
    BY <2>1, <2>2 DEF GrowsAnew
  <2> QED  BY <1>4, <2>3, ProposalKeepsRound DEF Fill, RoundPhases, roundVars
<1> QED  BY <1>1, <1>2, <1>3, <1>4

\* The wave goes out as it was planned.
LEMMA FillDoneKeepsRound == IInv /\ RoundInv /\ FillDone => RoundInv'
<1> SUFFICES ASSUME IInv, RoundInv, FillDone PROVE RoundInv'
  OBVIOUS
<1>1. /\ pc = "fill" /\ pc' = "measure" /\ cursor' = 1
      /\ roundNumber > 1 /\ roundNumber \in Nat /\ WAVE \in Nat
      /\ UNCHANGED <<incumbent, planned, attempted>> /\ UNCHANGED runVars
      /\ Len(planned) >= WAVE \/ Unplanned = {}
      /\ planned \in Seq(Request)
  BY LimitsAssumption DEF FillDone, IInv, TypeOK, IndicesInRange, RoundPhases, RoomLeft
<1> USE <1>1 DEF runVars
<1>2. InRound /\ InRound' /\ attempted = {}
  BY DEF InRound, RoundPhases, RoundInv, WaveInOrder
<1>3. /\ \A j \in DOMAIN history : history[j].round < roundNumber /\ history[j].round \in Nat
  BY EntriesOfTheHistory DEF RoundInv, RoundsInOrder, RoundPhases, IInv, TypeOK
<1>4. RoundsInOrder' /\ StandsOnTheBest' /\ PlateauStands'
  BY <1>2 DEF RoundInv, RoundsInOrder, StandsOnTheBest, PlateauStands, Beats, Feasible,
              RoundOfIncumbent, RoundPhases
<1>5. WaveInOrder'
  BY <1>2, <1>3 DEF WaveInOrder
<1>6. PlateauCountExact' /\ RecordNamesIncumbent'
  BY DEF PlateauCountExact, RecordNamesIncumbent
<1>7. MovedOn' /\ NoMoveProposedTwice'
  BY RecordsStand
<1>8. AskedAnew'
  BY <1>2 DEF RoundInv, AskedAnew
<1> QED  BY <1>4, <1>5, <1>6, <1>7, <1>8 DEF RoundInv

\* A round starts on the incumbent, with nothing planned yet.
LEMMA StartRoundKeepsRound == IInv /\ RoundInv /\ StartRound => RoundInv'
<1> SUFFICES ASSUME IInv, RoundInv, StartRound PROVE RoundInv'
  OBVIOUS
<1>1. /\ pc = "loop" /\ pc' = "statistician" /\ roundNumber' = roundNumber + 1
      /\ roundNumber \in Nat /\ roundNumber > 0
      /\ IsIncumbent(incumbent')
      /\ planned = <<>> /\ planned' = <<>> /\ attempted' = attempted
      /\ UNCHANGED <<history, crashed, rounds, sinceIncumbent>>
  BY DEF StartRound, IInv, TypeOK, IndicesInRange, RoomLeft
<1>2. /\ \A j \in DOMAIN history : history[j].round <= roundNumber /\ history[j].round \in Nat
      /\ \A j, k \in DOMAIN history : j < k => history[j].round <= history[k].round
  BY EntriesOfTheHistory DEF RoundInv, RoundsInOrder, IInv, TypeOK
<1>3. incumbent' \in DOMAIN history /\ Feasible(incumbent')
      /\ \A j \in DOMAIN history : Feasible(j) => Beats(incumbent', j)
  BY <1>1 DEF IsIncumbent, Beats
<1>4. RoundsInOrder'
  BY <1>1, <1>2 DEF RoundsInOrder
<1>5. StandsOnTheBest'
  BY <1>1, <1>2, <1>3 DEF StandsOnTheBest, Beats, Feasible
<1>6. WaveInOrder' /\ PlateauCountExact' /\ RecordNamesIncumbent'
  BY <1>1 DEF RoundInv, WaveInOrder, PlateauCountExact, RecordNamesIncumbent
<1>7. PlateauStands'
  <2>1. sinceIncumbent = Cardinality({j \in DOMAIN history :
                                        history[j].round > RoundOfIncumbent(incumbent')})
    BY <1>1, <1>3 DEF RoundInv, PlateauCountExact
  <2>2. {j \in DOMAIN history : history[j].round > RoundOfIncumbent(incumbent')}
          = {j \in DOMAIN history : /\ RoundOfIncumbent(incumbent') < history[j].round
                                    /\ history[j].round < roundNumber'}
    <3>1. RoundOfIncumbent(incumbent') \in Nat
      BY <1>2, <1>3 DEF RoundOfIncumbent
    <3> QED  BY <1>1, <1>2, <3>1
  <2>3. PlateauStands' <=>
          (InRound' => sinceIncumbent = Cardinality({j \in DOMAIN history :
                                    /\ RoundOfIncumbent(incumbent') < history[j].round
                                    /\ history[j].round < roundNumber'}))
    BY <1>1 DEF PlateauStands, RoundOfIncumbent
  <2> QED  BY <2>1, <2>2, <2>3
<1>8. MovedOn' /\ NoMoveProposedTwice'
  BY <1>1 DEF RoundInv, MovedOn, NoMoveProposedTwice, Feasible
<1>9. AskedAnew'
  BY <1>1 DEF AskedAnew
<1> QED  BY <1>4, <1>5, <1>6, <1>7, <1>8, <1>9 DEF RoundInv

\* The stock and the opening come before the first round.
LEMMA OpeningKeepsRound ==
  IInv /\ RoundInv /\ (MeasureStock \/ OpeningDesign \/ DrawOpener \/ OpeningReady \/ OpeningMeasured)
    => RoundInv'
<1> SUFFICES ASSUME IInv, RoundInv,
                    MeasureStock \/ OpeningDesign \/ DrawOpener \/ OpeningReady \/ OpeningMeasured
             PROVE  RoundInv'
  OBVIOUS
<1>1. /\ roundNumber \in Nat /\ roundNumber' = 1 /\ rounds = <<>> /\ rounds' = <<>>
      /\ sinceIncumbent = 0 /\ sinceIncumbent' = 0
      /\ pc' \in {"opening", "measure", "loop"} /\ ~InRound'
  <2>1. CASE MeasureStock
    BY <2>1 DEF MeasureStock, IInv, TypeOK, IndicesInRange, RoundInv, RoundsInOrder, InRound
  <2>2. CASE OpeningMeasured
    BY <2>2 DEF OpeningMeasured, runVars, IInv, TypeOK, RoundInv, RoundsInOrder, InRound
  <2>3. CASE OpeningDesign \/ DrawOpener \/ OpeningReady
    BY <2>3 DEF OpeningDesign, DrawOpener, OpeningReady, runVars,
                IInv, TypeOK, RoundInv, RoundsInOrder, InRound
  <2> QED  BY <2>1, <2>2, <2>3
<1>2. StandsOnTheBest' /\ PlateauStands' /\ AskedAnew'
  BY <1>1 DEF StandsOnTheBest, PlateauStands, AskedAnew
<1>3. MovedOn' /\ NoMoveProposedTwice' /\ RecordNamesIncumbent'
  BY <1>1 DEF MovedOn, NoMoveProposedTwice, RecordNamesIncumbent
<1>4. /\ \A j \in DOMAIN history' : history'[j].round \in Nat /\ history'[j].round <= 1
      /\ pc' # "loop" => \A j \in DOMAIN history' : history'[j].round = 0
      /\ \A j, k \in DOMAIN history' : j < k => history'[j].round <= history'[k].round
  <2>1. CASE MeasureStock
    <3>1. DOMAIN history' = {1} /\ history'[1].round = 0
      BY <2>1 DEF MeasureStock
    <3> QED  BY <3>1
  <2>2. CASE OpeningMeasured
    <3>1. history' = history /\ roundNumber = 1 /\ pc' = "loop"
      BY <2>2 DEF OpeningMeasured, runVars
    <3> QED  BY <3>1, EntriesOfTheHistory DEF RoundInv, RoundsInOrder, IInv, TypeOK
  <2>3. CASE OpeningDesign \/ DrawOpener \/ OpeningReady
    <3>1. history' = history /\ roundNumber = 1 /\ pc = "opening"
      BY <2>3, <1>1 DEF OpeningDesign, DrawOpener, OpeningReady, runVars
    <3>2. \A j \in DOMAIN history : history[j].round \in Nat /\ history[j].round < 1
      BY <3>1, EntriesOfTheHistory DEF RoundInv, RoundsInOrder, IInv, TypeOK
    <3> QED  BY <3>1, <3>2 DEF RoundInv, RoundsInOrder
  <2> QED  BY <2>1, <2>2, <2>3
<1>5. RoundsInOrder'
  BY <1>1, <1>4 DEF RoundsInOrder, RoundPhases
<1>6. WaveInOrder'
  <2>1. attempted' = {}
    BY DEF MeasureStock, OpeningMeasured, OpeningDesign, DrawOpener, OpeningReady, RoundInv, WaveInOrder
  <2>2. pc' = "measure" => cursor' = 1
    BY DEF MeasureStock, OpeningMeasured, OpeningDesign, DrawOpener, OpeningReady, IInv, RoomLeft
  <2>3. planned' \in Seq(Request)
    <3>1. IInv'
      BY MeasureStockKeeps, OpeningKeeps, OpeningMeasuredKeeps
    <3> QED  BY <3>1 DEF IInv, TypeOK
  <2> QED  BY <1>1, <1>4, <2>1, <2>2, <2>3 DEF WaveInOrder
<1>7. PlateauCountExact'
  <2> SUFFICES ASSUME pc' = "loop", NEW i \in DOMAIN history', IsIncumbent(i)'
               PROVE  sinceIncumbent' = Cardinality({j \in DOMAIN history' :
                                                       history'[j].round > RoundOfIncumbent(i)'})
    BY DEF PlateauCountExact
  <2>1. RoundOfIncumbent(i)' = 1
    BY <1>4 DEF RoundOfIncumbent
  <2>2. {j \in DOMAIN history' : history'[j].round > RoundOfIncumbent(i)'} = {}
    BY <1>4, <2>1
  <2> QED  BY <1>1, <2>2, FS_EmptySet
<1> QED  BY <1>2, <1>3, <1>5, <1>6, <1>7 DEF RoundInv

\* A step of the reader leaves what was recorded before the wave as it is; the
\* lemma takes what it does to the wave's own entries.
LEMMA ReaderKeepsRound ==
  ASSUME IInv, RoundInv, pc = "measure", pc' = "measure",
         UNCHANGED <<planned, rounds, roundNumber, sinceIncumbent, incumbent>>,
         history' \in Seq(Entry),
         DOMAIN history \subseteq DOMAIN history',
         \A j \in DOMAIN history : history'[j] = history[j],
         \A j \in DOMAIN history' \ DOMAIN history : history'[j].round = roundNumber,
         attempted' # {} \/ (attempted' = attempted /\ UNCHANGED <<history, crashed>>),
         RoundsInOrder', WaveInOrder'
  PROVE  RoundInv'
<1>1. incumbent \in DOMAIN history \/ ~InRound
  BY DEF IInv, IndicesInRange, InRound
<1>2. \A r \in DOMAIN rounds : rounds[r].against \in DOMAIN history
  BY DEF IInv, IndicesInRange
<1>3. roundNumber \in Nat
  BY DEF IInv, TypeOK
<1>4. InRound' <=> InRound
  BY DEF InRound
<1>5. StandsOnTheBest'
  BY <1>1, <1>3, <1>4 DEF RoundInv, StandsOnTheBest, Beats, Feasible
<1>6. PlateauStands'
  <2> SUFFICES ASSUME InRound PROVE PlateauStands'
    BY <1>4 DEF PlateauStands
  <2> DEFINE Before == {j \in DOMAIN history : /\ RoundOfIncumbent(incumbent) < history[j].round
                                               /\ history[j].round < roundNumber}
             After == {j \in DOMAIN history' : /\ RoundOfIncumbent(incumbent)' < history'[j].round
                                               /\ history'[j].round < roundNumber}
  <2>1. RoundOfIncumbent(incumbent)' = RoundOfIncumbent(incumbent)
    BY <1>1 DEF RoundOfIncumbent
  <2>2. After = Before
    BY <1>3, <2>1
  <2>3. sinceIncumbent = Cardinality(Before)
    BY DEF RoundInv, PlateauStands
  <2>4. PlateauStands' <=> (InRound' => sinceIncumbent' = Cardinality(After))
    BY DEF PlateauStands
  <2> HIDE DEF Before, After
  <2> QED  BY <2>2, <2>3, <2>4
<1>7. PlateauCountExact' /\ RecordNamesIncumbent'
  BY DEF PlateauCountExact, RecordNamesIncumbent
<1>8. MovedOn'
  <2> SUFFICES ASSUME NEW r \in DOMAIN rounds, rounds[r].include # 0
               PROVE  \E j \in DOMAIN history' :
                        Feasible(j)' /\ history'[rounds[r].against].score < history'[j].score
    BY DEF MovedOn
  <2>1. PICK j \in DOMAIN history : Feasible(j) /\ history[rounds[r].against].score < history[j].score
    BY DEF RoundInv, MovedOn
  <2>2. history'[j] = history[j] /\ history'[rounds[r].against] = history[rounds[r].against]
        /\ j \in DOMAIN history'
    BY <1>2
  <2> QED  BY <2>1, <2>2 DEF Feasible
<1>9. AskedAnew' /\ NoMoveProposedTwice'
  BY <1>4 DEF RoundInv, AskedAnew, NoMoveProposedTwice
<1> QED  BY <1>5, <1>6, <1>7, <1>8, <1>9 DEF RoundInv

\* The reader's advance leaves the positions that first asked for an entry.
LEMMA FirstAskedStays ==
  ASSUME IInv, RoundInv, pc = "measure", cursor \in DOMAIN planned, cursor' = cursor + 1,
         planned' = planned,
         NEW k \in DOMAIN history, history[k].round = roundNumber, history'[k] = history[k],
         NEW q
  PROVE  FirstAsked(k, q)' <=> FirstAsked(k, q)
<1>1. planned \in Seq(Request) /\ cursor \in Nat
  BY DEF IInv, TypeOK
<1>2. PICK first \in DOMAIN planned : FirstAsked(k, first)
  BY DEF RoundInv, WaveInOrder
<1>3. \A p, r \in DOMAIN planned : p \in Nat /\ r \in Nat
  BY <1>1
<1> QED  BY <1>1, <1>2, <1>3 DEF FirstAsked

\* A design read back or dropped records nothing.
LEMMA NothingRecorded ==
  ASSUME IInv, RoundInv, pc = "measure", pc' = "measure",
         cursor \in DOMAIN planned, cursor' = cursor + 1,
         UNCHANGED <<planned, rounds, roundNumber, sinceIncumbent, history>>,
         attempted \subseteq attempted', planned[cursor].design \in Measured \cup attempted'
  PROVE  RoundsInOrder' /\ WaveInOrder'
<1>1. planned \in Seq(Request) /\ cursor \in Nat
  BY DEF IInv, TypeOK
<1>2. RoundsInOrder'
  BY DEF RoundInv, RoundsInOrder, RoundPhases
<1>3. \A q \in DOMAIN planned' : q < cursor' => planned'[q].design \in Measured' \cup attempted'
  BY <1>1 DEF RoundInv, WaveInOrder, Measured
<1>4. ASSUME NEW k \in DOMAIN history, history[k].round = roundNumber
      PROVE  \E q \in DOMAIN planned :
               /\ FirstAsked(k, q)'
               /\ \A j \in DOMAIN history, p \in DOMAIN planned :
                    history[j].round = roundNumber /\ j < k /\ FirstAsked(j, p)' => p < q
  <2>1. PICK q \in DOMAIN planned :
          /\ FirstAsked(k, q)
          /\ \A j \in DOMAIN history, p \in DOMAIN planned :
               history[j].round = roundNumber /\ j < k /\ FirstAsked(j, p) => p < q
    BY <1>4 DEF RoundInv, WaveInOrder
  <2>2. FirstAsked(k, q)'
    BY <1>4, <2>1, FirstAskedStays
  <2>3. \A j \in DOMAIN history, p \in DOMAIN planned :
          history[j].round = roundNumber /\ FirstAsked(j, p)' => FirstAsked(j, p)
    BY FirstAskedStays
  <2> QED  BY <2>1, <2>2, <2>3
<1> QED  BY <1>2, <1>3, <1>4 DEF WaveInOrder

\* The reader skips a design measured before, or loses one that does not run.
LEMMA SkipKeepsRound ==
  ASSUME NEW d \in Design
  PROVE  IInv /\ RoundInv /\ (ReadBack \/ DropCrashed(d) \/ DropInterrupted(d)) => RoundInv'
<1> SUFFICES ASSUME IInv, RoundInv, ReadBack \/ DropCrashed(d) \/ DropInterrupted(d)
             PROVE  RoundInv'
  OBVIOUS
<1>1. /\ pc = "measure" /\ pc' = "measure"
      /\ cursor \in DOMAIN planned /\ cursor' = cursor + 1
      /\ UNCHANGED <<planned, rounds, roundNumber, sinceIncumbent, incumbent, history>>
      /\ \/ UNCHANGED <<attempted, crashed>> /\ planned[cursor].design \in Measured \cup attempted
         \/ attempted' = attempted \cup {planned[cursor].design}
  BY DEF ReadBack, Fresh, DropCrashed, DropInterrupted, Simulate, Advance, runVars, roundVars
<1>2. /\ attempted \subseteq attempted' /\ planned[cursor].design \in Measured \cup attempted'
      /\ attempted' # {} \/ (attempted' = attempted /\ UNCHANGED <<history, crashed>>)
  BY <1>1
<1>3. RoundsInOrder' /\ WaveInOrder'
  BY <1>1, <1>2, NothingRecorded
<1>4. history \in Seq(Entry)
  BY DEF IInv, TypeOK
<1> QED  BY <1>1, <1>2, <1>3, <1>4, ReaderKeepsRound

\* A measurement takes the next place in the history, and no earlier position of
\* the wave asked for its design.
LEMMA RecordKeepsRound ==
  ASSUME NEW d \in Design
  PROVE  IInv /\ RoundInv /\ Record(d) => RoundInv'
<1> SUFFICES ASSUME IInv, RoundInv, Record(d) PROVE RoundInv'
  OBVIOUS
<1> DEFINE entry == [design |-> d, score |-> landscape[d].score,
                     broken |-> landscape[d].broken, round |-> roundNumber]
           last == Len(history) + 1
<1>1. /\ pc = "measure" /\ pc' = "measure"
      /\ cursor \in DOMAIN planned /\ cursor' = cursor + 1
      /\ UNCHANGED <<planned, rounds, roundNumber, sinceIncumbent, incumbent>>
      /\ d = planned[cursor].design /\ d \notin Measured /\ d \notin attempted
      /\ attempted' = attempted \cup {d}
      /\ history' = Append(history, entry)
  BY DEF Record, Simulate, Fresh, Advance, roundVars
<1>2. /\ history \in Seq(Entry) /\ planned \in Seq(Request)
      /\ roundNumber \in Nat /\ cursor \in Nat
  BY DEF IInv, TypeOK
<1>3. entry \in Entry
  BY <1>2, LandscapeSays DEF Entry, IInv, TypeOK
<1>4. /\ history' \in Seq(Entry)
      /\ DOMAIN history' = DOMAIN history \cup {last}
      /\ \A j \in DOMAIN history : history'[j] = history[j]
      /\ history'[last] = entry
      /\ last \notin DOMAIN history
  <2> HIDE DEF entry
  <2> QED  BY ONLY <1>1, <1>2, <1>3, OneMore
<1>5. \A j \in DOMAIN history : j < last /\ j \in Nat
  BY <1>2
<1>6. last \in Nat /\ entry.round = roundNumber /\ entry.design = d
  BY <1>2
<1> HIDE DEF entry, last
<1>7. RoundsInOrder'
  <2>1. \A j \in DOMAIN history' : history'[j].round <= roundNumber
    BY <1>2, <1>4, <1>6 DEF RoundInv, RoundsInOrder
  <2>2. \A j, k \in DOMAIN history' : j < k => history'[j].round <= history'[k].round
    <3> SUFFICES ASSUME NEW j \in DOMAIN history', NEW k \in DOMAIN history', j < k
                 PROVE  history'[j].round <= history'[k].round
      OBVIOUS
    <3>1. CASE k = last
      BY <1>4, <1>6, <2>1, <3>1
    <3>2. CASE k \in DOMAIN history
      <4>1. j \in DOMAIN history
        BY <1>4, <1>5, <1>6, <3>2
      <4> QED  BY <1>4, <3>2, <4>1 DEF RoundInv, RoundsInOrder
    <3> QED  BY <1>4, <3>1, <3>2
  <2>3. roundNumber' <= 1 => rounds' = <<>> /\ sinceIncumbent' = 0
    BY <1>1 DEF RoundInv, RoundsInOrder
  <2> QED  BY <1>1, <2>1, <2>2, <2>3 DEF RoundsInOrder, RoundPhases
<1>8. Measured' = Measured \cup {d}
  BY <1>4, <1>6 DEF Measured
<1>9. WaveInOrder'
  <2>1. \A q \in DOMAIN planned' : q < cursor' => planned'[q].design \in Measured' \cup attempted'
    BY <1>1, <1>2, <1>8 DEF RoundInv, WaveInOrder
  <2>2. \A q \in DOMAIN planned : q < cursor => planned[q].design # d
    <3>1. \A q \in DOMAIN planned : q < cursor => planned[q].design \in Measured \cup attempted
      BY <1>1 DEF RoundInv, WaveInOrder
    <3> QED  BY <1>1, <3>1
  <2>3. ASSUME NEW k, NEW q, k = last, q = cursor
        PROVE  FirstAsked(k, q)'
    <3>1. \A p \in DOMAIN planned : planned[p].design = d => q <= p
      BY <1>2, <2>2, <2>3
    <3>2. history'[k].design = d /\ planned'[q].design = d /\ q < cursor' /\ q \in DOMAIN planned'
      BY <1>1, <1>2, <1>4, <1>6, <2>3
    <3> QED  BY <1>1, <3>1, <3>2 DEF FirstAsked
  <2>4. \A j \in DOMAIN history, p \in DOMAIN planned :
          history[j].round = roundNumber => (FirstAsked(j, p)' <=> FirstAsked(j, p))
    BY <1>1, <1>4, FirstAskedStays
  <2>5. ASSUME NEW k \in DOMAIN history', history'[k].round = roundNumber
        PROVE  \E q \in DOMAIN planned :
                 /\ FirstAsked(k, q)'
                 /\ \A j \in DOMAIN history', p \in DOMAIN planned :
                      history'[j].round = roundNumber /\ j < k /\ FirstAsked(j, p)' => p < q
    <3>1. CASE k = last
      <4> SUFFICES ASSUME NEW j \in DOMAIN history', NEW p \in DOMAIN planned,
                          history'[j].round = roundNumber, j < k, FirstAsked(j, p)'
                   PROVE  p < cursor
        BY <1>1, <2>3, <3>1
      <4>1. j \in DOMAIN history
        BY <1>4, <1>6, <3>1
      <4>2. FirstAsked(j, p)
        BY <1>4, <2>4, <4>1
      <4> QED  BY <4>2 DEF FirstAsked
    <3>2. CASE k \in DOMAIN history
      <4>1. history[k].round = roundNumber
        BY <1>4, <2>5, <3>2
      <4>2. PICK q \in DOMAIN planned :
              /\ FirstAsked(k, q)
              /\ \A j \in DOMAIN history, p \in DOMAIN planned :
                   history[j].round = roundNumber /\ j < k /\ FirstAsked(j, p) => p < q
        BY <1>1, <3>2, <4>1 DEF RoundInv, WaveInOrder
      <4>3. FirstAsked(k, q)'
        BY <2>4, <3>2, <4>1, <4>2
      <4>4. ASSUME NEW j \in DOMAIN history', NEW p \in DOMAIN planned,
                   history'[j].round = roundNumber, j < k, FirstAsked(j, p)'
            PROVE  p < q
        <5>1. j \in DOMAIN history
          BY <1>4, <1>5, <1>6, <3>2, <4>4
        <5>2. history[j].round = roundNumber /\ FirstAsked(j, p)
          BY <1>4, <2>4, <4>4, <5>1
        <5> QED  BY <4>2, <4>4, <5>1, <5>2
      <4> QED  BY <4>3, <4>4
    <3> QED  BY <1>4, <2>5, <3>1, <3>2
  <2> QED  BY <1>1, <2>1, <2>5 DEF WaveInOrder
<1> QED
  BY <1>1, <1>4, <1>6, <1>7, <1>9, ReaderKeepsRound

\* A feasible position of the wave stands for one feasible entry.
LEMMA FeasiblePosition ==
  ASSUME IInv, NEW p \in WaveFeasible
  PROVE  /\ IndexOf(planned[p].design) \in DOMAIN history
         /\ history[IndexOf(planned[p].design)].design = planned[p].design
         /\ Feasible(IndexOf(planned[p].design))
<1>1. PICK j \in DOMAIN history : history[j].design = planned[p].design
  BY DEF WaveFeasible, Measured
<1>2. IndexOf(planned[p].design) = j
  BY <1>1, IndexOfMeasured DEF IInv
<1> QED  BY <1>1, <1>2 DEF WaveFeasible

\* What a wave includes is better than what its round stands on.
LEMMA IncludedIsBetter ==
  ASSUME IInv, BestOfWave # 0
  PROVE  \E j \in DOMAIN history : Feasible(j) /\ history[incumbent].score < history[j].score
<1> DEFINE score(p) == history[IndexOf(planned[p].design)].score
           best == {p \in WaveFeasible : /\ score(p) > history[incumbent].score
                                         /\ \A q \in WaveFeasible :
                                              score(q) < score(p) \/ (score(q) = score(p) /\ p <= q)}
<1>1. PICK p \in WaveFeasible : score(p) > history[incumbent].score
  <2>1. BestOfWave = IF best = {} THEN 0 ELSE CHOOSE p \in best : TRUE
    BY DEF BestOfWave
  <2>2. best # {}
    BY <2>1
  <2> QED  BY <2>2
<1>2. incumbent \in DOMAIN history => history[incumbent].score \in Nat
  BY EntriesOfTheHistory DEF IInv, TypeOK
<1> QED  BY <1>1, FeasiblePosition

\* At the end of a round's wave, its best is the incumbent's design, at the
\* position that first asked for it; there is none when the incumbent stands.
LEMMA BestIsTheIncumbent ==
  ASSUME IInv, RoundInv, pc = "measure", roundNumber > 1, cursor \notin DOMAIN planned,
         NEW i, IsIncumbent(i)
  PROVE  IF i = incumbent THEN BestOfWave = 0
         ELSE BestOfWave # 0 /\ planned[BestOfWave].design = history[i].design
<1> DEFINE score(p) == history[IndexOf(planned[p].design)].score
           best == {p \in WaveFeasible : /\ score(p) > history[incumbent].score
                                         /\ \A q \in WaveFeasible :
                                              score(q) < score(p) \/ (score(q) = score(p) /\ p <= q)}
<1>1. BestOfWave = IF best = {} THEN 0 ELSE CHOOSE p \in best : TRUE
  BY DEF BestOfWave
<1>2. /\ history \in Seq(Entry) /\ planned \in Seq(Request)
      /\ i \in DOMAIN history /\ Feasible(i) /\ i \in Nat
      /\ incumbent \in DOMAIN history
      /\ InRound
      /\ \A p \in WaveFeasible : p \in DOMAIN planned /\ p \in Nat
  BY DEF IInv, TypeOK, IsIncumbent, IndicesInRange, InRound, WaveFeasible
<1>3. \A j \in DOMAIN history :
         history[j].score \in Nat /\ history[j].round \in Nat /\ j \in Nat
  BY <1>2, EntriesOfTheHistory
<1>4. \A j \in DOMAIN history : Feasible(j) => Beats(i, j)
  BY DEF IsIncumbent, Beats
<1>5. ASSUME NEW p \in WaveFeasible
      PROVE  /\ score(p) \in Nat
             /\ score(p) <= history[i].score
             /\ score(p) = history[i].score => i <= IndexOf(planned[p].design)
  BY <1>2, <1>3, <1>4, <1>5, FeasiblePosition DEF Beats
<1>6. CASE i = incumbent
  <2>1. \A p \in WaveFeasible : ~(score(p) > history[incumbent].score)
    BY <1>2, <1>3, <1>5, <1>6
  <2> HIDE DEF score
  <2>2. best = {}
    BY <2>1
  <2> QED  BY <1>1, <1>6, <2>2
<1>7. CASE i # incumbent
  <2>1. history[i].round = roundNumber /\ history[incumbent].score < history[i].score
    BY <1>2, <1>7, NewIncumbent
  <2>2. PICK first \in DOMAIN planned : FirstAsked(i, first)
    BY <1>2, <2>1 DEF RoundInv, WaveInOrder
  <2>3. /\ first \in WaveFeasible /\ score(first) = history[i].score /\ first \in Nat
    <3>1. planned[first].design = history[i].design
      BY <2>2 DEF FirstAsked
    <3>2. IndexOf(history[i].design) = i
      BY <1>2, IndexOfMeasured DEF IInv
    <3>3. planned[first].design \in Measured
      BY <1>2, <3>1 DEF Measured
    <3>4. first \in WaveFeasible
      BY <1>2, <3>1, <3>2, <3>3 DEF WaveFeasible
    <3>5. score(first) = history[i].score
      BY <3>1, <3>2
    <3> QED  BY <1>2, <3>4, <3>5
  <2>4. ASSUME NEW p \in WaveFeasible, score(p) = history[i].score
        PROVE  first <= p
    <3> DEFINE j == IndexOf(planned[p].design)
    <3>1. j \in DOMAIN history /\ history[j].design = planned[p].design /\ i <= j
      BY <1>5, <2>4, FeasiblePosition
    <3> HIDE DEF j
    <3>2. CASE j = i
      BY <1>2, <2>2, <3>1, <3>2 DEF FirstAsked
    <3>3. CASE i < j
      <4>1. history[j].round = roundNumber
        <5>1. history[i].round <= history[j].round /\ history[j].round <= roundNumber
          BY <1>2, <3>1, <3>3 DEF RoundInv, RoundsInOrder
        <5> QED  BY <1>2, <1>3, <2>1, <3>1, <5>1
      <4>2. PICK q \in DOMAIN planned :
              /\ FirstAsked(j, q)
              /\ \A k \in DOMAIN history, r \in DOMAIN planned :
                   history[k].round = roundNumber /\ k < j /\ FirstAsked(k, r) => r < q
        BY <3>1, <4>1 DEF RoundInv, WaveInOrder
      <4>3. first < q
        BY <1>2, <2>1, <2>2, <3>3, <4>2
      <4>4. q <= p
        BY <1>2, <3>1, <4>2 DEF FirstAsked
      <4>5. q \in Nat /\ p \in Nat
        BY <1>2
      <4> QED  BY <2>3, <4>3, <4>4, <4>5
    <3> QED  BY <1>2, <1>3, <3>1, <3>2, <3>3
  <2>5. first \in best
    BY <1>2, <1>5, <2>1, <2>3, <2>4
  <2>6. ASSUME NEW p \in best PROVE p = first
    <3>1. p \in WaveFeasible /\ p \in Nat
      BY <1>2
    <3>2. score(first) < score(p) \/ (score(first) = score(p) /\ p <= first)
      BY <2>3
    <3> QED  BY <1>3, <1>5, <2>3, <2>4, <3>1, <3>2
  <2> HIDE DEF best, score
  <2>7. BestOfWave = first
    BY <1>1, <2>5, <2>6
  <2>8. first # 0 /\ planned[first].design = history[i].design
    BY <1>2, <2>2 DEF FirstAsked
  <2> QED  BY <1>7, <2>7, <2>8
<1> QED  BY <1>6, <1>7

\* The plateau's counter after a round: its own designs more when the
\* incumbent stands, none when it moved.
LEMMA JudgeCountsThePlateau == IInv /\ RoundInv /\ Judge => PlateauCountExact'
<1> SUFFICES ASSUME IInv, RoundInv, Judge, pc' = "loop",
                    NEW i \in DOMAIN history, IsIncumbent(i)
             PROVE  sinceIncumbent' = Cardinality({j \in DOMAIN history :
                                                     history[j].round > RoundOfIncumbent(i)})
  BY DEF PlateauCountExact, Judge, IsIncumbent, Feasible, RoundOfIncumbent
<1> DEFINE Own == {j \in DOMAIN history : history[j].round = roundNumber}
           Later == {j \in DOMAIN history : history[j].round > RoundOfIncumbent(i)}
<1>1. /\ history \in Seq(Entry) /\ roundNumber \in Nat /\ sinceIncumbent \in Nat
      /\ pc = "measure" /\ roundNumber > 1 /\ InRound
      /\ incumbent \in DOMAIN history
      /\ \A j \in DOMAIN history : history[j].round \in Nat /\ history[j].round <= roundNumber
  BY EntriesOfTheHistory
     DEF Judge, IInv, TypeOK, InRound, IndicesInRange, RoundInv, RoundsInOrder
<1>2. /\ IsFiniteSet(DOMAIN history)
      /\ IsFiniteSet(Own) /\ IsFiniteSet(Later)
      /\ MeasuredThisRound = Cardinality(Own)
  <2>1. IsFiniteSet(DOMAIN history)
    BY <1>1, FS_Interval, DOMAIN history = 1..Len(history)
  <2>2. Own \in SUBSET DOMAIN history /\ Later \in SUBSET DOMAIN history
    OBVIOUS
  <2>3. MeasuredThisRound = Cardinality(Own)
    BY DEF MeasuredThisRound
  <2> HIDE DEF Own, Later
  <2> QED  BY <2>1, <2>2, <2>3, FS_Subset
<1>3. CASE i = incumbent
  <2> DEFINE Before == {j \in DOMAIN history : /\ RoundOfIncumbent(incumbent) < history[j].round
                                               /\ history[j].round < roundNumber}
  <2>1. RoundOfIncumbent(incumbent) \in Nat /\ RoundOfIncumbent(incumbent) < roundNumber
    BY <1>1 DEF RoundOfIncumbent, RoundInv, StandsOnTheBest
  <2>2. Later = Before \cup Own /\ Before \cap Own = {}
    BY <1>1, <1>3, <2>1
  <2>3. sinceIncumbent = Cardinality(Before)
    BY <1>1 DEF RoundInv, PlateauStands
  <2>4. IsFiniteSet(Before)
    BY <1>2, FS_Subset
  <2> HIDE DEF Before, Own, Later
  <2>5. Cardinality(Later) = sinceIncumbent + MeasuredThisRound
    <3>1. Cardinality(Before \cup Own) = Cardinality(Before) + Cardinality(Own) - Cardinality({})
      BY <1>2, <2>2, <2>4, FS_Union
    <3>2. Cardinality(Own) \in Nat /\ Cardinality(Before) \in Nat /\ Cardinality({}) = 0
      BY <1>2, <2>4, FS_CardinalityType, FS_EmptySet
    <3> QED  BY <1>2, <2>2, <2>3, <3>1, <3>2
  <2>6. sinceIncumbent' = sinceIncumbent + MeasuredThisRound
    BY <1>1, <1>2, <1>3 DEF Judge
  <2> QED  BY <2>5, <2>6 DEF Later
<1>4. CASE i # incumbent
  <2>1. history[i].round = roundNumber
    BY <1>1, <1>4, NewIncumbent
  <2>2. MeasuredThisRound # 0
    <3>1. Own # {}
      BY <2>1
    <3> HIDE DEF Own
    <3> QED  BY <1>2, <3>1, FS_EmptySet
  <2>3. ~IsIncumbent(incumbent)
    BY <1>1, <1>4, OneIncumbent
  <2>4. sinceIncumbent' = 0
    BY <2>2, <2>3 DEF Judge
  <2>5. Later = {}
    BY <1>1, <2>1 DEF RoundOfIncumbent
  <2> QED  BY <2>4, <2>5, FS_EmptySet
<1> QED  BY <1>3, <1>4

\* The record of a round keeps what the next one relies on.
LEMMA JudgeKeepsRound == IInv /\ RoundInv /\ Judge => RoundInv'
<1> SUFFICES ASSUME IInv, RoundInv, Judge PROVE RoundInv'
  OBVIOUS
<1> DEFINE Row == [against : Nat, planned : Seq(Request), include : Nat]
           record == [against |-> incumbent, planned |-> planned, include |-> BestOfWave]
           n == Len(rounds) + 1
<1>1. /\ pc = "measure" /\ roundNumber > 1 /\ roundNumber \in Nat /\ InRound
      /\ cursor \notin DOMAIN planned
      /\ rounds' = Append(rounds, record)
      /\ pc' \in {"loop", "done"} /\ attempted' = {}
      /\ UNCHANGED <<landscape, history, crashed, roundNumber>>
      /\ incumbent \in DOMAIN history
  BY DEF Judge, InRound, IInv, TypeOK, IndicesInRange
<1>2. /\ rounds \in Seq(Row) /\ record \in Row
      /\ record.against = incumbent /\ record.planned = planned /\ record.include = BestOfWave
  BY BestOfWaveIsNat DEF IInv, TypeOK
<1>3. /\ DOMAIN rounds' = DOMAIN rounds \cup {n}
      /\ \A r \in DOMAIN rounds : rounds'[r] = rounds[r]
      /\ rounds'[n] = record
      /\ Len(rounds') = n
      /\ \A r \in DOMAIN rounds : r < n
      /\ n \in Nat
  <2> HIDE DEF record, Row
  <2>1. /\ DOMAIN rounds' = DOMAIN rounds \cup {Len(rounds) + 1}
        /\ \A r \in DOMAIN rounds : rounds'[r] = rounds[r]
        /\ rounds'[Len(rounds) + 1] = record
        /\ Len(rounds') = Len(rounds) + 1
    BY ONLY <1>1, <1>2, OneMore
  <2>2. Len(rounds) + 1 \in Nat /\ \A r \in DOMAIN rounds : r < Len(rounds) + 1
    BY ONLY <1>2
  <2> QED  BY <2>1, <2>2
<1> HIDE DEF record, n
<1>4. RoundsInOrder'
  BY <1>1 DEF RoundInv, RoundsInOrder, RoundPhases
<1>5. StandsOnTheBest' /\ PlateauStands' /\ AskedAnew'
  <2>1. ~InRound'
    BY <1>1 DEF InRound, RoundPhases
  <2> QED  BY <2>1 DEF StandsOnTheBest, PlateauStands, AskedAnew
<1>6. WaveInOrder'
  BY <1>1 DEF WaveInOrder
<1>7. PlateauCountExact'
  BY JudgeCountsThePlateau
<1>8. RecordNamesIncumbent'
  <2> SUFFICES ASSUME NEW i \in DOMAIN history, IsIncumbent(i)
               PROVE  IF record.include = 0 THEN i = record.against
                      ELSE history[i].design = record.planned[record.include].design
    BY <1>1, <1>3 DEF RecordNamesIncumbent, IsIncumbent, Feasible
  <2>1. IF i = incumbent THEN BestOfWave = 0
        ELSE BestOfWave # 0 /\ planned[BestOfWave].design = history[i].design
    BY <1>1, BestIsTheIncumbent
  <2> QED  BY <1>2, <2>1
<1>9. MovedOn'
  <2> SUFFICES ASSUME NEW r \in DOMAIN rounds', rounds'[r].include # 0
               PROVE  \E j \in DOMAIN history :
                        Feasible(j) /\ history[rounds'[r].against].score < history[j].score
    BY <1>1 DEF MovedOn, Feasible
  <2>1. CASE r \in DOMAIN rounds
    BY <1>3, <2>1 DEF RoundInv, MovedOn
  <2>2. CASE r = n
    BY <1>2, <1>3, <2>2, IncludedIsBetter
  <2> QED  BY <1>3, <2>1, <2>2
<1>10. NoMoveProposedTwice'
  <2> SUFFICES ASSUME NEW i \in DOMAIN rounds', NEW j \in DOMAIN rounds',
                      i < j, rounds'[i].against = rounds'[j].against,
                      NEW p \in DOMAIN rounds'[i].planned, NEW q \in DOMAIN rounds'[j].planned,
                      rounds'[j].planned[q].by # "sweep"
               PROVE  rounds'[i].planned[p].design # rounds'[j].planned[q].design
    BY DEF NoMoveProposedTwice
  <2>1. i \in DOMAIN rounds
    <3>1. i # n \/ j \in DOMAIN rounds
      BY <1>3
    <3> QED  BY <1>2, <1>3, <3>1
  <2>2. CASE j \in DOMAIN rounds
    BY <1>3, <2>1, <2>2 DEF RoundInv, NoMoveProposedTwice
  <2>3. CASE j = n
    <3>1. rounds'[j] = record /\ rounds'[i] = rounds[i]
      BY <1>3, <2>1, <2>3
    <3>2. /\ rounds[i].against = incumbent
          /\ p \in DOMAIN rounds[i].planned /\ q \in DOMAIN planned /\ planned[q].by # "sweep"
      BY <1>2, <3>1
    <3>3. rounds[i].planned[p].design # planned[q].design
      BY <1>1, <2>1, <3>2 DEF RoundInv, AskedAnew
    <3> QED  BY <1>2, <3>1, <3>3
  <2> QED  BY <1>3, <2>2, <2>3
<1> QED  BY <1>4, <1>5, <1>6, <1>7, <1>8, <1>9, <1>10 DEF RoundInv

\* The end of the search, and a step that changes nothing, keep everything.
LEMMA RestKeepsRound == RoundInv /\ (EndSearch \/ UNCHANGED vars) => RoundInv'
<1> SUFFICES ASSUME RoundInv, EndSearch \/ UNCHANGED vars PROVE RoundInv'
  OBVIOUS
<1>1. /\ UNCHANGED <<history, crashed, rounds, roundNumber, sinceIncumbent, incumbent,
                     cursor, planned, attempted>>
      /\ pc' = pc \/ (pc = "loop" /\ pc' = "done")
  BY DEF EndSearch, runVars, roundVars, vars
<1>2. RoundsInOrder' /\ StandsOnTheBest' /\ PlateauStands' /\ AskedAnew' /\ MovedOn'
  BY <1>1 DEF RoundInv, RoundsInOrder, StandsOnTheBest, PlateauStands, AskedAnew, MovedOn,
              InRound, RoundPhases, Beats, Feasible, RoundOfIncumbent
<1>3. WaveInOrder'
  BY <1>1 DEF RoundInv, WaveInOrder, FirstAsked, Measured
<1>4. PlateauCountExact' /\ RecordNamesIncumbent' /\ NoMoveProposedTwice'
  BY <1>1 DEF RoundInv, PlateauCountExact, RecordNamesIncumbent, NoMoveProposedTwice,
              IsIncumbent, Feasible, RoundOfIncumbent
<1> QED  BY <1>2, <1>3, <1>4 DEF RoundInv

\* What the rounds rely on holds of every state of the search.
THEOREM RoundInvariance == Spec => []RoundInv
<1>1. Init => RoundInv
  <2> SUFFICES ASSUME Init PROVE RoundInv
    OBVIOUS
  <2> USE DEF Init
  <2>1. RoundsInOrder /\ StandsOnTheBest /\ WaveInOrder /\ PlateauStands
    BY DEF RoundsInOrder, StandsOnTheBest, WaveInOrder, PlateauStands, InRound, RoundPhases
  <2>2. PlateauCountExact /\ RecordNamesIncumbent /\ MovedOn /\ AskedAnew /\ NoMoveProposedTwice
    BY DEF PlateauCountExact, RecordNamesIncumbent, MovedOn, AskedAnew, NoMoveProposedTwice
  <2> QED  BY <2>1, <2>2 DEF RoundInv
<1>2. IInv /\ RoundInv /\ [Next]_vars => RoundInv'
  <2> SUFFICES ASSUME IInv, RoundInv, [Next]_vars PROVE RoundInv'
    OBVIOUS
  <2>1. CASE Open
    BY <2>1, OpeningKeepsRound DEF Open
  <2>2. CASE Propose
    BY <2>2, StartRoundKeepsRound, MembersKeepRound, SpecialistsKeepRound, FillDoneKeepsRound
       DEF Propose
  <2>3. CASE Measure
    <3>1. Stock \in Design
      BY DesignsOfTheSpace
    <3> QED  BY <2>3, <3>1, SkipKeepsRound, RecordKeepsRound DEF Measure
  <2>4. CASE Judge
    BY <2>4, JudgeKeepsRound
  <2>5. CASE EndSearch \/ Done \/ UNCHANGED vars
    BY <2>5, RestKeepsRound DEF Done
  <2> QED  BY <2>1, <2>2, <2>3, <2>4, <2>5 DEF Next, Step
<1> QED  BY <1>1, <1>2, Invariance, PTL DEF Spec

\* At the loop's head the plateau's counter counts the designs recorded since
\* the round that found the incumbent.
THEOREM PlateauIsExact == Spec => []PlateauCountExact
<1>1. RoundInv => PlateauCountExact
  BY DEF RoundInv
<1> QED  BY <1>1, RoundInvariance, PTL

\* The label a round's record includes is the incumbent the next one stands on.
THEOREM RecordIsTheIncumbent == Spec => []RecordNamesIncumbent
<1>1. RoundInv => RecordNamesIncumbent
  BY DEF RoundInv
<1> QED  BY <1>1, RoundInvariance, PTL

\* No member asks again for what an earlier wave planned against the same
\* incumbent: the tabu holds for good.
THEOREM TabuHolds == Spec => []NoMoveProposedTwice
<1>1. RoundInv => NoMoveProposedTwice
  BY DEF RoundInv
<1> QED  BY <1>1, RoundInvariance, PTL

-----------------------------------------------------------------------------
(***************************************************************************)
(* The search implements AnytimeSearch: a measurement is a report, the     *)
(* loop's end is the arm's return, and every other step is a stutter.      *)
(***************************************************************************)

Pairs(h) == {<<h[i].design, [score |-> h[i].score, broken |-> h[i].broken]>> : i \in DOMAIN h}

\* What one more entry does to the pairs reported.
LEMMA OneMorePair ==
  ASSUME NEW h \in Seq(Entry), NEW e \in Entry
  PROVE  Pairs(Append(h, e)) = Pairs(h) \cup {<<e.design, [score |-> e.score, broken |-> e.broken]>>}
<1>1. /\ DOMAIN Append(h, e) = DOMAIN h \cup {Len(h) + 1}
      /\ \A i \in DOMAIN h : Append(h, e)[i] = h[i]
      /\ Append(h, e)[Len(h) + 1] = e
  BY OneMore
<1> QED  BY <1>1 DEF Pairs

\* The designs reported are the designs measured.
LEMMA ReportedIsMeasured == {pair[1] : pair \in Pairs(history)} = Measured
<1> DEFINE pairOf(i) == <<history[i].design, [score |-> history[i].score, broken |-> history[i].broken]>>
<1>1. \A i : pairOf(i)[1] = history[i].design
  OBVIOUS
<1>2. Pairs(history) = {pairOf(i) : i \in DOMAIN history}
  BY DEF Pairs
<1> HIDE DEF pairOf
<1> QED  BY <1>1, <1>2 DEF Measured

\* A step that records nothing and leaves the loop neither way is a stutter.
LEMMA RecordsNothing ==
  ASSUME history' = history, (pc' = "done") = (pc = "done")
  PROVE  UNCHANGED Anytime!vars
<1>1. Pairs(history') = Pairs(history) /\ Len(history') = Len(history)
  OBVIOUS
<1>2. UNCHANGED (pc = "done")
  OBVIOUS
<1> QED  BY <1>1, <1>2 DEF Anytime!vars, Pairs

\* A measurement that was not in the history is a report.
LEMMA RecordReports ==
  ASSUME IInv, NEW d \in Design, d \notin Measured, NEW e \in Entry,
         history' = Append(history, e), e.design = d, e.score = landscape[d].score,
         Len(history) <= MostDesigns, pc # "done", pc' # "done"
  PROVE  Anytime!Report
<1> DEFINE r == [score |-> e.score, broken |-> e.broken]
<1>1. r \in Reportable
  <2>1. e.broken \in Cap /\ landscape \in Landscapes
    BY DEF Entry, IInv, TypeOK
  <2> QED  BY <2>1 DEF Reportable
<1>2. history \in Seq(Entry)
  BY DEF IInv, TypeOK
<1>3. Pairs(history') = Pairs(history) \cup {<<d, r>>} /\ Len(history') = Len(history) + 1
  BY <1>2, OneMorePair, OneMore
<1>4. d \notin {pair[1] : pair \in Pairs(history)}
  BY ReportedIsMeasured
<1> HIDE DEF r
<1> QED  BY <1>1, <1>3, <1>4 DEF Anytime!Report, Anytime!Reported, Pairs

\* Every step is one of the abstract arm or a stutter.
LEMMA NextImplements == IInv /\ [Next]_vars => [Anytime!Next]_(Anytime!vars)
<1> SUFFICES ASSUME IInv, [Next]_vars PROVE Anytime!Next \/ UNCHANGED Anytime!vars
  OBVIOUS
<1>1. CASE MeasureStock
  <2> DEFINE e == [design |-> Stock, score |-> landscape[Stock].score, broken |-> "none", round |-> 0]
  <2>1. history = <<>> /\ Measured = {}
    BY <1>1 DEF IInv, IndicesInRange, MeasureStock, Measured
  <2>2. e \in Entry /\ Stock \in Design
    BY LandscapeSays, DesignsOfTheSpace DEF Entry, Cap, IInv, TypeOK
  <2>3. history' = Append(history, e) /\ Len(history) <= MostDesigns
    BY <1>1, <2>1, MostDesignsBound DEF MeasureStock
  <2>4. e.design = Stock /\ e.score = landscape[Stock].score /\ pc # "done" /\ pc' # "done"
    BY <1>1 DEF MeasureStock
  <2> HIDE DEF e
  <2>5. Anytime!Report
    BY <2>1, <2>2, <2>3, <2>4, RecordReports
  <2> QED  BY <2>5 DEF Anytime!Next
<1>2. ASSUME NEW d \in Design, Record(d) PROVE Anytime!Next
  <2> DEFINE e == [design |-> d, score |-> landscape[d].score,
                   broken |-> landscape[d].broken, round |-> roundNumber]
  <2>1. /\ history' = Append(history, e) /\ d \notin Measured
        /\ pc = "measure" /\ pc' = "measure" /\ cursor \in DOMAIN planned
    BY <1>2 DEF Record, Simulate, Fresh
  <2>2. e \in Entry
    BY LandscapeSays DEF Entry, IInv, TypeOK
  <2>3. Len(history) <= MostDesigns
    BY <2>1, CursorInTheWave
  <2>4. e.design = d /\ e.score = landscape[d].score
    OBVIOUS
  <2> HIDE DEF e
  <2>5. Anytime!Report
    BY <2>1, <2>2, <2>3, <2>4, RecordReports
  <2> QED  BY <2>5 DEF Anytime!Next
<1>3. CASE EndSearch \/ Judge
  <2>1. history' = history /\ pc # "done" /\ pc # "stock"
    BY <1>3 DEF EndSearch, Judge, runVars
  <2>2. CASE pc' = "done"
    <3>1. Len(history) > 0
      BY <2>1 DEF IInv, IndicesInRange, TypeOK
    <3>2. Anytime!Return
      BY <2>1, <2>2, <3>1 DEF Anytime!Return
    <3> QED  BY <3>2 DEF Anytime!Next
  <2>3. CASE pc' # "done"
    BY <2>1, <2>3, RecordsNothing
  <2> QED  BY <2>2, <2>3
<1>4. CASE OpeningDesign \/ DrawOpener \/ OpeningReady \/ OpeningMeasured
  <2>1. history' = history /\ pc # "done" /\ pc' # "done"
    BY <1>4 DEF OpeningDesign, DrawOpener, OpeningReady, OpeningMeasured, runVars
  <2> QED  BY <2>1, RecordsNothing
<1>5. CASE Propose
  <2>1. history' = history /\ pc # "done" /\ pc' # "done"
    BY <1>5 DEF Propose, StartRound, Statistician, Analyst, Repair, RepairsDone, Specialist,
                SpecialistsDone, Fill, FillDone, runVars
  <2> QED  BY <2>1, RecordsNothing
<1>6. ASSUME NEW d \in Design, ReadBack \/ DropCrashed(d) \/ DropInterrupted(d)
      PROVE  UNCHANGED Anytime!vars
  <2>1. history' = history /\ pc # "done" /\ pc' # "done"
    BY <1>6 DEF ReadBack, DropCrashed, DropInterrupted, Simulate, runVars
  <2> QED  BY <2>1, RecordsNothing
<1>7. CASE Done \/ UNCHANGED vars
  BY <1>7, RecordsNothing DEF Done, vars
<1>8. CASE ReadBack
  <2>1. Stock \in Design
    BY DesignsOfTheSpace
  <2> QED  BY <1>6, <1>8, <2>1
<1> QED
  BY <1>1, <1>2, <1>3, <1>4, <1>5, <1>6, <1>7, <1>8 DEF Next, Step, Open, Measure

\* The council's search implements what AnytimeSearch promises of an arm.
THEOREM Refinement == Spec => ImplementsAnytimeSearch
<1>1. Init => Anytime!Init
  BY DEF Init, Anytime!Init
<1>2. IInv /\ [Next]_vars => [Anytime!Next]_(Anytime!vars)
  BY NextImplements
<1> QED
  BY <1>1, <1>2, Invariance, PTL DEF Spec, ImplementsAnytimeSearch, Anytime!Spec
=============================================================================
