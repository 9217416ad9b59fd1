----------------------------- MODULE RandomProofs -----------------------------
(***************************************************************************)
(* The random arm never passes its budget, measures a design once, follows *)
(* the list its seed drew, can be rebuilt from that seed and implements    *)
(* AnytimeSearch, for any list, budget and batch.                          *)
(***************************************************************************)
EXTENDS RandomSearch, WellFoundedInduction, TLAPS

\* What one more element does to a sequence.
LEMMA OneMore ==
  ASSUME NEW S, NEW s \in Seq(S), NEW e \in S
  PROVE  /\ Append(s, e) \in Seq(S)
         /\ Len(Append(s, e)) = Len(s) + 1
         /\ DOMAIN Append(s, e) = DOMAIN s \cup {Len(s) + 1}
         /\ \A i \in DOMAIN s : Append(s, e)[i] = s[i]
         /\ Append(s, e)[Len(s) + 1] = e
         /\ Len(s) + 1 \notin DOMAIN s
OBVIOUS

\* What is left of a sequence without its first element.
LEMMA OneLess ==
  ASSUME NEW S, NEW s \in Seq(S), s # <<>>
  PROVE  /\ Tail(s) \in Seq(S)
         /\ Len(s) \in Nat /\ Len(s) > 0
         /\ Len(Tail(s)) = Len(s) - 1
         /\ 1 \in DOMAIN s /\ Head(s) = s[1] /\ Head(s) \in S
         /\ \A i \in DOMAIN Tail(s) : i + 1 \in DOMAIN s /\ Tail(s)[i] = s[i + 1] /\ i + 1 # 1
OBVIOUS

\* The list drawn names designs, each once.
LEMMA DrawnList ==
  ASSUME IInv
  PROVE  /\ drawn \in Seq(Design)
         /\ Len(drawn) \in Nat /\ DOMAIN drawn = 1..Len(drawn)
         /\ \A i, j \in 1..Len(drawn) : drawn[i] = drawn[j] => i = j
         /\ \A i \in 1..Len(drawn) : drawn[i] \in Design
<1>1. drawn \in Seq(Design)
  BY DEF IInv, TypeOK
<1>2. Len(drawn) \in Nat /\ DOMAIN drawn = 1..Len(drawn) /\ \A i \in 1..Len(drawn) : drawn[i] \in Design
  BY <1>1
<1> QED  BY <1>1, <1>2 DEF IInv, DrawnOnce

-----------------------------------------------------------------------------
(***************************************************************************)
(* Each action keeps the invariant.                                        *)
(***************************************************************************)

\* Nothing is drawn or measured at the start.
LEMMA InitIInv == Init => IInv
BY DEF Init, IInv, TypeOK, DrawnOnce, FromThePool, MeasuredOnce, RoomLeft, InBatch, Measured

\* The stock is the first design measured.
LEMMA MeasureStockKeeps == IInv /\ MeasureStock => IInv'
<1> SUFFICES ASSUME IInv, MeasureStock PROVE IInv'
  OBVIOUS
<1> USE DEF IInv, MeasureStock
<1>1. /\ history' = <<Stock>> /\ history' \in Seq(Design) /\ Len(history') = 1
      /\ DOMAIN history' = {1} /\ history'[1] = Stock
  BY ArmAssumption
<1>2. batch = <<>> /\ batch' = <<>>
  BY DEF RoomLeft
<1>3. TypeOK' /\ DrawnOnce'
  BY <1>1 DEF TypeOK, DrawnOnce
<1>4. FromThePool' /\ MeasuredOnce'
  BY <1>1, <1>2 DEF FromThePool, MeasuredOnce, InBatch, Measured
<1>5. RoomLeft'
  BY <1>1, <1>2, ArmAssumption DEF RoomLeft
<1> QED  BY <1>3, <1>4, <1>5

\* A sampled design joins the end of the list, which holds none like it.
LEMMA SampleKeeps == IInv /\ Sample => IInv'
<1> SUFFICES ASSUME IInv, Sample PROVE IInv'
  OBVIOUS
<1>0. /\ drawn \in Seq(Design)
      /\ Len(drawn) \in Nat /\ DOMAIN drawn = 1..Len(drawn)
      /\ \A i, j \in 1..Len(drawn) : drawn[i] = drawn[j] => i = j
      /\ \A i \in 1..Len(drawn) : drawn[i] \in Design
  BY DrawnList
<1> USE DEF IInv
<1>1. PICK knobs \in Design : IsFresh(knobs) /\ drawn' = Append(drawn, knobs)
  BY DEF Sample
<1>2. pc = "sample" /\ UNCHANGED <<feasible, runs, pc, popped, batch, history>>
  BY DEF Sample
<1>3. /\ drawn' \in Seq(Design)
      /\ Len(drawn') = Len(drawn) + 1
      /\ DOMAIN drawn' = DOMAIN drawn \cup {Len(drawn) + 1}
      /\ \A i \in DOMAIN drawn : drawn'[i] = drawn[i]
      /\ drawn'[Len(drawn) + 1] = knobs
  BY <1>1, <1>0, OneMore
<1>4. \A i \in DOMAIN drawn : drawn[i] # knobs
  BY <1>1 DEF IsFresh, InPool
<1>5. popped = 0 /\ batch = <<>> /\ popped' = 0 /\ Len(drawn) \in Nat
  BY <1>2, <1>0 DEF DrawnOnce, RoomLeft
<1>6. TypeOK'
  BY <1>2, <1>3, <1>5 DEF TypeOK
<1>7. \A i, j \in DOMAIN drawn' : drawn'[i] = drawn'[j] => i = j
  BY <1>3, <1>4 DEF DrawnOnce
<1>8. DrawnOnce'
  BY <1>2, <1>5, <1>7 DEF DrawnOnce
<1>9. Popped = {} /\ Popped' = {}
  BY <1>5 DEF Popped
<1>10. FromThePool' /\ MeasuredOnce' /\ RoomLeft'
  BY <1>2, <1>9 DEF FromThePool, MeasuredOnce, RoomLeft, InBatch, Measured
<1> QED  BY <1>6, <1>8, <1>10

\* A design that joins the batch is the next of the list, new to the batch and
\* to the history.
LEMMA DrawKeeps == IInv /\ Draw => IInv'
<1> SUFFICES ASSUME IInv, Draw PROVE IInv'
  OBVIOUS
<1>0. /\ drawn \in Seq(Design)
      /\ Len(drawn) \in Nat /\ DOMAIN drawn = 1..Len(drawn)
      /\ \A i, j \in 1..Len(drawn) : drawn[i] = drawn[j] => i = j
      /\ \A i \in 1..Len(drawn) : drawn[i] \in Design
  BY DrawnList
<1> USE DEF IInv
<1> DEFINE next == drawn[popped + 1]
<1>1. /\ runs \in Runs /\ popped \in 0..Len(drawn) /\ popped # Len(drawn)
      /\ batch \in Seq(Design) /\ history \in Seq(Design)
      /\ pc = "draw" /\ popped' = popped + 1
      /\ UNCHANGED <<feasible, drawn, runs, pc, history>>
      /\ Len(batch) < Room
      /\ batch' = IF next # Stock THEN Append(batch, next) ELSE batch
  BY DEF TypeOK, Draw, IsNew, PoolIsEmpty
<1>2. /\ popped + 1 \in 1..Len(drawn) /\ Len(drawn) \in Nat /\ popped \in Nat
      /\ next \in Design
      /\ next \notin Popped
      /\ Popped' = Popped \cup {next}
  <2>1. popped + 1 \in 1..Len(drawn) /\ Len(drawn) \in Nat /\ popped \in Nat
    <3>1. Len(drawn) \in Nat /\ popped \in 0..Len(drawn) /\ popped # Len(drawn)
      BY <1>1, <1>0
    <3> HIDE DEF IInv
    <3> QED  BY ONLY <3>1
  <2>2. next \notin Popped
    <3>1. \A i \in 1..popped : i \in 1..Len(drawn) /\ i # popped + 1
      BY ONLY <2>1
    <3>2. \A i \in 1..popped : drawn[i] # drawn[popped + 1]
      BY <1>0, <2>1, <3>1
    <3> QED  BY <3>2 DEF Popped
  <2>3. 1..(popped + 1) = (1..popped) \cup {popped + 1}
    BY <2>1
  <2>4. Popped' = Popped \cup {next}
    BY <1>1, <2>3 DEF Popped
  <2> QED  BY <1>1, <2>1, <2>2, <2>4, <1>0
<1>3. Measured' = Measured
  BY <1>1 DEF Measured
<1>4. RoomLeft /\ Len(history) \in Nat /\ Len(batch) \in Nat /\ history # <<>>
      /\ Len(history) - 1 + Len(batch) <= Budget
      /\ Len(history) - 1 + Len(batch) + 1 <= Budget
  <2>1. Len(history) \in Nat /\ Len(batch) \in Nat /\ history # <<>>
    BY <1>1 DEF RoomLeft
  <2> QED  BY <1>1, <2>1, ArmAssumption DEF Room, RoomLeft
<1>5. CASE next = Stock
  <2>1. batch' = batch /\ InBatch' = InBatch
    BY <1>1, <1>5 DEF InBatch
  <2>2. TypeOK'
    BY <1>1, <1>2, <2>1 DEF TypeOK
  <2>3. FromThePool' /\ MeasuredOnce' /\ DrawnOnce'
    BY <1>1, <1>2, <1>3, <2>1 DEF FromThePool, MeasuredOnce, DrawnOnce
  <2>4. RoomLeft'
    BY <1>1, <1>4, <2>1 DEF RoomLeft
  <2> QED  BY <2>2, <2>3, <2>4
<1>6. CASE next # Stock
  <2>1. batch' = Append(batch, next)
    BY <1>1, <1>6
  <2>2. /\ batch' \in Seq(Design)
        /\ Len(batch') = Len(batch) + 1
        /\ DOMAIN batch' = DOMAIN batch \cup {Len(batch) + 1}
        /\ \A i \in DOMAIN batch : batch'[i] = batch[i]
        /\ batch'[Len(batch) + 1] = next
    BY <1>1, <1>2, <2>1, OneMore
  <2>3. InBatch' = InBatch \cup {next}
    BY <2>2 DEF InBatch
  <2>4. next \notin InBatch /\ next \notin Measured
    BY <1>2, <1>6 DEF FromThePool
  <2>5. TypeOK'
    BY <1>1, <1>2, <2>2 DEF TypeOK
  <2>6. \A i, j \in DOMAIN batch' : batch'[i] = batch'[j] => i = j
    <3>1. \A i \in DOMAIN batch : batch[i] # next
      BY <2>4 DEF InBatch
    <3> QED  BY <2>2, <3>1 DEF FromThePool
  <2>9. DrawnOnce'
    BY <1>1 DEF DrawnOnce
  <2>7. FromThePool' /\ MeasuredOnce'
    BY <1>1, <1>2, <1>3, <1>6, <2>3, <2>4, <2>6 DEF FromThePool, MeasuredOnce
  <2>8. RoomLeft'
    BY <1>1, <1>4, <2>2 DEF RoomLeft
  <2> QED  BY <2>5, <2>7, <2>8, <2>9
<1> QED  BY <1>5, <1>6

\* The first of the batch leaves it.
LEMMA BatchShrinks ==
  ASSUME IInv, batch # <<>>, batch' = Tail(batch)
  PROVE  /\ batch' \in Seq(Design)
         /\ Len(batch) \in Nat /\ Len(batch') = Len(batch) - 1
         /\ Head(batch) \in Design /\ Head(batch) \in InBatch
         /\ Head(batch) \notin InBatch'
         /\ InBatch' \subseteq InBatch
         /\ \A i, j \in DOMAIN batch' : batch'[i] = batch'[j] => i = j
<1>1. batch \in Seq(Design) /\ \A i, j \in DOMAIN batch : batch[i] = batch[j] => i = j
  BY DEF IInv, TypeOK, FromThePool
<1>2. /\ batch' \in Seq(Design)
      /\ Len(batch) \in Nat /\ Len(batch') = Len(batch) - 1
      /\ 1 \in DOMAIN batch /\ Head(batch) = batch[1] /\ Head(batch) \in Design
      /\ \A i \in DOMAIN batch' : i + 1 \in DOMAIN batch /\ batch'[i] = batch[i + 1] /\ i + 1 # 1
  BY <1>1, OneLess
<1>3. Head(batch) \in InBatch /\ Head(batch) \notin InBatch' /\ InBatch' \subseteq InBatch
  BY <1>1, <1>2 DEF InBatch
<1>4. \A i, j \in DOMAIN batch' : batch'[i] = batch'[j] => i = j
  <2>1. DOMAIN batch' \subseteq Int
    BY <1>2
  <2> QED  BY <1>1, <1>2, <2>1
<1> QED  BY <1>2, <1>3, <1>4

\* A dropped design leaves the batch only.
LEMMA DropKeeps == IInv /\ Drop => IInv'
<1> SUFFICES ASSUME IInv, Drop PROVE IInv'
  OBVIOUS
<1> USE DEF IInv
<1>1. batch # <<>> /\ batch' = Tail(batch) /\ pc = "measure" /\ UNCHANGED <<feasible, drawn, runs, pc, popped, history>>
  BY DEF Drop, OthersLeft
<1>2. TypeOK' /\ DrawnOnce'
  BY <1>1, BatchShrinks DEF TypeOK, DrawnOnce
<1>3. Popped' = Popped /\ Measured' = Measured
  BY <1>1 DEF Popped, Measured
<1>4. FromThePool' /\ MeasuredOnce'
  BY <1>1, <1>3, BatchShrinks DEF FromThePool, MeasuredOnce
<1>5. RoomLeft'
  <2>1. Len(history) \in Nat
    BY DEF TypeOK
  <2> QED  BY <1>1, <2>1, BatchShrinks, ArmAssumption DEF RoomLeft
<1> QED  BY <1>2, <1>4, <1>5

\* A measured design moves from the batch to the history.
LEMMA KeepKeeps == IInv /\ Keep => IInv'
<1> SUFFICES ASSUME IInv, Keep PROVE IInv'
  OBVIOUS
<1> USE DEF IInv
<1>1. /\ batch # <<>> /\ batch' = Tail(batch) /\ pc = "measure"
      /\ UNCHANGED <<feasible, drawn, runs, pc, popped>>
      /\ history' = Append(history, Head(batch))
  BY DEF Keep
<1>2. Head(batch) \in Design /\ Head(batch) \notin Measured
  BY <1>1, BatchShrinks DEF FromThePool
<1>3. /\ history' \in Seq(Design)
      /\ Len(history) \in Nat /\ Len(history') = Len(history) + 1
      /\ DOMAIN history' = DOMAIN history \cup {Len(history) + 1}
      /\ \A i \in DOMAIN history : history'[i] = history[i]
      /\ history'[Len(history) + 1] = Head(batch)
  <2>1. history \in Seq(Design)
    BY DEF TypeOK
  <2> QED  BY <1>1, <1>2, <2>1, OneMore
<1>4. TypeOK' /\ DrawnOnce'
  BY <1>1, <1>3, BatchShrinks DEF TypeOK, DrawnOnce
<1>5. Popped' = Popped /\ Measured' = Measured \cup {Head(batch)}
  BY <1>1, <1>3 DEF Popped, Measured
<1>6. FromThePool'
  BY <1>1, <1>5, BatchShrinks DEF FromThePool
<1>7. MeasuredOnce'
  <2>1. \A i \in DOMAIN history : history[i] # Head(batch)
    BY <1>2 DEF Measured
  <2> QED  BY <1>3, <2>1 DEF MeasuredOnce
<1>8. RoomLeft'
  BY <1>1, <1>3, BatchShrinks, ArmAssumption DEF RoomLeft
<1> QED  BY <1>4, <1>6, <1>7, <1>8

\* The steps that only move the loop.
LEMMA LoopKeeps == IInv /\ (Sampled \/ Reject \/ SendBatch \/ NextRound \/ Return \/ Done \/ UNCHANGED vars) => IInv'
<1> SUFFICES ASSUME IInv, Sampled \/ Reject \/ SendBatch \/ NextRound \/ Return \/ Done \/ UNCHANGED vars PROVE IInv'
  OBVIOUS
<1> USE DEF IInv
<1>1. UNCHANGED <<feasible, drawn, runs, popped, batch, history>>
  BY DEF Sampled, Reject, SendBatch, NextRound, Return, Done, vars
<1>2. TypeOK' /\ DrawnOnce'
  BY <1>1 DEF TypeOK, DrawnOnce, Sampled, Reject, SendBatch, NextRound, Return, Done, vars
<1>3. FromThePool' /\ MeasuredOnce'
  BY <1>1 DEF FromThePool, MeasuredOnce, Popped, InBatch, Measured
<1>4. RoomLeft'
  <2>1. Len(history) \in Nat /\ Len(batch) \in Nat
    BY DEF TypeOK
  <2>2. \/ pc' = pc
        \/ pc = "draw" /\ pc' \in {"measure", "done"}
        \/ pc \in {"sample", "measure"} /\ pc' = "draw"
    BY DEF Sampled, Reject, SendBatch, NextRound, Return, Done, vars
  <2> QED  BY <1>1, <2>1, <2>2, ArmAssumption DEF RoomLeft
<1> QED  BY <1>2, <1>3, <1>4

\* One step keeps the invariant.
LEMMA NextKeeps == IInv /\ [Next]_vars => IInv'
BY MeasureStockKeeps, SampleKeeps, DrawKeeps, DropKeeps, KeepKeeps, LoopKeeps DEF Next, Step

-----------------------------------------------------------------------------
(***************************************************************************)
(* The theorems.                                                           *)
(***************************************************************************)

\* The strengthened invariant holds of every state of the arm.
THEOREM Invariance == Spec => []IInv
<1>1. Init => IInv
  BY InitIInv
<1>2. IInv /\ [Next]_vars => IInv'
  BY NextKeeps
<1> QED  BY <1>1, <1>2, PTL DEF Spec

\* The arm's locals keep their types.
THEOREM TypeCorrect == Spec => []TypeOK
<1>1. IInv => TypeOK
  BY DEF IInv
<1> QED  BY <1>1, Invariance, PTL

\* The arm never measures more designs than its budget, whatever the batch.
THEOREM WithinBudget == Spec => []NeverOverBudget
<1>1. IInv => NeverOverBudget
  <2> SUFFICES ASSUME IInv PROVE Len(history) - 1 <= Budget
    BY DEF NeverOverBudget
  <2>1. Len(history) \in Nat /\ Len(batch) \in Nat /\ pc \in {"stock", "sample", "draw", "measure", "done"}
    BY DEF IInv, TypeOK
  <2> QED  BY <2>1, ArmAssumption DEF IInv, RoomLeft
<1> QED  BY <1>1, Invariance, PTL

\* No design is measured twice, although the list may hold the stock.
THEOREM EvaluatedOnce == Spec => []MeasuredOnce
<1>1. IInv => MeasuredOnce
  BY DEF IInv
<1> QED  BY <1>1, Invariance, PTL

\* A step of the arm is a report, the return or nothing to AnytimeSearch.
LEMMA NextImplements == IInv /\ [Next]_vars => [Anytime!Next]_(Anytime!vars)
<1> SUFFICES ASSUME IInv, [Next]_vars PROVE Anytime!Next \/ UNCHANGED Anytime!vars
  OBVIOUS
<1> DEFINE Pairs(M) == {<<d, "measured">> : d \in M}
<1>1. ASSUME NEW d \in Design, d \notin Measured, history' = Append(history, d),
             Len(history) <= Budget, pc # "done", pc' # "done"
      PROVE  Anytime!Next
  <2>1. history \in Seq(Design)
    BY DEF IInv, TypeOK
  <2>2. /\ Len(history') = Len(history) + 1
        /\ DOMAIN history' = DOMAIN history \cup {Len(history) + 1}
        /\ \A i \in DOMAIN history : history'[i] = history[i]
        /\ history'[Len(history) + 1] = d
    BY <1>1, <2>1, OneMore
  <2>3. Measured' = Measured \cup {d}
    BY <2>2 DEF Measured
  <2>4. Pairs(Measured') = Pairs(Measured) \cup {<<d, "measured">>}
    BY <2>3
  <2>5. d \notin {pair[1] : pair \in Pairs(Measured)}
    BY <1>1
  <2>6. Anytime!Report
    BY <1>1, <2>2, <2>4, <2>5 DEF Anytime!Report, Anytime!Reported
  <2> QED  BY <2>6 DEF Anytime!Next
<1>2. CASE MeasureStock
  <2>1. history = <<>> /\ Stock \in Design /\ Len(history) <= Budget /\ Measured = {}
    BY <1>2, ArmAssumption DEF IInv, RoomLeft, MeasureStock, Measured
  <2>2. history' = Append(history, Stock) /\ pc # "done" /\ pc' # "done"
    BY <1>2, <2>1 DEF MeasureStock
  <2> QED  BY <1>1, <2>1, <2>2
<1>3. CASE Keep
  <2>1. /\ batch # <<>> /\ batch' = Tail(batch) /\ pc = "measure" /\ pc' = "measure"
        /\ history' = Append(history, Head(batch))
    BY <1>3 DEF Keep
  <2>2. Head(batch) \in Design /\ Head(batch) \notin Measured
    BY <2>1, BatchShrinks DEF IInv, FromThePool
  <2>3. Len(history) <= Budget
    <3>1. batch \in Seq(Design) /\ Len(history) \in Nat
      BY DEF IInv, TypeOK
    <3>2. Len(batch) \in Nat /\ Len(batch) > 0
      BY <2>1, <3>1, OneLess
    <3> QED  BY <2>1, <3>1, <3>2, ArmAssumption DEF IInv, RoomLeft
  <2> QED  BY <1>1, <2>1, <2>2, <2>3
<1>4. CASE Return
  <2>1. history # <<>> /\ history \in Seq(Design)
    BY <1>4 DEF Return, IInv, RoomLeft, TypeOK
  <2>2. Len(history) > 0
    BY <2>1
  <2>3. Anytime!Return
    BY <1>4, <2>2 DEF Return, Anytime!Return, Measured
  <2> QED  BY <2>3 DEF Anytime!Next
<1>5. CASE Sample \/ Sampled \/ Reject \/ Draw \/ SendBatch \/ Drop \/ NextRound \/ Done \/ UNCHANGED vars
  <2>1. history' = history
    BY <1>5 DEF Sample, Sampled, Reject, Draw, SendBatch, Drop, NextRound, Done, vars
  <2>2. UNCHANGED (pc = "done")
    BY <1>5 DEF Sample, Sampled, Reject, Draw, SendBatch, Drop, NextRound, Done, vars
  <2> QED  BY <2>1, <2>2 DEF Anytime!vars, Measured
<1> QED  BY <1>2, <1>3, <1>4, <1>5 DEF Next, Step

\* The random arm implements what AnytimeSearch promises of an arm.
THEOREM Refinement == Spec => ImplementsAnytimeSearch
<1>1. Init => Anytime!Init
  BY DEF Init, Anytime!Init, Measured
<1>2. IInv /\ [Next]_vars => [Anytime!Next]_(Anytime!vars)
  BY NextImplements
<1> QED
  BY <1>1, <1>2, Invariance, PTL DEF Spec, ImplementsAnytimeSearch, Anytime!Spec
-----------------------------------------------------------------------------
(***************************************************************************)
(* The order of the measurements.                                          *)
(***************************************************************************)

\* What the invariant says of the pool's popped part, pointwise.
LEMMA PoppedPart ==
  ASSUME IInv
  PROVE  /\ popped \in Nat /\ Len(drawn) \in Nat /\ popped <= Len(drawn)
         /\ \A i \in 1..popped : i \in 1..Len(drawn) /\ i \in Nat /\ drawn[i] \in Popped /\ drawn[i] \in Design
         /\ \A i, j \in 1..Len(drawn) : drawn[i] = drawn[j] => i = j
         /\ \A d \in Popped : \E i \in 1..popped : drawn[i] = d
         /\ history \in Seq(Design) /\ batch \in Seq(Design)
         /\ \A k \in DOMAIN history : history[k] \in Measured
         /\ \A k \in DOMAIN batch : batch[k] \in InBatch /\ batch[k] \in Popped /\ batch[k] # Stock
<1>1. popped \in Nat /\ Len(drawn) \in Nat /\ popped <= Len(drawn)
  BY DrawnList DEF IInv, TypeOK
<1>2. \A i \in 1..popped : i \in 1..Len(drawn) /\ i \in Nat
  BY ONLY <1>1
<1>3. \A k \in DOMAIN batch : batch[k] \in InBatch
  BY DEF InBatch
<1>4. \A k \in DOMAIN history : history[k] \in Measured
  BY DEF Measured
<1> QED
  BY <1>1, <1>2, <1>3, <1>4, DrawnList DEF Popped, IInv, TypeOK, FromThePool

\* The batch is its first design and the others, in order.
LEMMA BatchSplits ==
  ASSUME IInv, batch # <<>>, batch' = Tail(batch)
  PROVE  /\ 1 \in DOMAIN batch /\ Head(batch) = batch[1]
         /\ \A k \in DOMAIN batch' : k + 1 \in DOMAIN batch /\ batch'[k] = batch[k + 1] /\ 1 < k + 1 /\ k \in Nat
         /\ InBatch = InBatch' \cup {Head(batch)}
<1>1. batch \in Seq(Design)
  BY DEF IInv, TypeOK
<1>2. /\ Len(batch) \in Nat /\ DOMAIN batch = 1..Len(batch) /\ Len(batch) > 0
      /\ DOMAIN batch' = 1..(Len(batch) - 1) /\ Head(batch) = batch[1]
      /\ \A k \in 1..(Len(batch) - 1) : batch'[k] = batch[k + 1]
  BY <1>1
<1>3. /\ 1 \in DOMAIN batch
      /\ \A k \in DOMAIN batch' : k + 1 \in DOMAIN batch /\ batch'[k] = batch[k + 1] /\ 1 < k + 1 /\ k \in Nat
  BY <1>2
<1>4. \A k \in DOMAIN batch : k = 1 \/ (k - 1 \in DOMAIN batch' /\ batch'[k - 1] = batch[k])
  BY <1>2
<1>5. InBatch \subseteq InBatch' \cup {Head(batch)}
  <2> SUFFICES ASSUME NEW k \in DOMAIN batch PROVE batch[k] \in InBatch' \cup {Head(batch)}
    BY DEF InBatch
  <2>1. CASE k = 1
    BY <1>2, <2>1
  <2>2. CASE k - 1 \in DOMAIN batch' /\ batch'[k - 1] = batch[k]
    BY <2>2 DEF InBatch
  <2> QED  BY <1>4, <2>1, <2>2
<1>6. InBatch' \cup {Head(batch)} \subseteq InBatch
  BY <1>2, <1>3 DEF InBatch
<1> QED  BY <1>2, <1>3, <1>5, <1>6

\* What is left of a batch is in the list's order.
LEMMA RestInOrder ==
  ASSUME IInv, InListOrder(batch), batch # <<>>, batch' = Tail(batch), drawn' = drawn, popped' = popped
  PROVE  InListOrder(batch)'
<1> SUFFICES ASSUME NEW k \in DOMAIN batch', NEW l \in DOMAIN batch', k < l,
                    NEW i \in 1..popped, NEW j \in 1..popped, drawn[i] = batch'[k], drawn[j] = batch'[l]
             PROVE  i < j \/ batch'[k] = Stock
  BY DEF InListOrder
<1>1. k + 1 \in DOMAIN batch /\ l + 1 \in DOMAIN batch /\ k + 1 < l + 1
      /\ batch'[k] = batch[k + 1] /\ batch'[l] = batch[l + 1]
  BY BatchSplits
<1> QED
  BY <1>1 DEF InListOrder

\* Before the first draw nothing is popped, so nothing is out of order.
LEMMA SamplingInOrder ==
  ASSUME IInv, OrderInv, MeasureStock \/ Sample PROVE OrderInv'
<1>1. popped' = 0 /\ pc' # "done" /\ (pc' # "stock" => history'[1] = Stock)
  BY DEF MeasureStock, Sample, IInv, DrawnOnce, OrderInv, StockFirst
<1>2. 1..popped' = {}
  BY <1>1
<1> QED
  BY <1>1, <1>2 DEF OrderInv, NoneIsLost, InListOrder, BatchComesLast, StockFirst

\* A design drawn comes after all that were drawn before.
LEMMA DrawInOrder == ASSUME IInv, OrderInv, Draw PROVE OrderInv'
<1> DEFINE next == drawn[popped + 1]
<1>1. /\ pc = "draw" /\ popped # Len(drawn) /\ popped' = popped + 1
      /\ UNCHANGED <<feasible, drawn, runs, pc, history>>
      /\ batch' = IF next # Stock THEN Append(batch, next) ELSE batch
  BY DEF Draw, IsNew, PoolIsEmpty
<1>2. /\ popped + 1 \in 1..Len(drawn) /\ popped \in Nat
      /\ \A i \in 1..popped' : i \in 1..popped \/ i = popped + 1
      /\ \A i \in 1..popped : i < popped + 1
  <2>1. popped \in Nat /\ Len(drawn) \in Nat /\ popped <= Len(drawn) /\ popped # Len(drawn) /\ popped' = popped + 1
    BY <1>1, PoppedPart
  <2> QED  BY ONLY <2>1
<1>3. next \notin Popped /\ next \in Design
  <2>1. \A i \in 1..popped : drawn[i] # next
    BY <1>2, PoppedPart
  <2> QED
    BY <1>2, <2>1, DrawnList DEF Popped
<1>4. Measured' = Measured /\ Sure' = Sure
  BY <1>1 DEF Measured, Sure
<1>5. Measured \subseteq Popped \cup {Stock}
  BY DEF IInv, FromThePool
<1> HIDE DEF next
<1>6. CASE next = Stock
  <2>1. batch' = batch /\ InBatch' = InBatch
    BY <1>1, <1>6 DEF InBatch
  <2>2. NoneIsLost'
    BY <1>1, <1>2, <1>4, <1>6, <2>1 DEF next, OrderInv, NoneIsLost, Sure
  <2>3. ASSUME NEW seq, InListOrder(seq), \A k \in DOMAIN seq : seq[k] \in Popped \cup {Stock},
               NEW k \in DOMAIN seq, NEW l \in DOMAIN seq, k < l,
               NEW i \in 1..popped', NEW j \in 1..popped', drawn[i] = seq[k], drawn[j] = seq[l]
        PROVE  i < j \/ seq[k] = Stock
    BY <1>2, <1>3, <2>3 DEF next, InListOrder
  <2>4. InListOrder(history)' /\ InListOrder(batch)'
    <3>1. \A k \in DOMAIN history : history[k] \in Popped \cup {Stock}
      BY <1>5, PoppedPart
    <3>2. \A k \in DOMAIN batch : batch[k] \in Popped \cup {Stock}
      BY PoppedPart
    <3>3. InListOrder(history) /\ InListOrder(batch)
      BY DEF OrderInv
    <3>4. InListOrder(history)'
      BY <1>1, <2>3, <3>1, <3>3 DEF InListOrder
    <3>5. InListOrder(batch)'
      BY <1>1, <2>1, <2>3, <3>2, <3>3 DEF InListOrder
    <3> QED  BY <3>4, <3>5
  <2>5. BatchComesLast'
    <3>1. InBatch \subseteq Popped
      BY DEF IInv, FromThePool
    <3> QED
      BY <1>1, <1>2, <1>3, <1>4, <1>5, <2>1, <3>1 DEF next, OrderInv, BatchComesLast
  <2> QED
    BY <1>1, <2>2, <2>4, <2>5 DEF OrderInv, StockFirst
<1>7. CASE next # Stock
  <2>1. /\ DOMAIN batch' = DOMAIN batch \cup {Len(batch) + 1}
        /\ \A k \in DOMAIN batch : batch'[k] = batch[k]
        /\ batch'[Len(batch) + 1] = next
        /\ \A k \in DOMAIN batch : k < Len(batch) + 1
    <3>1. batch' = Append(batch, next) /\ batch \in Seq(Design)
      BY <1>1, <1>7, PoppedPart
    <3>2. \A k \in DOMAIN batch : k < Len(batch) + 1
      BY <3>1
    <3> QED
      BY <1>3, <3>1, <3>2, OneMore
  <2>2. InBatch' = InBatch \cup {next}
    BY <2>1 DEF InBatch
  <2>3. NoneIsLost'
    BY <1>1, <1>2, <1>4, <2>2 DEF next, OrderInv, NoneIsLost
  <2>4. InListOrder(history)'
    <3> SUFFICES ASSUME NEW k \in DOMAIN history, NEW l \in DOMAIN history, k < l,
                        NEW i \in 1..popped', NEW j \in 1..popped',
                        drawn[i] = history[k], drawn[j] = history[l]
                 PROVE  i < j \/ history[k] = Stock
      BY <1>1 DEF InListOrder
    <3>1. history[k] \in Popped \cup {Stock} /\ history[l] \in Popped \cup {Stock}
      BY <1>5, PoppedPart
    <3>2. InListOrder(history)
      BY DEF OrderInv
    <3> QED
      BY <1>2, <1>3, <3>1, <3>2 DEF next, InListOrder
  <2>5. InListOrder(batch)'
    <3> SUFFICES ASSUME NEW k \in DOMAIN batch', NEW l \in DOMAIN batch', k < l,
                        NEW i \in 1..popped', NEW j \in 1..popped',
                        drawn[i] = batch'[k], drawn[j] = batch'[l]
                 PROVE  i < j
      BY <1>1 DEF InListOrder
    <3>1. k \in DOMAIN batch
      <4>1. batch \in Seq(Design)
        BY PoppedPart
      <4>2. \A n \in DOMAIN batch : ~(Len(batch) + 1 < n)
        BY <4>1
      <4> QED
        BY <2>1, <4>1, <4>2
    <3>2. i \in 1..popped
      <4>1. batch[k] \in Popped
        BY <3>1, PoppedPart
      <4> QED
        BY <1>2, <1>3, <2>1, <3>1, <4>1 DEF next
    <3>3. CASE l \in DOMAIN batch
      <4>1. batch[l] \in Popped /\ batch[k] # Stock
        BY <3>1, <3>3, PoppedPart
      <4>2. j \in 1..popped
        BY <1>2, <1>3, <2>1, <3>3, <4>1 DEF next
      <4> QED
        BY <2>1, <3>1, <3>2, <3>3, <4>1, <4>2 DEF OrderInv, InListOrder
    <3>4. CASE l = Len(batch) + 1
      <4>1. j \notin 1..popped
        BY <1>3, <2>1, <3>4, PoppedPart
      <4> QED
        BY <1>2, <3>2, <4>1
    <3> QED  BY <2>1, <3>3, <3>4
  <2>6. BatchComesLast'
    <3> SUFFICES ASSUME NEW i \in 1..popped', NEW j \in 1..popped',
                        drawn[i] \in Measured \ {Stock}, drawn[j] \in InBatch \cup {next}
                 PROVE  i < j
      BY <1>1, <1>4, <2>2 DEF BatchComesLast
    <3>1. i \in 1..popped
      BY <1>2, <1>3, <1>5 DEF next
    <3>2. j = popped + 1 \/ (j \in 1..popped /\ drawn[j] \in InBatch)
      BY <1>2, <1>3, PoppedPart
    <3> QED
      BY <1>2, <3>1, <3>2 DEF OrderInv, BatchComesLast
  <2> QED
    BY <1>1, <2>3, <2>4, <2>5, <2>6 DEF OrderInv, StockFirst
<1> QED  BY <1>6, <1>7

\* The first of the batch comes after all that were measured.
LEMMA KeepInOrder == ASSUME IInv, OrderInv, Keep PROVE OrderInv'
<1>1. /\ batch # <<>> /\ batch' = Tail(batch) /\ pc = "measure"
      /\ UNCHANGED <<feasible, drawn, runs, pc, popped>>
      /\ history' = Append(history, Head(batch))
  BY DEF Keep
<1>2. /\ 1 \in DOMAIN batch /\ Head(batch) = batch[1]
      /\ \A k \in DOMAIN batch' : k + 1 \in DOMAIN batch /\ batch'[k] = batch[k + 1] /\ 1 < k + 1
      /\ InBatch = InBatch' \cup {Head(batch)}
      /\ Head(batch) \in Design /\ Head(batch) # Stock
  BY <1>1, BatchSplits, BatchShrinks, PoppedPart
<1>3. /\ DOMAIN history' = DOMAIN history \cup {Len(history) + 1}
      /\ \A k \in DOMAIN history : history'[k] = history[k]
      /\ history'[Len(history) + 1] = Head(batch)
      /\ \A k \in DOMAIN history : k < Len(history) + 1
      /\ 1 \in DOMAIN history
  <2>1. history \in Seq(Design) /\ history # <<>>
    BY <1>1, PoppedPart DEF IInv, RoomLeft
  <2>2. 1 \in DOMAIN history /\ \A k \in DOMAIN history : k < Len(history) + 1
    BY <2>1
  <2> QED
    BY <1>1, <1>2, <2>1, <2>2, OneMore
<1>4. Measured' = Measured \cup {Head(batch)} /\ Sure' = Sure
  BY <1>1, <1>3 DEF Measured, Sure
<1>5. NoneIsLost'
  BY <1>1, <1>2, <1>4 DEF OrderInv, NoneIsLost
<1>6. InListOrder(batch)'
  BY <1>1, RestInOrder DEF OrderInv
<1>7. InListOrder(history)'
  <2> SUFFICES ASSUME NEW k \in DOMAIN history', NEW l \in DOMAIN history', k < l,
                      NEW i \in 1..popped, NEW j \in 1..popped,
                      drawn[i] = history'[k], drawn[j] = history'[l]
               PROVE  i < j \/ history'[k] = Stock
    BY <1>1 DEF InListOrder
  <2>1. k \in DOMAIN history
    <3>1. history \in Seq(Design)
      BY PoppedPart
    <3>2. \A n \in DOMAIN history : ~(Len(history) + 1 < n)
      BY <3>1
    <3> QED
      BY <1>3, <3>1, <3>2
  <2>2. CASE l \in DOMAIN history
    BY <1>3, <2>1, <2>2 DEF OrderInv, InListOrder
  <2>3. CASE l = Len(history) + 1
    <3>1. history[k] \in Measured /\ Head(batch) \in InBatch
      BY <1>2, <2>1, PoppedPart
    <3> QED
      BY <1>3, <2>1, <2>3, <3>1 DEF OrderInv, BatchComesLast
  <2> QED  BY <1>3, <2>2, <2>3
<1>8. BatchComesLast'
  <2> SUFFICES ASSUME NEW i \in 1..popped, NEW j \in 1..popped,
                      drawn[i] \in (Measured \cup {Head(batch)}) \ {Stock}, drawn[j] \in InBatch'
               PROVE  i < j
    BY <1>1, <1>4 DEF BatchComesLast
  <2>1. CASE drawn[i] \in Measured
    BY <1>2, <2>1 DEF OrderInv, BatchComesLast
  <2>2. CASE drawn[i] = Head(batch)
    <3>1. PICK k \in DOMAIN batch' : drawn[j] = batch'[k]
      BY DEF InBatch
    <3> QED
      BY <1>2, <2>2, <3>1 DEF OrderInv, InListOrder
  <2> QED  BY <2>1, <2>2
<1>9. StockFirst'
  BY <1>1, <1>3 DEF OrderInv, StockFirst
<1> QED  BY <1>5, <1>6, <1>7, <1>8, <1>9 DEF OrderInv

\* A design that is dropped was not certain to be measurable.
LEMMA DropInOrder == ASSUME IInv, OrderInv, Drop PROVE OrderInv'
<1>1. /\ batch # <<>> /\ batch' = Tail(batch) /\ pc = "measure"
      /\ UNCHANGED <<feasible, drawn, runs, pc, popped, history>>
      /\ Head(batch) \in (Design \ runs) \cup Interruptible
  BY DEF Drop, OthersLeft
<1>2. InBatch = InBatch' \cup {Head(batch)} /\ Head(batch) \notin Sure
  BY <1>1, BatchSplits DEF Sure
<1>3. Measured' = Measured /\ Sure' = Sure
  BY <1>1 DEF Measured, Sure
<1>4. NoneIsLost' /\ BatchComesLast'
  BY <1>1, <1>2, <1>3 DEF OrderInv, NoneIsLost, BatchComesLast
<1>5. InListOrder(batch)'
  BY <1>1, RestInOrder DEF OrderInv
<1>6. InListOrder(history)' /\ StockFirst'
  BY <1>1 DEF OrderInv, InListOrder, StockFirst
<1> QED  BY <1>4, <1>5, <1>6 DEF OrderInv

\* The loop's own steps; the arm returns with its budget spent and no batch.
LEMMA LoopInOrder ==
  ASSUME IInv, OrderInv, Sampled \/ Reject \/ SendBatch \/ NextRound \/ Return \/ Done \/ UNCHANGED vars
  PROVE  OrderInv'
<1>1. UNCHANGED <<feasible, drawn, runs, popped, batch, history>>
  BY DEF Sampled, Reject, SendBatch, NextRound, Return, Done, vars
<1>2. Measured' = Measured /\ Sure' = Sure /\ InBatch' = InBatch
  BY <1>1 DEF Measured, Sure, InBatch
<1>3. NoneIsLost' /\ BatchComesLast' /\ InListOrder(history)' /\ InListOrder(batch)'
  BY <1>1, <1>2 DEF OrderInv, NoneIsLost, BatchComesLast, InListOrder
<1>4. (pc # "stock" /\ pc' # "stock") \/ pc' = pc
  BY DEF Sampled, Reject, SendBatch, NextRound, Return, Done, vars
<1>5. pc' = "done" => batch = <<>> /\ Len(history) = Budget + 1
  <2>1. CASE pc' = pc
    BY <2>1 DEF OrderInv, StockFirst
  <2>2. CASE Return
    <3>1. batch \in Seq(Design) /\ Len(batch) \in Nat /\ Len(history) \in Nat
      BY PoppedPart
    <3>2. Len(history) - 1 >= Budget /\ Len(history) - 1 + Len(batch) <= Budget
      BY <2>2 DEF Return, IInv, RoomLeft
    <3>3. Len(batch) = 0 /\ Len(history) = Budget + 1
      BY <3>1, <3>2, ArmAssumption
    <3> QED  BY <3>1, <3>3
  <2>3. CASE Sampled \/ SendBatch \/ NextRound
    BY <2>3 DEF Sampled, SendBatch, NextRound
  <2> QED  BY <2>1, <2>2, <2>3 DEF Reject, Done, vars
<1> QED  BY <1>1, <1>3, <1>4, <1>5 DEF OrderInv, StockFirst

\* The measurements follow the list, whatever the batch and the losses.
THEOREM OrderInvariance == Spec => []OrderInv
<1>1. Init => OrderInv
  <2> SUFFICES ASSUME Init PROVE OrderInv
    OBVIOUS
  <2>1. popped = 0 /\ pc = "stock" /\ 1..0 = {}
    BY DEF Init
  <2> QED
    BY <2>1 DEF OrderInv, NoneIsLost, InListOrder, BatchComesLast, StockFirst
<1>2. IInv /\ OrderInv /\ [Next]_vars => OrderInv'
  BY SamplingInOrder, DrawInOrder, KeepInOrder, DropInOrder, LoopInOrder DEF Next, Step
<1> QED  BY <1>1, <1>2, Invariance, PTL DEF Spec

\* The seed gives the same sequence whatever the batch and the losses
\* (search.py:225).
THEOREM TheSeedFixesTheOrder == Spec => []SameSequenceWhateverBatch
<1>1. ASSUME IInv, OrderInv PROVE SameSequenceWhateverBatch
  <2>1. Measured \subseteq Popped \cup {Stock} /\ Popped \subseteq InPool /\ Stock \notin Sure
    <3>1. \A i \in 1..popped : i \in DOMAIN drawn
      BY <1>1, DrawnList, PoppedPart
    <3> QED
      BY <1>1, <3>1 DEF IInv, FromThePool, Popped, InPool, Sure
  <2>2. ASSUME NEW i \in DOMAIN drawn, NEW j \in DOMAIN drawn, i < j,
               drawn[i] \in Sure, drawn[j] \in Sure \cap Measured
        PROVE  \E k, l \in DOMAIN history : k < l /\ history[k] = drawn[i] /\ history[l] = drawn[j]
    <3>1. i \in 1..popped /\ j \in 1..popped
      <4>1. PICK n \in 1..popped : drawn[n] = drawn[j]
        BY <1>1, <2>1, <2>2, PoppedPart
      <4>2. n = j /\ i \in Nat /\ i >= 1
        BY <1>1, <2>2, <4>1, DrawnList, PoppedPart
      <4> QED
        BY <1>1, <2>2, <4>1, <4>2, PoppedPart
    <3>2. drawn[i] \in Measured
      <4>1. drawn[i] \in InBatch => j < i
        BY <1>1, <2>1, <2>2, <3>1 DEF OrderInv, BatchComesLast
      <4>2. i \in Nat /\ j \in Nat
        BY <1>1, <3>1, PoppedPart
      <4> QED
        BY <1>1, <2>2, <3>1, <4>1, <4>2 DEF OrderInv, NoneIsLost
    <3>3. PICK k \in DOMAIN history, l \in DOMAIN history : history[k] = drawn[i] /\ history[l] = drawn[j]
      BY <2>2, <3>2 DEF Measured
    <3>4. k # l
      BY <1>1, <2>2, <3>3, DrawnList, PoppedPart, <3>1
    <3>5. ~(l < k)
      <4>1. l < k => j < i
        BY <1>1, <2>1, <2>2, <3>1, <3>3 DEF OrderInv, InListOrder
      <4> QED
        BY <1>1, <2>2, <3>1, <4>1, PoppedPart
    <3>6. k \in Int /\ l \in Int
      BY <1>1, PoppedPart
    <3> QED
      BY <3>3, <3>4, <3>5, <3>6
  <2>3. MeasuredOnce
    BY <1>1 DEF IInv
  <2> QED
    BY <2>1, <2>2, <2>3 DEF SameSequenceWhateverBatch
<1> QED  BY <1>1, Invariance, OrderInvariance, PTL

-----------------------------------------------------------------------------
(***************************************************************************)
(* The ledger rebuilt from the seed.                                       *)
(***************************************************************************)

\* Naturals are well founded: a set of them has a least one.
LEMMA LeastNatural ==
  ASSUME NEW T \in SUBSET Nat, T # {}
  PROVE  \E n \in T : \A m \in T : n <= m
<1>1. PICK n \in T : \A m \in T : ~(<<m, n>> \in OpToRel(<, Nat))
  BY NatLessThanWellFounded, WFMin
<1>2. \A m, k \in Nat : m < k => <<m, k>> \in OpToRel(<, Nat)
  BY DEF OpToRel
<1>3. \A m \in T : ~(m < n)
  BY <1>1, <1>2
<1> QED  BY <1>3

\* One sequence after another.
LEMMA OneAfterAnother ==
  ASSUME NEW S, NEW a \in Seq(S), NEW b \in Seq(S)
  PROVE  /\ a \o b \in Seq(S) /\ Len(a \o b) = Len(a) + Len(b)
         /\ \A n \in 1..(Len(a) + Len(b)) : (a \o b)[n] = IF n <= Len(a) THEN a[n] ELSE b[n - Len(a)]
<1>1. a \o b \in Seq(S)
  OBVIOUS
<1>2. Len(a \o b) = Len(a) + Len(b)
  OBVIOUS
<1>3. \A n \in 1..(Len(a) + Len(b)) : (a \o b)[n] = IF n <= Len(a) THEN a[n] ELSE b[n - Len(a)]
  OBVIOUS
<1> QED  BY <1>1, <1>2, <1>3

\* A sequence without one of its places.
LEMMA WithoutOne ==
  ASSUME NEW S, NEW s \in Seq(S), NEW place \in 1..Len(s)
  PROVE  SubSeq(s, 1, place - 1) \o SubSeq(s, place + 1, Len(s))
           = [n \in 1..(Len(s) - 1) |-> IF n < place THEN s[n] ELSE s[n + 1]]
<1> DEFINE rest == SubSeq(s, 1, place - 1) \o SubSeq(s, place + 1, Len(s))
           low == SubSeq(s, 1, place - 1)
           high == SubSeq(s, place + 1, Len(s))
<1>1. Len(s) \in Nat /\ place \in Nat /\ place >= 1 /\ place <= Len(s)
  OBVIOUS
<1>2. /\ low \in Seq(S) /\ Len(low) = place - 1
      /\ \A n \in 1..(place - 1) : low[n] = s[n]
  BY <1>1
<1>3. /\ high \in Seq(S) /\ Len(high) = Len(s) - place
      /\ \A n \in 1..(Len(s) - place) : high[n] = s[n + place]
  BY <1>1
<1>0. rest = low \o high
  OBVIOUS
<1> HIDE DEF low, high, rest
<1>4. /\ rest \in Seq(S) /\ Len(rest) = Len(s) - 1
      /\ \A n \in 1..(Len(s) - 1) :
           rest[n] = IF n <= place - 1 THEN low[n] ELSE high[n - (place - 1)]
  <2>1. /\ rest \in Seq(S) /\ Len(rest) = Len(low) + Len(high)
        /\ \A n \in 1..(Len(low) + Len(high)) : rest[n] = IF n <= Len(low) THEN low[n] ELSE high[n - Len(low)]
    BY ONLY <1>0, <1>2, <1>3, OneAfterAnother
  <2>2. Len(low) + Len(high) = Len(s) - 1
    BY <1>1, <1>2, <1>3
  <2> QED
    BY ONLY <1>2, <2>1, <2>2
<1>5. ASSUME NEW n \in 1..(Len(s) - 1)
      PROVE  rest[n] = IF n < place THEN s[n] ELSE s[n + 1]
  <2>1. CASE n < place
    <3>1. n \in 1..(place - 1)
      BY <1>1, <2>1
    <3>2. rest[n] = low[n]
      BY <1>1, <1>4, <2>1
    <3> QED  BY <1>2, <2>1, <3>1, <3>2
  <2>2. CASE ~(n < place)
    <3>1. n - (place - 1) \in 1..(Len(s) - place) /\ n - (place - 1) + place = n + 1 /\ ~(n <= place - 1)
      BY <1>1, <2>2
    <3>2. rest[n] = high[n - (place - 1)] /\ high[n - (place - 1)] = s[n - (place - 1) + place]
      BY <1>3, <1>4, <3>1
    <3> QED  BY <2>2, <3>1, <3>2
  <2> QED  BY <2>1, <2>2
<1>6. rest = [n \in 1..(Len(s) - 1) |-> rest[n]]
  BY <1>1, <1>4
<1>7. rest = [n \in 1..(Len(s) - 1) |-> IF n < place THEN s[n] ELSE s[n + 1]]
  BY <1>5, <1>6
<1> QED  BY <1>7 DEF rest

\* The draws that count are the list without the stock, in its order.
LEMMA CountedList ==
  ASSUME IInv
  PROVE  /\ Counted(drawn) \in Seq(Design)
         /\ \A n \in 1..Len(Counted(drawn)) :
              \E i \in 1..Len(drawn) : Counted(drawn)[n] = drawn[i] /\ drawn[i] # Stock
         /\ \A i \in 1..Len(drawn) : drawn[i] # Stock =>
              \E n \in 1..Len(Counted(drawn)) : Counted(drawn)[n] = drawn[i]
         /\ \A m, n \in 1..Len(Counted(drawn)), i, j \in 1..Len(drawn) :
              m < n /\ Counted(drawn)[m] = drawn[i] /\ Counted(drawn)[n] = drawn[j] => i < j
<1> DEFINE places == {i \in DOMAIN drawn : drawn[i] = Stock}
           place == CHOOSE i \in places : TRUE
<1>1. /\ drawn \in Seq(Design) /\ Len(drawn) \in Nat /\ DOMAIN drawn = 1..Len(drawn)
      /\ \A i, j \in 1..Len(drawn) : drawn[i] = drawn[j] => i = j
  BY DrawnList
<1>2. CASE places = {}
  <2>1. Counted(drawn) = drawn
    BY <1>2 DEF Counted
  <2>2. \A i \in 1..Len(drawn) : drawn[i] # Stock
    BY <1>1, <1>2
  <2> HIDE DEF places, place
  <2>3. ASSUME NEW m \in 1..Len(drawn), NEW n \in 1..Len(drawn), NEW i \in 1..Len(drawn), NEW j \in 1..Len(drawn),
               m < n, drawn[m] = drawn[i], drawn[n] = drawn[j]
        PROVE  i < j
    <3>1. m = i /\ n = j
      BY <1>1, <2>3
    <3> QED  BY <2>3, <3>1
  <2> QED
    BY <1>1, <2>1, <2>2, <2>3
<1>3. CASE places # {}
  <2>1. place \in 1..Len(drawn) /\ drawn[place] = Stock
    BY <1>1, <1>3
  <2>2. Counted(drawn) = [n \in 1..(Len(drawn) - 1) |-> IF n < place THEN drawn[n] ELSE drawn[n + 1]]
    <3>1. Counted(drawn) = SubSeq(drawn, 1, place - 1) \o SubSeq(drawn, place + 1, Len(drawn))
      BY <1>3 DEF Counted
    <3> HIDE DEF place
    <3> QED  BY <1>1, <2>1, <3>1, WithoutOne
  <2> DEFINE draws == Counted(drawn)
             At(n) == IF n < place THEN n ELSE n + 1
  <2> HIDE DEF places, place
  <2>3. /\ draws \in Seq(Design) /\ Len(draws) = Len(drawn) - 1
        /\ \A n \in 1..(Len(drawn) - 1) : draws[n] = IF n < place THEN drawn[n] ELSE drawn[n + 1]
    <3>1. \A n \in 1..(Len(drawn) - 1) : (IF n < place THEN drawn[n] ELSE drawn[n + 1]) \in Design
      BY <1>1, <2>1
    <3>2. Len(drawn) - 1 \in Nat /\ draws \in [1..(Len(drawn) - 1) -> Design]
      BY <1>1, <2>1, <2>2, <3>1
    <3>3. \A n \in 1..(Len(drawn) - 1) : draws[n] = IF n < place THEN drawn[n] ELSE drawn[n + 1]
      BY <2>2
    <3> HIDE DEF draws
    <3>4. draws \in Seq(Design) /\ Len(draws) = Len(drawn) - 1
      BY ONLY <3>2
    <3> QED  BY <3>3, <3>4
  <2> HIDE DEF draws
  <2>4. \A n \in 1..Len(draws) : At(n) \in 1..Len(drawn) /\ At(n) # place /\ draws[n] = drawn[At(n)]
    BY <1>1, <2>1, <2>3
  <2>5. \A i \in 1..Len(drawn) : i # place => \E n \in 1..Len(draws) : At(n) = i
    <3> SUFFICES ASSUME NEW i \in 1..Len(drawn), i # place PROVE \E n \in 1..Len(draws) : At(n) = i
      OBVIOUS
    <3>1. CASE i < place
      <4>1. i \in 1..Len(draws)
        BY <1>1, <2>1, <2>3, <3>1
      <4> QED  BY <3>1, <4>1
    <3>2. CASE ~(i < place)
      <4>1. i - 1 \in 1..Len(draws) /\ ~(i - 1 < place) /\ (i - 1) + 1 = i
        BY <1>1, <2>1, <2>3, <3>2
      <4> QED  BY <4>1
    <3> QED  BY <3>1, <3>2
  <2>6. \A m, n \in 1..Len(draws) : m < n => At(m) < At(n)
    BY <1>1, <2>1, <2>3
  <2> HIDE DEF At
  <2>7. \A n \in 1..Len(draws) : drawn[At(n)] # Stock
    BY <1>1, <2>1, <2>4
  <2>8. \A i \in 1..Len(drawn) : drawn[i] # Stock => \E n \in 1..Len(draws) : draws[n] = drawn[i]
    BY <2>1, <2>4, <2>5
  <2>9. \A m, n \in 1..Len(draws), i, j \in 1..Len(drawn) :
          m < n /\ draws[m] = drawn[i] /\ draws[n] = drawn[j] => i < j
    BY <1>1, <2>4, <2>6
  <2> QED
    BY <2>3, <2>4, <2>7, <2>8, <2>9 DEF draws
<1> QED  BY <1>2, <1>3

\* The ledger rebuilt from a table stops before the first draw it cannot tell.
LEMMA RebuiltRows ==
  ASSUME IInv, NEW table
  PROVE  \E end \in 1..(Len(Counted(drawn)) + 1) :
           /\ Rebuilt(table) = SubSeq(Counted(drawn), 1, end - 1)
           /\ end > Len(Counted(drawn)) \/ end > Budget \/ Counted(drawn)[end] \notin table
           /\ \A n \in 1..(end - 1) :
                n <= Len(Counted(drawn)) /\ n <= Budget /\ Counted(drawn)[n] \in table
<1> DEFINE draws == Counted(drawn)
           Lacks(i) == i > Len(draws) \/ i > Budget \/ draws[i] \notin table
           Places == 1..(Len(draws) + 1)
           T == {i \in Places : Lacks(i)}
           IsEnd(i) == Lacks(i) /\ \A j \in 1..(i - 1) : ~Lacks(j)
           end == CHOOSE i \in Places : IsEnd(i)
<1>1. Len(draws) \in Nat
  <2>1. Counted(drawn) \in Seq(Design)
    BY CountedList
  <2> QED  BY <2>1
<1> HIDE DEF draws
<1>2. Len(draws) + 1 \in T /\ T \in SUBSET Nat
  BY <1>1
<1>3. PICK least \in T : \A i \in T : least <= i
  <2> HIDE DEF T
  <2> QED  BY <1>2, LeastNatural
<1>4. least \in Places /\ IsEnd(least)
  <2>1. least \in Places /\ Lacks(least)
    OBVIOUS
  <2>2. ASSUME NEW j \in 1..(least - 1) PROVE ~Lacks(j)
    <3>1. j \in Places /\ ~(least <= j)
      BY <1>1, <2>1
    <3> QED  BY <1>3, <3>1
  <2> QED  BY <2>1, <2>2
<1>5. end \in Places /\ IsEnd(end)
  <2> HIDE DEF Places, IsEnd
  <2> QED  BY <1>4
<1>6. Rebuilt(table) = SubSeq(draws, 1, end - 1)
  BY DEF Rebuilt, draws
<1> HIDE DEF end
<1>7. \A n \in 1..(end - 1) : n <= Len(draws) /\ n <= Budget /\ draws[n] \in table
  <2> SUFFICES ASSUME NEW n \in 1..(end - 1) PROVE n <= Len(draws) /\ n <= Budget /\ draws[n] \in table
    OBVIOUS
  <2>1. ~(n > Len(draws)) /\ ~(n > Budget) /\ draws[n] \in table
    BY <1>5
  <2>2. n \in Nat
    BY <1>1, <1>5
  <2> QED  BY <1>1, <2>1, <2>2, ArmAssumption
<1> QED  BY <1>5, <1>6, <1>7 DEF draws

\* What the arm returned, after the stock: its budget of designs of the list, each
\* once, in the list's order.
LEMMA Returned ==
  ASSUME IInv, OrderInv, pc = "done"
  PROVE  /\ Tail(history) \in Seq(Design) /\ Len(Tail(history)) = Budget
         /\ \A n \in 1..Budget : /\ Tail(history)[n] \in Measured \ {Stock}
                               /\ \E i \in 1..popped : drawn[i] = Tail(history)[n]
         /\ \A d \in Measured \ {Stock} : \E n \in 1..Budget : Tail(history)[n] = d
         /\ \A m, n \in 1..Budget : Tail(history)[m] = Tail(history)[n] => m = n
         /\ \A m, n \in 1..Budget, i, j \in 1..popped :
              m < n /\ drawn[i] = Tail(history)[m] /\ drawn[j] = Tail(history)[n] => i < j
<1>1. history \in Seq(Design) /\ Len(history) = Budget + 1 /\ history[1] = Stock /\ Budget \in Nat
  BY ArmAssumption, PoppedPart DEF OrderInv, StockFirst
<1> DEFINE told == Tail(history)
<1>2. /\ told \in Seq(Design) /\ Len(told) = Budget
      /\ \A n \in 1..Budget : told[n] = history[n + 1]
  BY <1>1
<1> HIDE DEF told
<1>3. /\ DOMAIN history = 1..(Budget + 1) /\ 1 \in DOMAIN history
      /\ \A n \in 1..Budget : n \in Nat /\ n + 1 \in DOMAIN history /\ n + 1 # 1
  BY <1>1
<1>4. \A k, l \in DOMAIN history : history[k] = history[l] => k = l
  BY DEF IInv, MeasuredOnce
<1>5. \A n \in 1..Budget : told[n] \in Measured \ {Stock}
  <2> SUFFICES ASSUME NEW n \in 1..Budget PROVE history[n + 1] \in Measured \ {Stock}
    BY <1>2
  <2>1. history[n + 1] \in Measured
    BY <1>3, PoppedPart
  <2>2. history[n + 1] # history[1]
    BY <1>3, <1>4
  <2> QED  BY <1>1, <2>1, <2>2
<1>6. \A n \in 1..Budget : \E i \in 1..popped : drawn[i] = told[n]
  BY <1>5, PoppedPart DEF IInv, FromThePool
<1>7. ASSUME NEW d \in Measured \ {Stock} PROVE \E n \in 1..Budget : told[n] = d
  <2>1. PICK k \in DOMAIN history : history[k] = d
    BY DEF Measured
  <2>2. k # 1
    BY <1>1, <2>1
  <2>3. k - 1 \in 1..Budget /\ (k - 1) + 1 = k
    BY <1>1, <1>3, <2>2
  <2> QED  BY <1>2, <2>1, <2>3
<1>8. \A m, n \in 1..Budget : told[m] = told[n] => m = n
  <2>1. \A m, n \in 1..Budget : m + 1 = n + 1 => m = n
    BY <1>1
  <2> QED  BY <1>2, <1>3, <1>4, <2>1
<1>9. ASSUME NEW m \in 1..Budget, NEW n \in 1..Budget, NEW i \in 1..popped, NEW j \in 1..popped,
             m < n, drawn[i] = told[m], drawn[j] = told[n]
      PROVE  i < j
  <2>1. m + 1 \in DOMAIN history /\ n + 1 \in DOMAIN history /\ m + 1 < n + 1
    BY <1>1, <1>3, <1>9
  <2>2. history[m + 1] = told[m] /\ history[n + 1] = told[n] /\ told[m] # Stock
    BY <1>2, <1>5
  <2> QED  BY <1>9, <2>1, <2>2 DEF OrderInv, InListOrder
<1> QED  BY <1>2, <1>5, <1>6, <1>7, <1>8, <1>9 DEF told

\* The rows rebuilt are the designs measured, place by place, up to the first that
\* was killed in this run.
LEMMA RowsAgree ==
  ASSUME IInv, OrderInv, pc = "done", NEW table, table \subseteq Measured \cup runs,
         NEW end \in 1..(Len(Counted(drawn)) + 1),
         \A n \in 1..(end - 1) :
           n <= Len(Counted(drawn)) /\ n <= Budget /\ Counted(drawn)[n] \in table
  PROVE  \A n \in 1..(end - 1) :
           Counted(drawn)[n] # Tail(history)[n] => \E m \in 1..n : Counted(drawn)[m] \in Killed
<1> DEFINE draws == Counted(drawn)
           told == Tail(history)
           T == {n \in 1..(end - 1) : draws[n] # told[n]}
<1>1. Len(draws) \in Nat /\ end \in Nat /\ Budget \in Nat
  <2>1. Counted(drawn) \in Seq(Design)
    BY CountedList
  <2>2. Len(draws) \in Nat
    BY <2>1
  <2> QED  BY <2>2, ArmAssumption
<1>2. /\ \A n \in 1..Len(draws) : \E i \in 1..Len(drawn) : draws[n] = drawn[i] /\ drawn[i] # Stock
      /\ \A i \in 1..Len(drawn) : drawn[i] # Stock => \E n \in 1..Len(draws) : draws[n] = drawn[i]
      /\ \A m, n \in 1..Len(draws), i, j \in 1..Len(drawn) :
           m < n /\ draws[m] = drawn[i] /\ draws[n] = drawn[j] => i < j
  BY CountedList
<1>3. /\ \A n \in 1..Budget : told[n] \in Measured \ {Stock} /\ \E i \in 1..popped : drawn[i] = told[n]
      /\ \A d \in Measured \ {Stock} : \E n \in 1..Budget : told[n] = d
      /\ \A m, n \in 1..Budget : told[m] = told[n] => m = n
      /\ \A m, n \in 1..Budget, i, j \in 1..popped :
           m < n /\ drawn[i] = told[m] /\ drawn[j] = told[n] => i < j
  BY Returned
<1>4. \A n \in 1..(end - 1) : n \in 1..Len(draws) /\ n \in 1..Budget /\ draws[n] \in table
  BY <1>1
<1> HIDE DEF draws, told
<1> SUFFICES ASSUME NEW q \in T, \A m \in 1..q : draws[m] \notin Killed PROVE FALSE
  BY DEF draws, told
<1>5. T \in SUBSET Nat
  BY <1>1
<1>6. PICK n \in T : \A m \in T : n <= m
  <2> HIDE DEF T
  <2> QED  BY <1>5, LeastNatural
<1>7. /\ n \in 1..Len(draws) /\ n \in 1..Budget /\ draws[n] \in table /\ draws[n] # told[n] /\ n \in Nat
      /\ \A m \in 1..Len(draws) : m < n => draws[m] = told[m] /\ m \in 1..Budget
  <2>1. n \in 1..(end - 1) /\ draws[n] # told[n] /\ n \in Nat
    BY <1>5
  <2>2. ASSUME NEW m \in 1..Len(draws), m < n PROVE draws[m] = told[m] /\ m \in 1..Budget
    <3>1. m \in 1..(end - 1) /\ ~(n <= m)
      BY <1>1, <2>1, <2>2
    <3> QED  BY <1>4, <1>6, <3>1
  <2> QED  BY <1>4, <2>1, <2>2
<1>19. draws[n] \notin Killed
  <2>1. n \in Nat /\ q \in Nat /\ 1 <= n /\ n <= q
    BY <1>1, <1>5, <1>6
  <2>2. n \in 1..q
    BY ONLY <2>1
  <2> QED  BY <2>2
<1> HIDE DEF T
<1>8. PICK p \in 1..popped : drawn[p] = told[n]
  BY <1>3, <1>7
<1>9. p \in 1..Len(drawn) /\ drawn[p] # Stock /\ p \in Nat /\ popped \in Nat
  BY <1>3, <1>7, <1>8, PoppedPart
<1>10. PICK m \in 1..Len(draws) : draws[m] = drawn[p]
  BY <1>2, <1>9
<1>11. n < m
  <2>1. m # n
    BY <1>7, <1>8, <1>10
  <2>2. ~(m < n)
    <3> SUFFICES ASSUME m < n PROVE FALSE
      OBVIOUS
    <3>1. told[m] = told[n] /\ m \in 1..Budget
      BY <1>7, <1>8, <1>10
    <3> QED  BY <1>3, <1>7, <2>1, <3>1
  <2> QED  BY <1>1, <1>7, <2>1, <2>2
<1>12. PICK i \in 1..Len(drawn) : draws[n] = drawn[i] /\ drawn[i] # Stock
  BY <1>2, <1>7
<1>13. i < p /\ i \in 1..popped
  <2>1. i < p
    BY <1>2, <1>7, <1>9, <1>10, <1>11, <1>12
  <2>2. i \in 1..popped
    <3>1. Len(drawn) \in Nat
      BY DrawnList
    <3> QED  BY ONLY <1>9, <2>1, <3>1, i \in 1..Len(drawn), p \in 1..popped
  <2> QED  BY <2>1, <2>2
<1>14. draws[n] \in Measured \ {Stock}
  <2>1. InBatch = {}
    BY DEF OrderInv, StockFirst, InBatch
  <2>2. draws[n] \in Popped
    BY <1>12, <1>13 DEF Popped
  <2>3. draws[n] \in Measured \cup Sure
    BY <1>7, <1>12, <1>19, <2>2 DEF Killed, Sure
  <2> QED  BY <1>12, <1>13, <2>1, <2>3 DEF OrderInv, NoneIsLost
<1>15. PICK k \in 1..Budget : told[k] = draws[n]
  BY <1>3, <1>14
<1>16. ~(k < n)
  <2> SUFFICES ASSUME k < n PROVE FALSE
    OBVIOUS
  <2>1. k \in 1..Len(draws)
    BY <1>1, <1>7
  <2>2. draws[k] = drawn[i]
    BY <1>7, <1>12, <1>15, <2>1
  <2>3. i < i
    BY <1>2, <1>7, <1>12, <2>1, <2>2
  <2> QED  BY <1>9, <1>13, <2>3
<1>17. n < k
  BY <1>1, <1>7, <1>15, <1>16
<1>18. p < i
  BY <1>3, <1>7, <1>8, <1>12, <1>13, <1>15, <1>17
<1> QED  BY <1>9, <1>13, <1>18

\* A ledger rebuilt from the seed parts from the run no earlier than at a design
\* killed in it and measured by another, whatever the others measured, and is the
\* whole run unless the run lost a design (ledgers.py:93-94, 109-126).
THEOREM TheSeedRebuildsTheRun == Spec => []RebuiltUpToAKill
<1>1. ASSUME IInv, OrderInv, pc = "done", NEW others \in SUBSET runs
      PROVE  LET told == Rebuilt(Measured \cup others)
                 measured == Tail(history)
             IN  /\ Len(told) <= Len(measured)
                 /\ \A n \in 1..Len(told) : told[n] # measured[n] => \E m \in 1..n : told[m] \in Killed
                 /\ told # measured => ~(Popped \subseteq Measured)
  <2> DEFINE table == Measured \cup others
             draws == Counted(drawn)
             measured == Tail(history)
             told == Rebuilt(table)
  <2>1. table \subseteq Measured \cup runs /\ Measured \subseteq table
    OBVIOUS
  <2> HIDE DEF table
  <2>2. PICK end \in 1..(Len(draws) + 1) :
          /\ told = SubSeq(draws, 1, end - 1)
          /\ end > Len(draws) \/ end > Budget \/ draws[end] \notin table
          /\ \A n \in 1..(end - 1) : n <= Len(draws) /\ n <= Budget /\ draws[n] \in table
    BY <1>1, RebuiltRows
  <2>3. \A n \in 1..(end - 1) : draws[n] # measured[n] => \E m \in 1..n : draws[m] \in Killed
    BY <1>1, <2>1, <2>2, RowsAgree
  <2>4. draws \in Seq(Design) /\ Len(draws) \in Nat /\ end \in Nat /\ Budget \in Nat /\ end - 1 \in Nat
        /\ end - 1 <= Len(draws)
    <3>1. draws \in Seq(Design)
      BY <1>1, CountedList
    <3>2. Len(draws) \in Nat
      BY <3>1
    <3> QED  BY <2>2, <3>1, <3>2, ArmAssumption
  <2>5. /\ measured \in Seq(Design) /\ Len(measured) = Budget
        /\ \A n \in 1..Budget : measured[n] \in Measured \ {Stock} /\ \E i \in 1..popped : drawn[i] = measured[n]
        /\ \A m, n \in 1..Budget : measured[m] = measured[n] => m = n
    BY <1>1, Returned
  <2>6. /\ \A n \in 1..Len(draws) : \E i \in 1..Len(drawn) : draws[n] = drawn[i]
        /\ \A i \in 1..Len(drawn) : drawn[i] # Stock => \E n \in 1..Len(draws) : draws[n] = drawn[i]
        /\ \A m, n \in 1..Len(draws), i, j \in 1..Len(drawn) :
             m < n /\ draws[m] = drawn[i] /\ draws[n] = drawn[j] => i < j
    BY <1>1, CountedList
  <2>7. /\ popped \in Nat /\ Len(drawn) \in Nat
        /\ \A i \in 1..popped : i \in 1..Len(drawn) /\ i \in Nat
    BY <1>1, PoppedPart
  <2> HIDE DEF draws, measured, told
  <2>8. end - 1 <= Budget
    <3>1. CASE end - 1 = 0
      BY <2>4, <3>1
    <3>2. CASE end - 1 # 0
      <4>1. end - 1 \in 1..(end - 1)
        BY <2>4, <3>2
      <4> QED  BY <2>2, <4>1
    <3> QED  BY <3>1, <3>2
  <2>9. Len(told) = end - 1 /\ told = [n \in 1..(end - 1) |-> draws[n]]
    BY <2>2, <2>4
  <2>11. \A n \in 1..Len(told) : told[n] # measured[n] => \E m \in 1..n : told[m] \in Killed
    <3> SUFFICES ASSUME NEW n \in 1..Len(told), told[n] # measured[n]
                 PROVE  \E m \in 1..n : told[m] \in Killed
      OBVIOUS
    <3>1. n \in 1..(end - 1) /\ told[n] = draws[n]
      BY <2>9
    <3>2. PICK m \in 1..n : draws[m] \in Killed
      BY <2>3, <3>1
    <3>3. m \in 1..(end - 1)
      BY ONLY <2>4, <3>1, m \in 1..n
    <3> QED  BY <2>9, <3>2, <3>3
  <2>14. ASSUME told # measured, \A n \in 1..(end - 1) : draws[n] = measured[n]
         PROVE  \E i \in 1..popped : drawn[i] \notin Measured
    <3>1. end - 1 # Budget
      <4>1. measured = [n \in 1..Budget |-> measured[n]]
        BY <2>5
      <4> QED  BY <2>9, <2>14, <4>1
    <3>2. end \in 1..Budget
      BY <2>4, <2>8, <3>1
    <3>3. PICK p \in 1..popped : drawn[p] = measured[end]
      BY <2>5, <3>2
    <3>4. p \in 1..Len(drawn) /\ p \in Nat /\ drawn[p] # Stock /\ drawn[p] \in Measured
      BY <2>5, <2>7, <3>2, <3>3
    <3>5. PICK m \in 1..Len(draws) : draws[m] = drawn[p]
      BY <2>6, <3>4
    <3>6. ~(m < end)
      <4> SUFFICES ASSUME m < end PROVE FALSE
        OBVIOUS
      <4>1. m \in 1..(end - 1) /\ m \in 1..Budget /\ m # end
        BY <2>4, <2>8
      <4>2. measured[m] = measured[end]
        BY <2>14, <3>3, <3>5, <4>1
      <4> QED  BY <2>5, <3>2, <4>1, <4>2
    <3>7. end \in 1..Len(draws) /\ end <= m
      BY <2>4, <3>6
    <3>8. draws[end] \notin table
      <4>1. ~(end > Len(draws)) /\ ~(end > Budget)
        BY <2>4, <3>2, <3>7
      <4> QED  BY <2>2, <4>1
    <3>9. end < m
      <4>1. end # m
        BY <2>1, <3>4, <3>5, <3>8
      <4> QED  BY <2>4, <3>7, <4>1
    <3>10. PICK i \in 1..Len(drawn) : draws[end] = drawn[i]
      BY <2>6, <3>7
    <3>11. i < p
      BY <2>6, <3>4, <3>5, <3>7, <3>9, <3>10
    <3>12. i \in 1..popped
      BY ONLY <2>7, <3>4, <3>11, i \in 1..Len(drawn), p \in 1..popped
    <3> QED  BY <2>1, <3>8, <3>10, <3>12
  <2>12. ASSUME told # measured PROVE ~(Popped \subseteq Measured)
    <3>1. CASE \A n \in 1..(end - 1) : draws[n] = measured[n]
      BY <2>12, <2>14, <3>1 DEF Popped
    <3>2. CASE \E n \in 1..(end - 1) : draws[n] # measured[n]
      BY <2>3, <3>2 DEF Killed
    <3> QED  BY <3>1, <3>2
  <2>13. Len(told) <= Len(measured)
    BY <2>5, <2>8, <2>9
  <2> QED  BY <2>11, <2>12, <2>13 DEF told, measured, table
<1>2. IInv /\ OrderInv => RebuiltUpToAKill
  BY <1>1 DEF RebuiltUpToAKill
<1> QED  BY <1>2, Invariance, OrderInvariance, PTL

=============================================================================
