---------------------------- MODULE CellRunProofs ----------------------------
(***************************************************************************)
(* Proofs about a cell, for any runs, ladder, parallelism and deaths: the  *)
(* stock a run decides is the first rung that fits, the report that is     *)
(* left has every run once, and the scores read off it are its rows'.  The *)
(* last sections are about the space a chip spans, from which the ladder   *)
(* comes, and about recording through the ledger's node.                   *)
(***************************************************************************)
EXTENDS CellRunProperties, DesignSpace, WellFoundedInduction, TLAPS

-----------------------------------------------------------------------------
(***************************************************************************)
(* The ladder.                                                             *)
(***************************************************************************)

\* A rung is a pair of numbers, and the chip's own shape is one.
LEMMA RungIsPair ==
  /\ \A r \in Rungs : r[1] \in Nat /\ r[2] \in Nat /\ r = <<r[1], r[2]>>
  /\ StockShape \in Rungs
  /\ \A r \in Rungs : r[1] <= StockShape[1] /\ r[2] <= StockShape[2]
BY CellAssumption DEF Rungs, FewestSets

\* Of two rungs, one is above the other.
LEMMA LadderIsTotal ==
  ASSUME NEW q \in Rungs, NEW r \in Rungs, q # r
  PROVE  Above(q, r) \/ Above(r, q)
<1> DEFINE upper == {<<s, StockShape[2]>> : s \in {x \in Sets : x <= StockShape[1]}}
           lower == {<<s, w>> : s \in FewestSets, w \in {x \in Ways : x <= StockShape[2]}}
<1>1. /\ q[1] \in Nat /\ q[2] \in Nat /\ r[1] \in Nat /\ r[2] \in Nat
      /\ q[1] \in Sets /\ r[1] \in Sets
      /\ q[2] <= StockShape[2] /\ r[2] <= StockShape[2] /\ StockShape[2] \in Nat
  BY RungIsPair, CellAssumption DEF Rungs, FewestSets
<1>2. \A p \in Rungs : p[2] = StockShape[2] \/ (\A x \in Sets : p[1] <= x)
  BY DEF Rungs, FewestSets
<1>3. CASE q[2] = StockShape[2] /\ r[2] = StockShape[2]
  BY <1>1, <1>3 DEF Above
<1>4. CASE \A x \in Sets : q[1] <= x
  BY <1>1, <1>2, <1>4 DEF Above
<1>5. CASE \A x \in Sets : r[1] <= x
  BY <1>1, <1>2, <1>5 DEF Above
<1> QED
  BY <1>2, <1>3, <1>4, <1>5

\* Being above is transitive, and goes one way.
LEMMA AboveIsOrder ==
  ASSUME NEW p \in Rungs, NEW q \in Rungs, NEW r \in Rungs
  PROVE  /\ Above(p, q) /\ Above(q, r) => Above(p, r)
         /\ ~(Above(p, q) /\ Above(q, p))
<1>1. /\ p[1] \in Nat /\ p[2] \in Nat /\ q[1] \in Nat /\ q[2] \in Nat /\ r[1] \in Nat /\ r[2] \in Nat
      /\ p = <<p[1], p[2]>> /\ q = <<q[1], q[2]>> /\ r = <<r[1], r[2]>>
  BY RungIsPair
<1>2. ~(Above(p, q) /\ Above(q, p))
  BY <1>1 DEF Above
<1>3. Above(p, q) /\ Above(q, r) => p[1] >= r[1] /\ p[2] >= r[2]
  BY <1>1 DEF Above
<1>4. Above(p, q) /\ p = r => ~Above(q, r)
  BY <1>2
<1> QED
  BY <1>2, <1>3, <1>4 DEF Above

\* What is above the next rung down is this rung, or above it.
LEMMA OneRungDown ==
  ASSUME NEW s \in Rungs, NEW r \in Rungs, IsNext(s, r), NEW q \in Rungs, Above(q, r)
  PROVE  q = s \/ Above(q, s)
<1>1. SUFFICES ASSUME q # s, Above(s, q) PROVE FALSE
  BY LadderIsTotal
<1>2. q \in Below(s) /\ q # r
  BY <1>1 DEF Below, Above
<1>3. Above(r, q)
  BY <1>2 DEF IsNext
<1> QED
  BY <1>3, AboveIsOrder

\* The ladder starts with the chip's own shape.
LEMMA NothingAboveTheStock == \A q \in Rungs : ~Above(q, StockShape)
<1> TAKE q \in Rungs
<1>1. q[1] \in Nat /\ q[2] \in Nat /\ q = <<q[1], q[2]>> /\ q[1] <= StockShape[1] /\ q[2] <= StockShape[2]
  BY RungIsPair
<1>2. StockShape[1] \in Nat /\ StockShape[2] \in Nat /\ StockShape = <<StockShape[1], StockShape[2]>>
  BY RungIsPair
<1> QED
  BY <1>1, <1>2 DEF Above

-----------------------------------------------------------------------------
(***************************************************************************)
(* The two halves of the invariant: what a run knows of the ladder, and    *)
(* what the driver knows of the runs.                                      *)
(***************************************************************************)

LadderInv == OldRowsAreStale /\ LargerRungsRefused /\ StockIsTheRung
ReportInv == ResultsAreOfTheDone /\ CollectedIsHeld /\ DeathsAreCounted

Ended == {"done", "failed", "broken"}

\* Steps that touch neither the ladder nor the table keep the first half.
LEMMA LadderFrame ==
  ASSUME LadderInv, UNCHANGED <<shape, stock, copy, table, stale>>,
         \A j \in Run : place'[j] \in {"unsent", "queued", "rung"} =>
                         place[j] \in {"unsent", "queued", "rung"}
  PROVE  LadderInv'
BY DEF LadderInv, OldRowsAreStale, LargerRungsRefused, StockIsTheRung, Rungs, FewestSets, Above, Refused

\* A run that moves on, and not to its end, keeps the second half; so does one
\* that fails.
LEMMA MoveKeepsReport ==
  ASSUME TypeOK, ReportInv, NEW j \in Run, place[j] \notin Ended \cup {"unsent"},
         NEW where \in {"queued", "rung", "measuring", "stock", "arm", "failed"},
         place' = [place EXCEPT ![j] = where],
         UNCHANGED <<result, report, deaths>>
  PROVE  ReportInv'
<1> USE DEF ReportInv, report, Ended
<1>1. /\ \A i \in Run : place[i] \in Ended => place'[i] = place[i]
      /\ \A i \in Run : place'[i] = "done" <=> place[i] = "done"
      /\ \A i \in Run : place'[i] = "broken" <=> place[i] = "broken"
      /\ \A i \in Run : place[i] = "unsent" => place'[i] = "unsent"
  BY DEF TypeOK
<1>2. ResultsAreOfTheDone'
  BY <1>1 DEF ResultsAreOfTheDone
<1>3. CollectedIsHeld'
  <2>1. \A i \in 1..Len(Order) : Order[i] \in Run
    BY CellAssumption
  <2> QED
    BY <1>1, <2>1 DEF CollectedIsHeld, HasEnded
<1>4. DeathsAreCounted'
  BY <1>1 DEF DeathsAreCounted
<1> QED
  BY <1>2, <1>3, <1>4

-----------------------------------------------------------------------------
(***************************************************************************)
(* Every step keeps the invariant.                                         *)
(***************************************************************************)

LEMMA InvInit == Init => IInv
<1> SUFFICES ASSUME Init PROVE IInv
  OBVIOUS
<1> USE DEF Init
<1>1. StockShape \in Rungs /\ Len(Order) \in Nat
  BY RungIsPair, CellAssumption
<1>2. TypeOK
  BY <1>1 DEF TypeOK, Row
<1>3. OldRowsAreStale
  BY DEF OldRowsAreStale
<1>4. LargerRungsRefused
  BY NothingAboveTheStock DEF LargerRungsRefused
<1>5. StockIsTheRung /\ ResultsAreOfTheDone /\ CollectedIsHeld /\ DeathsAreCounted
  BY CellAssumption DEF StockIsTheRung, ResultsAreOfTheDone, CollectedIsHeld, DeathsAreCounted
<1> QED
  BY <1>2, <1>3, <1>4, <1>5 DEF IInv

\* A run begins, and loads the table.
LEMMA StartKeeps == ASSUME IInv, NEW j \in Run, Start(j) PROVE IInv'
<1> USE DEF IInv, Start, Goto
<1>1. TypeOK'
  BY DEF TypeOK, report
<1>2. ReportInv'
  BY MoveKeepsReport DEF ReportInv, Ended
<1>3. OldRowsAreStale'
  BY DEF TypeOK, OldRowsAreStale, Rungs, FewestSets
<1>4. LargerRungsRefused' /\ StockIsTheRung'
  BY DEF TypeOK, LargerRungsRefused, StockIsTheRung, Rungs, FewestSets, Above, Refused
<1> QED
  BY <1>1, <1>2, <1>3, <1>4 DEF ReportInv

\* A run leaves a rung behind: it refused it, or an old row did.
LEMMA StepDownKeeps == ASSUME IInv, NEW j \in Run, StepDown(j) PROVE IInv'
<1> USE DEF IInv, StepDown, Goto
<1>1. TypeOK'
  <2>1. place' \in [Run -> {"unsent", "queued", "rung", "measuring", "stock", "arm",
                            "done", "failed", "broken"}]
    BY DEF TypeOK
  <2>2. shape' \in [Run -> Rungs]
    BY DEF TypeOK
  <2>3. UNCHANGED <<stock, copy, result, table, stale, scores, deaths, report>>
    OBVIOUS
  <2>4. TypeOK
    OBVIOUS
  <2> HIDE DEF StepDown, IInv
  <2>5. UNCHANGED <<stock, copy, result, table, stale, driver, next, runs, failed, content,
                    file, deaths>>
    BY <2>3 DEF report
  <2> QED
    BY <2>1, <2>2, <2>4, <2>5 DEF TypeOK
<1>2. ReportInv'
  <2>1. place' = [place EXCEPT ![j] = "rung"] \/ place' = [place EXCEPT ![j] = "failed"]
    BY DEF TypeOK
  <2> QED
    BY <2>1, MoveKeepsReport DEF ReportInv, Ended
<1>3. LadderInv'
  <2>1. CASE UNCHANGED shape
    BY <2>1, LadderFrame DEF TypeOK, LadderInv
  <2>2. ASSUME NEW r \in Rungs, IsNext(shape[j], r), shape' = [shape EXCEPT ![j] = r]
        PROVE  LadderInv'
    <3>1. shape[j] \in Rungs /\ Above(shape[j], r)
      BY <2>2 DEF TypeOK, IsNext, Below
    <3>2. ASSUME \A q \in stale : ~Above(q, r)
          PROVE  \A q \in Rungs : Above(q, r) => Refused(q)
      <4>1. shape[j] \notin stale
        BY <3>1, <3>2
      <4>2. \A q \in stale : ~Above(q, shape[j])
        BY <3>1, <3>2, AboveIsOrder DEF TypeOK
      <4>3. \A q \in Rungs : Above(q, shape[j]) => Refused(q)
        BY <4>2 DEF LargerRungsRefused
      <4>4. Refused(shape[j])
        <5>1. copy[j][shape[j]] # "old"
          BY <3>1, <4>1 DEF OldRowsAreStale
        <5> QED
          BY <5>1 DEF Refused, Known, Overdrawn, Reads
      <4> QED
        BY <2>2, <3>1, <4>3, <4>4, OneRungDown
    <3>3. LargerRungsRefused'
      <4> SUFFICES ASSUME NEW i \in Run, \A q \in stale : ~Above(q, shape'[i]),
                          NEW q \in Rungs, Above(q, shape'[i])
                   PROVE  Refused(q)
        BY DEF LargerRungsRefused, Rungs, FewestSets, Above, Refused
      <4>1. CASE i = j
        BY <2>2, <3>2, <4>1 DEF TypeOK
      <4>2. CASE i # j
        BY <2>2, <4>2 DEF TypeOK, LargerRungsRefused
      <4> QED
        BY <4>1, <4>2
    <3>4. StockIsTheRung'
      <4>1. stock[j] = Nothing
        BY DEF StockIsTheRung
      <4> QED
        BY <2>2, <4>1 DEF TypeOK, StockIsTheRung, Refused
    <3>5. OldRowsAreStale'
      BY DEF OldRowsAreStale, Rungs, FewestSets
    <3> QED
      BY <3>3, <3>4, <3>5 DEF LadderInv
  <2> QED
    BY <2>1, <2>2
<1> QED
  BY <1>1, <1>2, <1>3 DEF ReportInv, LadderInv

\* A run decides: the rung fits, or an old row says so.
LEMMA DecideKeeps == ASSUME IInv, NEW j \in Run, Decide(j) PROVE IInv'
<1> USE DEF IInv, Decide, Goto
<1>1. TypeOK'
  BY DEF TypeOK, report
<1>2. ReportInv'
  BY MoveKeepsReport DEF ReportInv, Ended
<1>3. OldRowsAreStale' /\ LargerRungsRefused'
  BY DEF OldRowsAreStale, LargerRungsRefused, Rungs, FewestSets, Above, Refused
<1>4. StockIsTheRung'
  <2>1. shape[j] \notin stale => ~Refused(shape[j])
    <3>1. shape[j] \in Rungs /\ Draw[shape[j]] \in Nat /\ PowerCap \in Nat
      BY CellAssumption DEF TypeOK
    <3>2. shape[j] \notin stale => copy[j][shape[j]] # "old"
      BY <3>1 DEF OldRowsAreStale
    <3> QED
      BY <3>1, <3>2 DEF Refused, Known, Overdrawn, Reads
  <2> QED
    BY <2>1 DEF TypeOK, StockIsTheRung, Refused
<1> QED
  BY <1>1, <1>2, <1>3, <1>4 DEF ReportInv

\* A run asks for a measurement, of a rung or of its stock.
LEMMA EvaluateKeeps ==
  ASSUME IInv, NEW j \in Run, MeasureRung(j) \/ MeasureStock(j) PROVE IInv'
<1> USE DEF IInv, MeasureRung, MeasureStock, Evaluate, Goto
<1>1. /\ place[j] \in {"rung", "stock"} /\ copy' = [copy EXCEPT ![j] = table]
      /\ UNCHANGED <<shape, stock, result, table, stale, scores, deaths, report>>
  OBVIOUS
<1>2. \/ place' = [place EXCEPT ![j] = "failed"]
      \/ place' = [place EXCEPT ![j] = "measuring"]
      \/ place' = [place EXCEPT ![j] = "arm"]
      \/ place[j] = "rung" /\ place' = [place EXCEPT ![j] = "rung"]
  OBVIOUS
<1> HIDE DEF MeasureRung, MeasureStock, Evaluate
<1>3. TypeOK'
  BY <1>1, <1>2 DEF TypeOK, report
<1>4. ReportInv'
  BY <1>1, <1>2, MoveKeepsReport DEF ReportInv, Ended
<1>5. OldRowsAreStale'
  BY <1>1 DEF TypeOK, OldRowsAreStale, Rungs, FewestSets
<1>6. LargerRungsRefused' /\ StockIsTheRung'
  BY <1>1, <1>2 DEF TypeOK, LargerRungsRefused, StockIsTheRung, Rungs, FewestSets, Above, Refused
<1> QED
  BY <1>3, <1>4, <1>5, <1>6 DEF ReportInv

\* A row is stored.
LEMMA MeasuredKeeps == ASSUME IInv, NEW j \in Run, Measured(j) PROVE IInv'
<1> USE DEF IInv, Measured, Goto
<1>1. PICK row \in {"row", "null"} :
        /\ table' = [table EXCEPT ![shape[j]] = row]
        /\ copy' = [copy EXCEPT ![j][shape[j]] = row]
  OBVIOUS
<1>2. /\ place[j] = "measuring"
      /\ UNCHANGED <<shape, stock, result, stale, scores, deaths, report>>
  OBVIOUS
<1>3. \/ place' = [place EXCEPT ![j] = "failed"]
      \/ place' = [place EXCEPT ![j] = "arm"]
      \/ stock[j] = Nothing /\ place' = [place EXCEPT ![j] = "rung"]
  OBVIOUS
<1> HIDE DEF Measured
<1>4. TypeOK'
  BY <1>1, <1>2, <1>3 DEF TypeOK, report, Row
<1>5. ReportInv'
  BY <1>2, <1>3, MoveKeepsReport DEF ReportInv, Ended
<1>6. OldRowsAreStale'
  BY <1>1, <1>2 DEF TypeOK, OldRowsAreStale, Rungs, FewestSets
<1>7. LargerRungsRefused' /\ StockIsTheRung'
  BY <1>2, <1>3 DEF TypeOK, LargerRungsRefused, StockIsTheRung, Rungs, FewestSets, Above, Refused
<1> QED
  BY <1>4, <1>5, <1>6, <1>7 DEF ReportInv

\* A simulation is killed, or an arm raises.
LEMMA RaiseKeeps == ASSUME IInv, NEW j \in Run, Raise(j) PROVE IInv'
<1> USE DEF IInv, Raise, Goto
<1>1. TypeOK'
  BY DEF TypeOK, report
<1>2. ReportInv'
  BY MoveKeepsReport DEF ReportInv, Ended
<1>3. LadderInv'
  BY LadderFrame DEF TypeOK, LadderInv
<1> QED
  BY <1>1, <1>2, <1>3 DEF ReportInv, LadderInv

\* An arm returns its history.
LEMMA ReturnKeeps == ASSUME IInv, NEW j \in Run, Return(j) PROVE IInv'
<1> USE DEF IInv, Return, Goto
<1>1. PICK h \in History : result' = [result EXCEPT ![j] = h]
  OBVIOUS
<1>2. h # Nothing /\ place[j] = "arm"
  BY CellAssumption
<1>3. TypeOK'
  BY <1>1 DEF TypeOK, report
<1>4. LadderInv'
  BY LadderFrame DEF TypeOK, LadderInv
<1>5. ResultsAreOfTheDone'
  BY <1>1, <1>2 DEF TypeOK, ResultsAreOfTheDone, report
<1>6. CollectedIsHeld'
  <2>1. \A i \in 1..Len(Order) : Order[i] \in Run
    BY CellAssumption
  <2>2. \A i \in Run : i # j => place'[i] = place[i] /\ result'[i] = result[i]
    BY <1>1 DEF TypeOK
  <2>3. driver \in {"collect", "write", "fill", "finished"} =>
          \A i \in 1..Len(Order) : i <= next => Order[i] # j
    BY <1>2 DEF CollectedIsHeld, HasEnded
  <2> QED
    BY <2>1, <2>2, <2>3 DEF CollectedIsHeld, HasEnded, report
<1>7. DeathsAreCounted'
  BY DEF TypeOK, DeathsAreCounted, report
<1> QED
  BY <1>3, <1>4, <1>5, <1>6, <1>7 DEF LadderInv

\* The driver submits, or finds the pool broken.
LEMMA SubmitKeeps == ASSUME IInv, Submit PROVE IInv'
<1> USE DEF IInv, Submit, Goto
<1>1. CASE PoolIsBroken
  <2>1. deaths > 0
    BY <1>1 DEF PoolIsBroken, DeathsAreCounted
  <2>2. driver' = "raised"
    BY <1>1
  <2>3. TypeOK'
    BY <1>1 DEF TypeOK
  <2>4. LadderInv'
    BY <1>1, LadderFrame DEF LadderInv
  <2>5. ReportInv'
    BY <1>1, <2>1, <2>2 DEF ReportInv, ResultsAreOfTheDone, CollectedIsHeld, DeathsAreCounted
  <2> QED
    BY <2>3, <2>4, <2>5 DEF LadderInv, ReportInv
<1>2. CASE ~PoolIsBroken
  <2> DEFINE j == Order[next + 1]
  <2>1. next + 1 \in 1..Len(Order) /\ j \in Run
    <3>1. next \in 0..Len(Order) + 1 /\ next < Len(Order)
      BY DEF TypeOK
    <3> HIDE DEF IInv, Submit
    <3>2. Order \in Seq(Run)
      BY CellAssumption
    <3>3. Len(Order) \in Nat
      BY <3>2
    <3>4. next + 1 \in 1..Len(Order)
      BY <3>1, <3>3
    <3> QED
      BY <3>2, <3>4
  <2>2. TypeOK'
    BY <1>2, <2>1 DEF TypeOK
  <2>3. place[j] = "unsent"
    BY <2>1 DEF TypeOK, CollectedIsHeld
  <2>4. LadderInv'
    BY <1>2, <2>1, <2>3, LadderFrame DEF TypeOK, LadderInv
  <2>5. ResultsAreOfTheDone' /\ DeathsAreCounted'
    BY <1>2, <2>1, <2>3 DEF TypeOK, ResultsAreOfTheDone, DeathsAreCounted
  <2>6. CollectedIsHeld'
    <3>1. \A i \in 1..Len(Order) : i > next + 1 => Order[i] # j /\ Order[i] \in Run /\ i > next
      <4>1. next \in Nat /\ j = Order[next + 1]
        BY DEF TypeOK
      <4>2. Order \in Seq(Run) /\ \A i, k \in 1..Len(Order) : Order[i] = Order[k] => i = k
        BY CellAssumption
      <4> QED  BY ONLY <2>1, <4>1, <4>2
    <3> QED
      BY <1>2, <3>1 DEF TypeOK, CollectedIsHeld
  <2> QED
    BY <2>2, <2>4, <2>5, <2>6 DEF LadderInv
<1> QED
  BY <1>1, <1>2

LEMMA AllSubmittedKeeps == ASSUME IInv, AllSubmitted PROVE IInv'
<1> USE DEF IInv, AllSubmitted, jobs
<1>1. TypeOK'
  BY CellAssumption DEF TypeOK
<1>2. LadderInv'
  BY LadderFrame DEF LadderInv
<1>3. ReportInv'
  BY DEF ReportInv, ResultsAreOfTheDone, CollectedIsHeld, DeathsAreCounted
<1> QED
  BY <1>1, <1>2, <1>3 DEF LadderInv, ReportInv

\* The driver takes the next handle.
LEMMA CollectKeeps == ASSUME IInv, Collect PROVE IInv'
<1> DEFINE j == Order[next + 1]
<1> USE DEF IInv, Collect, jobs
<1>10. next \in Nat /\ next < Len(Order) /\ Len(Order) \in Nat /\ next' = next + 1
  BY CellAssumption DEF TypeOK
<1>11. HasEnded(j)
  OBVIOUS
<1>1. next + 1 \in 1..Len(Order) /\ j \in Run /\ HasEnded(j) /\ next' = next + 1 /\ next' # 0
  <2>1. next + 1 \in 1..Len(Order) /\ next' # 0
    BY <1>10
  <2> QED
    BY <1>10, <1>11, <2>1, CellAssumption
<1>2. \/ place[j] = "done" /\ runs' = [runs EXCEPT ![j] = result[j]] /\ driver' = "write" /\ failed' = failed
      \/ place[j] # "done" /\ failed' = failed \cup {j} /\ runs' = runs /\ driver' = "collect"
  BY DEF Reported
<1>3. UNCHANGED <<jobs, table, stale, content, file, scores, deaths>> /\ driver = "collect"
  OBVIOUS
<1> HIDE DEF Collect
<1>4. TypeOK'
  BY <1>1, <1>2, <1>3 DEF TypeOK
<1>5. LadderInv'
  BY <1>3, LadderFrame DEF LadderInv
<1>6. ResultsAreOfTheDone' /\ DeathsAreCounted'
  BY <1>1, <1>2, <1>3 DEF TypeOK, ResultsAreOfTheDone, DeathsAreCounted, HasEnded
<1>7. CollectedIsHeld'
  <2> SUFFICES ASSUME NEW i \in 1..Len(Order), i <= next + 1
               PROVE  /\ HasEnded(Order[i])
                      /\ place[Order[i]] = "done" => runs'[Order[i]] = result[Order[i]]
                      /\ place[Order[i]] # "done" => Order[i] \in failed'
    BY <1>1, <1>2, <1>3 DEF CollectedIsHeld, HasEnded
  <2>1. Order[i] \in Run
    BY CellAssumption
  <2>2. CASE i = next + 1
    BY <1>1, <1>2, <2>2 DEF TypeOK
  <2>3. CASE i # next + 1
    <3>1. i <= next
      BY <2>3 DEF TypeOK
    <3>2. Order[i] # j
      BY <1>1, <2>3, CellAssumption
    <3> QED
      BY <1>2, <1>3, <2>1, <3>1, <3>2 DEF TypeOK, CollectedIsHeld
  <2> QED
    BY <2>2, <2>3
<1> QED
  BY <1>4, <1>5, <1>6, <1>7 DEF LadderInv

LEMMA CloseKeeps == ASSUME IInv, Close PROVE IInv'
<1> USE DEF IInv, Close, jobs
<1>1. TypeOK'
  BY CellAssumption DEF TypeOK
<1>2. LadderInv'
  BY LadderFrame DEF LadderInv
<1>3. ReportInv'
  BY CellAssumption DEF TypeOK, ReportInv, ResultsAreOfTheDone, CollectedIsHeld, DeathsAreCounted, HasEnded
<1> QED
  BY <1>1, <1>2, <1>3 DEF LadderInv, ReportInv

\* The report is truncated.
LEMMA TruncateKeeps == ASSUME IInv, Truncate PROVE IInv'
<1> USE DEF IInv, Truncate, jobs
<1>1. TypeOK'
  BY DEF TypeOK
<1>2. LadderInv'
  BY LadderFrame DEF LadderInv
<1>3. ReportInv'
  BY DEF ReportInv, ResultsAreOfTheDone, CollectedIsHeld, DeathsAreCounted, HasEnded
<1> QED
  BY <1>1, <1>2, <1>3 DEF LadderInv, ReportInv

\* The report is filled with what the driver holds.
LEMMA FillKeeps == ASSUME IInv, Fill PROVE IInv'
<1> USE DEF IInv, Fill, jobs
<1>1. TypeOK'
  BY DEF TypeOK
<1>2. LadderInv'
  BY LadderFrame DEF LadderInv
<1>3. ResultsAreOfTheDone' /\ DeathsAreCounted'
  BY DEF ResultsAreOfTheDone, DeathsAreCounted
<1>4. CollectedIsHeld'
  <2>1. driver' = "finished" => next = Len(Order) + 1
    BY CellAssumption DEF TypeOK
  <2> QED
    BY <2>1 DEF CollectedIsHeld, HasEnded
<1> QED
  BY <1>1, <1>2, <1>3, <1>4 DEF LadderInv

\* A worker dies: what has not ended fails.
LEMMA WorkerDiesKeeps == ASSUME IInv, WorkerDies PROVE IInv'
<1> USE DEF IInv, WorkerDies, report
<1>1. /\ \A i \in Run : place[i] \in {"done", "failed", "broken", "unsent"} => place'[i] = place[i]
      /\ \A i \in Run : place'[i] \in {"done", "failed", "unsent"} => place'[i] = place[i]
      /\ deaths' > 0
  BY DEF TypeOK
<1>2. TypeOK'
  BY DEF TypeOK
<1>3. LadderInv'
  <2>1. \A i \in Run : place'[i] \in {"unsent", "queued", "rung"} => place[i] = "unsent"
    OBVIOUS
  <2> QED
    BY <2>1, LadderFrame DEF LadderInv
<1>4. ResultsAreOfTheDone' /\ DeathsAreCounted'
  BY <1>1 DEF ResultsAreOfTheDone, DeathsAreCounted
<1>5. CollectedIsHeld'
  <2>1. \A i \in 1..Len(Order) : Order[i] \in Run
    BY CellAssumption
  <2> QED
    BY <1>1, <2>1 DEF CollectedIsHeld, HasEnded
<1> QED
  BY <1>2, <1>3, <1>4, <1>5 DEF LadderInv

LEMMA DriverDiesKeeps == ASSUME IInv, DriverDies PROVE IInv'
<1> USE DEF IInv, DriverDies, jobs
<1>1. TypeOK' /\ deaths' > 0
  BY DEF TypeOK
<1>2. LadderInv'
  BY LadderFrame DEF LadderInv
<1>3. ReportInv'
  BY <1>1 DEF ReportInv, ResultsAreOfTheDone, CollectedIsHeld, DeathsAreCounted
<1> QED
  BY <1>1, <1>2, <1>3 DEF LadderInv, ReportInv

\* The scorer reads, and so does who waits.
LEMMA OthersKeep == ASSUME IInv, UNCHANGED <<jobs, table, stale, report, deaths>> PROVE IInv'
<1> USE DEF IInv, jobs, report
<1>1. TypeOK'
  BY DEF TypeOK
<1>2. LadderInv'
  BY LadderFrame DEF LadderInv
<1>3. ReportInv'
  BY DEF ReportInv, ResultsAreOfTheDone, CollectedIsHeld, DeathsAreCounted, HasEnded
<1> QED
  BY <1>1, <1>2, <1>3 DEF LadderInv, ReportInv

-----------------------------------------------------------------------------
\* The invariant holds throughout.
THEOREM Invariance == Spec => []IInv
<1>1. IInv /\ [Next]_vars => IInv'
  <2> SUFFICES ASSUME IInv, [Next]_vars PROVE IInv'
    OBVIOUS
  <2>1. ASSUME NEW j \in Run, RunStep(j) PROVE IInv'
    BY <2>1, StartKeeps, StepDownKeeps, DecideKeeps, EvaluateKeeps, MeasuredKeeps, RaiseKeeps, ReturnKeeps
    DEF RunStep
  <2>2. CASE DriverStep
    BY <2>2, SubmitKeeps, AllSubmittedKeeps, CollectKeeps, CloseKeeps, TruncateKeeps, FillKeeps, OthersKeep
    DEF DriverStep, AwaitRun, vars
  <2>3. CASE WorkerDies \/ DriverDies
    BY <2>3, WorkerDiesKeeps, DriverDiesKeeps
  <2>4. CASE Score \/ UNCHANGED vars
    BY <2>4, OthersKeep DEF Score, vars
  <2> QED
    BY <2>1, <2>2, <2>3, <2>4 DEF Next
<1> QED
  BY <1>1, InvInit, PTL DEF Spec

\* Every run that decides a stock decides the same one, the first rung that
\* fits, unless an older simulator's row spoke for a rung (suite.py:263-284).
THEOREM StockIsRight == Spec => []StockIsFirstFit
<1>1. IInv => StockIsFirstFit
  BY DEF IInv, TypeOK, LargerRungsRefused, StockIsTheRung, StockIsFirstFit, IsFirstFit
<1> QED
  BY <1>1, Invariance, PTL

\* Two rungs that are the first to fit are one rung, so the runs of a cell
\* share their stock.
THEOREM FirstFitIsUnique ==
  ASSUME NEW q \in Rungs, NEW r \in Rungs, IsFirstFit(q), IsFirstFit(r)
  PROVE  q = r
BY LadderIsTotal DEF IsFirstFit

\* The report that is left has every run once (search.py:342-358).
THEOREM ReportIsComplete == Spec => []EveryRunReported
<1>1. IInv => EveryRunReported
  <2> SUFFICES ASSUME IInv PROVE EveryRunReported
    OBVIOUS
  <2>1. ASSUME driver = "finished", NEW j \in Run
        PROVE  /\ (j \in file.failed) = (file.runs[j] = Nothing)
               /\ (j \in file.failed) = (result[j] = Nothing)
    <3>1. PICK i \in 1..Len(Order) : Order[i] = j
      BY CellAssumption
    <3>4. i <= next
      BY <2>1, CellAssumption DEF IInv, CollectedIsHeld
    <3>2. /\ HasEnded(j)
          /\ place[j] = "done" => runs[j] = result[j]
          /\ place[j] # "done" => j \in failed
      BY <2>1, <3>1, <3>4 DEF IInv, CollectedIsHeld
    <3>3. file.failed = failed /\ file.runs = runs
      BY <2>1 DEF IInv, CollectedIsHeld
    <3> QED
      BY <3>2, <3>3 DEF IInv, ResultsAreOfTheDone
  <2> QED
    BY <2>1 DEF IInv, ResultsAreOfTheDone, CollectedIsHeld, DeathsAreCounted, EveryRunReported
<1> QED
  BY <1>1, Invariance, PTL

-----------------------------------------------------------------------------
(***************************************************************************)
(* What the scorer reads off a ledger.  The curve is defined by recursion; *)
(* what holds of all of it holds of the least place where it might fail.   *)
(***************************************************************************)

\* Naturals are well founded: a set of them has a least one.
LEMMA LeastNatural ==
  ASSUME NEW T \in SUBSET Nat, T # {}
  PROVE  \E n \in T : \A m \in T : n <= m
<1>1. PICK n \in T : \A m \in T : ~(<<m, n>> \in OpToRel(<, Nat))
  BY NatLessThanWellFounded, WFMin
<1>2. \A m, k \in Nat : m < k => <<m, k>> \in OpToRel(<, Nat)
  BY DEF OpToRel
<1>3. \A m \in T : ~(m < n)
  BY <1>1, <1>2
<1> QED  BY <1>3

\* The rows of a ledger, of which a run has one at least.
LedgerRow == [value : Nat \ {0}, refused : BOOLEAN]

\* A place of the curve, from the place before it.
Raised(rows, n, before) == IF ~rows[n].refused /\ rows[n].value > before THEN rows[n].value ELSE before

\* The curve's recursion has a solution.
LEMMA CurveExists ==
  ASSUME NEW rows \in Seq(LedgerRow), NEW last \in Nat
  PROVE  \E f : f = [n \in 0..last |-> IF n = 0 THEN None ELSE Raised(rows, n, f[n - 1])]
<1> DEFINE Solves(f, k) == f = [n \in 0..k |-> IF n = 0 THEN None ELSE Raised(rows, n, f[n - 1])]
           T == {k \in Nat : ~\E f : Solves(f, k)}
<1> SUFFICES ASSUME T # {} PROVE FALSE
  OBVIOUS
<1>1. PICK k \in T : \A m \in T : k <= m
  <2>1. T \in SUBSET Nat
    OBVIOUS
  <2> HIDE DEF T
  <2> QED  BY <2>1, LeastNatural
<1>2. k # 0
  <2> SUFFICES ASSUME k = 0 PROVE FALSE
    OBVIOUS
  <2> DEFINE g == [n \in 0..0 |-> None]
  <2>1. Solves(g, 0)
    OBVIOUS
  <2> QED  BY <2>1
<1>3. PICK f : Solves(f, k - 1)
  <2>1. k - 1 \in Nat /\ ~(k <= k - 1)
    BY <1>2
  <2>2. k - 1 \notin T
    BY <1>1, <2>1
  <2> QED  BY <2>1, <2>2
<1> DEFINE g == [n \in 0..k |-> IF n = k THEN Raised(rows, k, f[k - 1]) ELSE f[n]]
<1>4. \A n \in 0..k : g[n] = IF n = 0 THEN None ELSE Raised(rows, n, g[n - 1])
  <2> SUFFICES ASSUME NEW n \in 0..k PROVE g[n] = IF n = 0 THEN None ELSE Raised(rows, n, g[n - 1])
    OBVIOUS
  <2>1. CASE n = k
    <3>1. n # 0 /\ n - 1 \in 0..k /\ n - 1 # k
      BY <1>2, <2>1
    <3> QED  BY <2>1, <3>1
  <2>2. CASE n # k
    <3>1. n \in 0..(k - 1) /\ g[n] = f[n]
      BY <2>2
    <3>2. f[n] = IF n = 0 THEN None ELSE Raised(rows, n, f[n - 1])
      BY <1>3, <3>1
    <3>3. n # 0 => n - 1 \in 0..k /\ n - 1 # k
      BY <2>2
    <3> QED  BY <3>1, <3>2, <3>3
  <2> QED  BY <2>1, <2>2
<1>5. Solves(g, k)
  <2>1. g = [n \in 0..k |-> g[n]]
    OBVIOUS
  <2> HIDE DEF g
  <2> QED  BY <1>4, <2>1
<1> QED
  BY <1>5

\* The curve, place by place: it starts with the first row and is raised by a
\* feasible row that exceeds it.
LEMMA CurveSteps ==
  ASSUME NEW rows \in Seq(LedgerRow)
  PROVE  /\ Len(rows) \in Nat /\ DOMAIN rows = 1..Len(rows) /\ DOMAIN BestSoFar(rows) = 1..Len(rows)
         /\ \A n \in 1..Len(rows) : /\ rows[n].value \in Nat \ {0} /\ rows[n].refused \in BOOLEAN
                                 /\ BestSoFar(rows)[n] \in Nat
                                 /\ BestSoFar(rows)[n] = Raised(rows, n, IF n = 1 THEN None ELSE BestSoFar(rows)[n - 1])
<1>1. /\ Len(rows) \in Nat /\ DOMAIN rows = 1..Len(rows)
      /\ \A n \in 1..Len(rows) : rows[n].value \in Nat \ {0} /\ rows[n].refused \in BOOLEAN
  <2>1. \A n \in 1..Len(rows) : rows[n] \in LedgerRow
    OBVIOUS
  <2> QED  BY <2>1 DEF LedgerRow
<1> DEFINE best == CHOOSE f : f = [n \in 0..Len(rows) |->
                     IF n = 0 THEN None
                     ELSE IF ~rows[n].refused /\ rows[n].value > f[n - 1] THEN rows[n].value ELSE f[n - 1]]
           curve == BestSoFar(rows)
<1>2. best = [n \in 0..Len(rows) |-> IF n = 0 THEN None ELSE Raised(rows, n, best[n - 1])]
  <2>1. \E f : f = [n \in 0..Len(rows) |-> IF n = 0 THEN None ELSE Raised(rows, n, f[n - 1])]
    BY <1>1, CurveExists
  <2> QED  BY <2>1 DEF Raised
<1>3. curve = [n \in 1..Len(rows) |-> best[n]]
  BY DEF BestSoFar
<1> HIDE DEF best, curve
<1>4. best[0] = None /\ \A n \in 1..Len(rows) : best[n] = Raised(rows, n, best[n - 1])
  BY <1>1, <1>2
<1>5. ASSUME NEW n \in 1..Len(rows)
      PROVE  curve[n] = Raised(rows, n, IF n = 1 THEN None ELSE curve[n - 1])
  <2>1. CASE n = 1
    BY <1>3, <1>4, <2>1
  <2>2. CASE n # 1
    <3>1. n - 1 \in 1..Len(rows)
      BY <1>1, <2>2
    <3> QED  BY <1>3, <1>4, <2>2, <3>1
  <2> QED  BY <2>1, <2>2
<1>6. \A n \in 1..Len(rows) : curve[n] \in Nat
  <2> DEFINE T == {n \in 1..Len(rows) : curve[n] \notin Nat}
  <2> SUFFICES ASSUME T # {} PROVE FALSE
    OBVIOUS
  <2>1. T \in SUBSET Nat
    BY <1>1
  <2>2. PICK n \in T : \A m \in T : n <= m
    <3> HIDE DEF T
    <3> QED  BY <2>1, LeastNatural
  <2>3. n \in 1..Len(rows) /\ curve[n] \notin Nat
    OBVIOUS
  <2>4. n # 1 => curve[n - 1] \in Nat
    <3> SUFFICES ASSUME n # 1 PROVE curve[n - 1] \in Nat
      OBVIOUS
    <3>1. n - 1 \in 1..Len(rows) /\ ~(n <= n - 1)
      BY <1>1, <2>3
    <3>2. n - 1 \notin T
      BY <2>2, <3>1
    <3> QED  BY <3>1, <3>2
  <2> QED  BY <1>1, <1>5, <2>3, <2>4 DEF Raised, None
<1>7. DOMAIN curve = 1..Len(rows)
  BY <1>3
<1> QED  BY <1>1, <1>5, <1>6, <1>7 DEF curve

\* The curve never falls.
LEMMA CurveGrows ==
  ASSUME NEW rows \in Seq(LedgerRow), NEW m \in 1..Len(rows), NEW n \in 1..Len(rows), m <= n
  PROVE  BestSoFar(rows)[m] <= BestSoFar(rows)[n]
<1> DEFINE curve == BestSoFar(rows)
           T == {k \in m..Len(rows) : ~(curve[m] <= curve[k])}
<1>1. /\ Len(rows) \in Nat /\ m \in Nat
      /\ \A k \in 1..Len(rows) : /\ rows[k].value \in Nat /\ curve[k] \in Nat
                              /\ curve[k] = Raised(rows, k, IF k = 1 THEN None ELSE curve[k - 1])
  BY CurveSteps
<1> HIDE DEF curve
<1>0. SUFFICES ASSUME T # {} PROVE FALSE
  <2>1. n \in m..Len(rows)
    BY <1>1
  <2>2. T = {} => curve[m] <= curve[n]
    BY <2>1
  <2> QED  BY <2>2 DEF curve
<1>2. PICK k \in T : \A i \in T : k <= i
  <2>1. T \in SUBSET Nat
    BY <1>1
  <2> HIDE DEF T
  <2> QED  BY <1>0, <2>1, LeastNatural
<1>3. k \in m..Len(rows) /\ ~(curve[m] <= curve[k]) /\ k # m /\ k \in Nat
  BY <1>1
<1>4. k - 1 \in m..Len(rows) /\ k - 1 \in 1..Len(rows) /\ k \in 1..Len(rows) /\ k # 1 /\ ~(k <= k - 1)
  BY <1>1, <1>3
<1>5. curve[m] <= curve[k - 1]
  <2>1. k - 1 \notin T
    BY <1>2, <1>4
  <2> QED  BY <1>4, <2>1
<1>6. curve[k] = Raised(rows, k, curve[k - 1]) /\ curve[k] \in Nat /\ curve[k - 1] \in Nat /\ curve[m] \in Nat
      /\ rows[k].value \in Nat
  BY <1>1, <1>4
<1> QED
  BY <1>3, <1>5, <1>6 DEF Raised

\* A value on the curve is that of a feasible row.
LEMMA CurveIsMet ==
  ASSUME NEW rows \in Seq(LedgerRow), NEW n \in 1..Len(rows), BestSoFar(rows)[n] # None
  PROVE  \E m \in 1..Len(rows) : ~rows[m].refused /\ rows[m].value = BestSoFar(rows)[n]
<1> DEFINE curve == BestSoFar(rows)
           Met(k) == \E m \in 1..Len(rows) : ~rows[m].refused /\ rows[m].value = curve[k]
           T == {k \in 1..Len(rows) : curve[k] # None /\ ~Met(k)}
<1>1. /\ Len(rows) \in Nat
      /\ \A k \in 1..Len(rows) : curve[k] = Raised(rows, k, IF k = 1 THEN None ELSE curve[k - 1])
  BY CurveSteps
<1> HIDE DEF curve
<1> SUFFICES ASSUME T # {} PROVE FALSE
  BY DEF curve
<1>2. PICK k \in T : \A i \in T : k <= i
  <2>1. T \in SUBSET Nat
    BY <1>1
  <2> HIDE DEF T
  <2> QED  BY <2>1, LeastNatural
<1>3. k \in 1..Len(rows) /\ curve[k] # None /\ ~Met(k)
  OBVIOUS
<1>4. k # 1 /\ curve[k] = curve[k - 1]
  BY <1>1, <1>3 DEF Raised
<1>5. k - 1 \in 1..Len(rows) /\ ~(k <= k - 1)
  BY <1>1, <1>3, <1>4
<1>6. k - 1 \notin T
  BY <1>2, <1>5
<1> QED
  BY <1>3, <1>4, <1>5, <1>6

\* The least and the greatest of a set of numbers are what they should be.
LEMMA FirstOf ==
  ASSUME NEW S \in SUBSET Nat, S # {}
  PROVE  First(S) \in S /\ \A m \in S : First(S) <= m
BY LeastNatural DEF First

LEMMA LastOf ==
  ASSUME NEW S \in SUBSET Nat, NEW n \in S, \A m \in S : n >= m
  PROVE  Last(S) = n
<1>1. Last(S) \in S /\ \A m \in S : Last(S) >= m
  BY DEF Last
<1>2. Last(S) \in Nat /\ n \in Nat /\ Last(S) >= n /\ n >= Last(S)
  BY <1>1
<1> QED  BY ONLY <1>2

\* A run that reports the stock first has a final value: that of a feasible row
\* which none exceeds.
LEMMA FinalIsBest ==
  ASSUME NEW rows \in Seq(LedgerRow), rows # <<>>, ~rows[1].refused
  PROVE  /\ Final(rows) = BestSoFar(rows)[Len(rows)] /\ Len(rows) \in 1..Len(rows)
         /\ Final(rows) \in Nat \ {None}
         /\ Final(rows) \in Feasible(rows) /\ \A v \in Feasible(rows) : v <= Final(rows)
<1> DEFINE curve == BestSoFar(rows)
           last == Len(rows)
<1>1. /\ last \in Nat /\ DOMAIN rows = 1..last
      /\ \A n \in 1..last : /\ rows[n].value \in Nat \ {0} /\ curve[n] \in Nat
                         /\ curve[n] = Raised(rows, n, IF n = 1 THEN None ELSE curve[n - 1])
  BY CurveSteps
<1>2. last \in 1..last /\ 1 \in 1..last
  <2>1. last # 0
    OBVIOUS
  <2> QED  BY <1>1, <2>1
<1>3. Final(rows) = curve[last]
  BY DEF Final
<1>4. ASSUME NEW n \in 1..last PROVE curve[n] <= curve[last]
  <2>1. n <= last
    OBVIOUS
  <2> QED  BY <1>2, <2>1, CurveGrows
<1>5. \A n \in 1..last : ~rows[n].refused => rows[n].value <= curve[n]
  <2> SUFFICES ASSUME NEW n \in 1..last, ~rows[n].refused PROVE rows[n].value <= curve[n]
    OBVIOUS
  <2> DEFINE before == IF n = 1 THEN None ELSE curve[n - 1]
  <2>1. before \in Nat
    <3>1. n # 1 => n - 1 \in 1..last
      BY <1>1
    <3> QED  BY <1>1, <3>1 DEF None
  <2>2. rows[n].value \in Nat /\ curve[n] = Raised(rows, n, before)
    BY <1>1
  <2> HIDE DEF before, curve
  <2> QED  BY <2>1, <2>2 DEF Raised
<1>6. \E m \in 1..last : ~rows[m].refused /\ rows[m].value = curve[last]
  <2>1. curve[last] # None
    <3>1. rows[1].value <= curve[1] /\ curve[1] <= curve[last] /\ rows[1].value \in Nat \ {0}
          /\ curve[1] \in Nat /\ curve[last] \in Nat
      BY <1>1, <1>2, <1>4, <1>5
    <3> HIDE DEF curve, last
    <3> QED  BY <3>1 DEF None
  <2> QED  BY <1>2, <2>1, CurveIsMet
<1> HIDE DEF curve, last
<1>7. curve[last] \in Feasible(rows)
  BY <1>1, <1>6 DEF Feasible
<1>8. curve[last] \in Nat \ {None}
  BY <1>1, <1>6 DEF None
<1>9. ASSUME NEW v \in Feasible(rows) PROVE v <= curve[last]
  <2>1. PICK n \in 1..last : ~rows[n].refused /\ v = rows[n].value
    BY <1>1 DEF Feasible
  <2>2. rows[n].value <= curve[n] /\ curve[n] <= curve[last] /\ rows[n].value \in Nat /\ curve[n] \in Nat
    BY <1>1, <1>4, <1>5, <2>1
  <2> QED  BY <1>8, <2>1, <2>2
<1> QED
  BY <1>2, <1>3, <1>7, <1>8, <1>9 DEF curve, last

\* A target is reached exactly when the final value is no less.
LEMMA TargetIsReached ==
  ASSUME NEW rows \in Seq(LedgerRow), rows # <<>>, ~rows[1].refused, NEW target \in Nat
  PROVE  /\ EvaluationsTo(rows, target) # None <=> Final(rows) >= target
         /\ EvaluationsTo(rows, target) # None =>
              /\ EvaluationsTo(rows, target) \in 1..Len(rows)
              /\ BestSoFar(rows)[EvaluationsTo(rows, target)] # None
              /\ BestSoFar(rows)[EvaluationsTo(rows, target)] >= target
              /\ \A n \in 1..Len(rows) :
                   BestSoFar(rows)[n] # None /\ BestSoFar(rows)[n] >= target => EvaluationsTo(rows, target) <= n
<1> DEFINE curve == BestSoFar(rows)
           there == {n \in DOMAIN rows : curve[n] # None /\ Meets(curve[n], target)}
<1>1. /\ Len(rows) \in Nat /\ DOMAIN rows = 1..Len(rows)
      /\ \A n \in 1..Len(rows) : curve[n] \in Nat /\ curve[n] <= curve[Len(rows)]
  <2>1. Len(rows) \in 1..Len(rows) /\ Len(rows) \in Nat
    BY FinalIsBest, CurveSteps
  <2>2. ASSUME NEW n \in 1..Len(rows) PROVE curve[n] <= curve[Len(rows)]
    <3>1. n <= Len(rows)
      OBVIOUS
    <3> QED  BY <2>1, <3>1, CurveGrows
  <2> QED  BY <2>1, <2>2, CurveSteps
<1>2. Final(rows) = curve[Len(rows)] /\ Final(rows) \in Nat \ {None} /\ Len(rows) \in 1..Len(rows)
  BY FinalIsBest
<1>3. EvaluationsTo(rows, target) = IF there = {} THEN None ELSE First(there)
  BY DEF EvaluationsTo
<1> HIDE DEF curve
<1>4. there \in SUBSET Nat
  BY <1>1
<1>5. there # {} => First(there) \in there /\ \A n \in there : First(there) <= n
  <2> HIDE DEF there
  <2> QED  BY <1>4, FirstOf
<1>6. there # {} <=> Final(rows) >= target
  <2>1. ASSUME Final(rows) >= target PROVE Len(rows) \in there
    BY <1>1, <1>2, <2>1 DEF Meets
  <2>2. ASSUME NEW n \in there PROVE Final(rows) >= target
    <3>1. n \in 1..Len(rows) /\ curve[n] >= target
      BY <1>1 DEF Meets
    <3>2. curve[n] \in Nat /\ curve[n] <= Final(rows)
      BY <1>1, <1>2, <3>1
    <3> QED  BY <1>2, <3>1, <3>2
  <2> QED  BY <2>1, <2>2
<1>7. there # {} =>
        /\ First(there) \in 1..Len(rows) /\ First(there) # None
        /\ curve[First(there)] # None /\ curve[First(there)] >= target
        /\ \A n \in 1..Len(rows) : curve[n] # None /\ curve[n] >= target => First(there) <= n
  BY <1>1, <1>5 DEF Meets, None
<1> HIDE DEF there
<1> QED
  BY <1>3, <1>6, <1>7 DEF curve

\* The final value is reached at the last gain.
LEMMA FinalIsTheLastGain ==
  ASSUME NEW rows \in Seq(LedgerRow), rows # <<>>, ~rows[1].refused
  PROVE  EvaluationsTo(rows, Final(rows)) = Plateau(rows, 0)
<1> DEFINE curve == BestSoFar(rows)
           final == Final(rows)
           first == EvaluationsTo(rows, final)
           last == Len(rows)
           gains == Gains(rows)
<1>1. /\ last \in Nat /\ DOMAIN rows = 1..last /\ last \in 1..last
      /\ \A n \in 1..last : curve[n] \in Nat
      /\ final = curve[last] /\ final \in Nat \ {None}
  BY FinalIsBest, CurveSteps
<1>2. \A m, n \in 1..last : m <= n => curve[m] <= curve[n]
  BY CurveGrows
<1>3. /\ first \in 1..last /\ curve[first] >= final
      /\ \A n \in 1..last : curve[n] # None /\ curve[n] >= final => first <= n
  <2>1. final \in Nat /\ final >= final
    BY <1>1
  <2>2. first # None
    BY <2>1, TargetIsReached
  <2> QED  BY <2>1, <2>2, TargetIsReached
<1>4. gains = {n \in 1..last : curve[n] # None /\ (n = 1 \/ curve[n] # curve[n - 1])}
  BY <1>1 DEF Gains
<1> HIDE DEF curve, final, first, last, gains
<1>5. \A n \in 1..last : n >= first => curve[n] = final
  <2> SUFFICES ASSUME NEW n \in 1..last, n >= first PROVE curve[n] = final
    OBVIOUS
  <2>1. n \in Nat /\ first \in Nat /\ n <= last
    BY <1>1, <1>3
  <2>2. curve[first] <= curve[n] /\ curve[n] <= curve[last]
    BY <1>1, <1>2, <1>3, <2>1
  <2>3. curve[first] \in Nat /\ curve[n] \in Nat /\ curve[last] \in Nat
    BY <1>1, <1>3
  <2> QED  BY <1>1, <1>3, <2>2, <2>3
<1>6. first \in gains
  <2>1. first \in Nat /\ curve[first] = final
    BY <1>1, <1>3, <1>5
  <2>2. CASE first # 1
    <3>1. first - 1 \in 1..last /\ ~(first <= first - 1)
      BY <1>1, <1>3, <2>2
    <3>2. curve[first - 1] # final
      BY <1>1, <1>3, <3>1
    <3> QED  BY <1>1, <1>3, <1>4, <2>1, <3>2
  <2> QED  BY <1>1, <1>3, <1>4, <2>1, <2>2
<1>7. ASSUME NEW m \in gains PROVE first >= m
  <2>1. m \in 1..last /\ m \in Nat /\ first \in Nat
    BY <1>1, <1>3, <1>4
  <2>2. CASE m > first
    <3>1. m - 1 \in 1..last /\ m - 1 >= first /\ m # 1
      BY <1>1, <1>3, <2>1, <2>2
    <3>2. curve[m] = final /\ curve[m - 1] = final
      BY <1>5, <2>1, <2>2, <3>1
    <3> QED  BY <1>4, <3>1, <3>2
  <2> QED  BY <2>1, <2>2
<1>8. gains \in SUBSET Nat
  BY <1>1, <1>4
<1>9. Last(gains) = first
  BY <1>6, <1>7, <1>8, LastOf
<1>10. ~(last - first < 0)
  BY <1>1, <1>3
<1>11. Plateau(rows, 0) = first
  BY <1>6, <1>9, <1>10 DEF Plateau, gains, last
<1> QED  BY <1>11 DEF first, final

-----------------------------------------------------------------------------
(***************************************************************************)
(* The scores are of the report there is.                                  *)
(***************************************************************************)

\* A step after which nothing about the scores or the report has changed.
LEMMA ScoresFrame ==
  ASSUME ScoresAreOfTheReport, UNCHANGED <<driver, file, scores>>
  PROVE  ScoresAreOfTheReport'
BY DEF ScoresAreOfTheReport, HasStopped, Ledgers

\* No step of a run touches the report, and none of the driver's is taken once
\* there are scores.
LEMMA ScoresKeep == ASSUME ScoresAreOfTheReport, [Next]_vars PROVE ScoresAreOfTheReport'
<1>1. ASSUME NEW j \in Run, RunStep(j) PROVE ScoresAreOfTheReport'
  <2>1. UNCHANGED <<driver, file, scores>>
    BY <1>1 DEF RunStep, Start, StepDown, Decide, MeasureRung, MeasureStock, Evaluate, Measured,
                Raise, Return, report
  <2> QED  BY <2>1, ScoresFrame
<1>2. CASE DriverStep
  <2>1. CASE AwaitRun
    BY <2>1, ScoresFrame DEF AwaitRun, vars, report
  <2>2. CASE ~AwaitRun
    <3>1. scores' = scores /\ driver \in {"submit", "collect", "write", "fill"}
      BY <1>2, <2>2 DEF DriverStep, Submit, AllSubmitted, Collect, Close, Truncate, Fill
    <3> QED  BY <3>1 DEF ScoresAreOfTheReport, HasStopped
  <2> QED  BY <2>1, <2>2
<1>3. CASE WorkerDies
  BY <1>3, ScoresFrame DEF WorkerDies, report
<1>4. CASE DriverDies
  BY <1>4 DEF DriverDies, ScoresAreOfTheReport, HasStopped
<1>5. CASE Score
  BY <1>5 DEF Score, report, ScoresAreOfTheReport, HasStopped, Ledgers
<1>6. CASE UNCHANGED vars
  BY <1>6, ScoresFrame DEF vars, report
<1> QED
  BY <1>1, <1>2, <1>3, <1>4, <1>5, <1>6 DEF Next

\* A line of the scores says of a ledger what its rows do.
LEMMA LineReadsTheRows ==
  ASSUME NEW rows \in Seq(LedgerRow), rows # <<>>, ~rows[1].refused,
         NEW slow \in Seq(LedgerRow), slow # <<>>, ~slow[1].refused,
         Len(slow) >= Len(rows), NEW is \in BOOLEAN
  PROVE  LET line == Line(rows, slow, is, Window)
             target == Final(slow)
         IN  /\ line.final \in Feasible(rows) /\ \A v \in Feasible(rows) : v <= line.final
             /\ EvaluationsTo(rows, line.final) = Plateau(rows, 0)
             /\ line.plateau \in {None, Plateau(rows, 0)}
             /\ (line.toReference # None) = (line.final >= target)
             /\ line.toReference # None => line.equalQuality[1] >= line.equalQuality[2]
<1> DEFINE line == Line(rows, slow, is, Window)
           target == Final(slow)
           needed == EvaluationsTo(rows, target)
<1>1. line.final = Final(rows) /\ line.plateau = Plateau(rows, Window)
  BY DEF Line
<1>2. target \in Nat /\ target # None
  BY FinalIsBest
<1>3. line.toReference = needed
  BY <1>2 DEF Line
<1>4. line.equalQuality = IF is THEN <<1, 1>> ELSE IF needed = None THEN <<None, 1>> ELSE <<Len(slow), needed>>
  BY <1>2 DEF Line, EqualQualitySpeedup
<1>5. line.final \in Feasible(rows) /\ \A v \in Feasible(rows) : v <= line.final
  BY <1>1, FinalIsBest
<1>6. EvaluationsTo(rows, line.final) = Plateau(rows, 0)
  BY <1>1, FinalIsTheLastGain
<1>7. Plateau(rows, Window) \in {None, Plateau(rows, 0)}
  <2> DEFINE late(w) == Gains(rows) = {} \/ Len(rows) - Last(Gains(rows)) < w
  <2>1. EvaluationsTo(rows, Final(rows)) # None
    <3>1. Final(rows) \in Nat /\ Final(rows) >= Final(rows)
      BY FinalIsBest
    <3> QED  BY <3>1, TargetIsReached
  <2>2. Plateau(rows, 0) # None
    BY <2>1, FinalIsTheLastGain
  <2>3. Plateau(rows, 0) = Last(Gains(rows))
    BY <2>2 DEF Plateau
  <2> QED  BY <2>3 DEF Plateau
<1>8. (needed # None) = (Final(rows) >= target)
  <2>1. needed # None <=> Final(rows) >= target
    BY <1>2, TargetIsReached
  <2>2. (Final(rows) >= target) \in BOOLEAN
    BY <1>2, FinalIsBest
  <2> HIDE DEF needed, target
  <2> QED  BY <2>1, <2>2
<1>9. ASSUME needed # None PROVE line.equalQuality[1] >= line.equalQuality[2]
  <2>1. needed \in 1..Len(rows)
    BY <1>2, <1>9, TargetIsReached
  <2>2. Len(slow) >= needed
    BY <2>1
  <2> HIDE DEF line, needed
  <2> QED  BY <1>4, <1>9, <2>2
<1> HIDE DEF needed, target
<1> QED
  BY <1>1, <1>3, <1>5, <1>6, <1>7, <1>8, <1>9 DEF target

\* The scores of a cell say what its ledgers do: the final value is the best
\* feasible one, the evaluations to a target are those it took, and no run that
\* reached the reference's value is said to be slower (ledger.py:73-145).
THEOREM ScoresAreRight == Spec => []ScoresReadTheRuns
<1>1. Init => ScoresAreOfTheReport
  BY DEF Init, ScoresAreOfTheReport
<1>2. ScoresAreOfTheReport /\ [Next]_vars => ScoresAreOfTheReport'
  BY ScoresKeep
<1>3. IInv /\ ScoresAreOfTheReport => ScoresReadTheRuns
  <2> SUFFICES ASSUME IInv, ScoresAreOfTheReport, scores # Nothing, NEW j \in Ledgers
               PROVE  LET rows == file.runs[j]
                          line == scores.lines[j]
                          target == scores.lines[scores.reference].final
                      IN  /\ line.final \in Feasible(rows) /\ \A v \in Feasible(rows) : v <= line.final
                          /\ EvaluationsTo(rows, line.final) = Plateau(rows, 0)
                          /\ line.plateau \in {None, Plateau(rows, 0)}
                          /\ (line.toReference # None) = (line.final >= target)
                          /\ line.toReference # None => line.equalQuality[1] >= line.equalQuality[2]
    BY DEF ScoresReadTheRuns
  <2>1. PICK slow \in Ledgers :
          /\ \A i \in Ledgers : Len(file.runs[slow]) >= Len(file.runs[i])
          /\ scores = [reference |-> slow,
                       lines |-> [i \in Ledgers |-> Line(file.runs[i], file.runs[slow], i = slow, Window)]]
    BY DEF ScoresAreOfTheReport
  <2>2. \A i \in Ledgers : file.runs[i] \in Seq(LedgerRow) /\ file.runs[i] # <<>> /\ ~file.runs[i][1].refused
    <3>1. \A i \in Ledgers : file.runs[i] \in History
      BY DEF IInv, TypeOK, Ledgers
    <3> QED  BY <3>1, CellAssumption DEF LedgerRow
  <2>3. scores.lines[j] = Line(file.runs[j], file.runs[slow], j = slow, Window)
    BY <2>1
  <2>4. scores.lines[scores.reference].final = Final(file.runs[slow])
    BY <2>1 DEF Line
  <2>5. (j = slow) \in BOOLEAN /\ Len(file.runs[slow]) >= Len(file.runs[j])
    BY <2>1
  <2> DEFINE mine == file.runs[j]
             its == file.runs[slow]
             is == j = slow
  <2>6. /\ mine \in Seq(LedgerRow) /\ mine # <<>> /\ ~mine[1].refused
        /\ its \in Seq(LedgerRow) /\ its # <<>> /\ ~its[1].refused
        /\ Len(its) >= Len(mine) /\ is \in BOOLEAN
    BY <2>2, <2>5
  <2> HIDE DEF mine, its, is
  <2>7. LET line == Line(mine, its, is, Window)
            target == Final(its)
        IN  /\ line.final \in Feasible(mine) /\ \A v \in Feasible(mine) : v <= line.final
            /\ EvaluationsTo(mine, line.final) = Plateau(mine, 0)
            /\ line.plateau \in {None, Plateau(mine, 0)}
            /\ (line.toReference # None) = (line.final >= target)
            /\ line.toReference # None => line.equalQuality[1] >= line.equalQuality[2]
    BY <2>6, LineReadsTheRows
  <2>8. scores.lines[j] = Line(mine, its, is, Window) /\ scores.lines[scores.reference].final = Final(its)
        /\ file.runs[j] = mine
    BY <2>3, <2>4 DEF mine, its, is
  <2> QED
    BY ONLY <2>7, <2>8
<1> QED
  BY <1>1, <1>2, <1>3, Invariance, PTL DEF Spec

-----------------------------------------------------------------------------
(***************************************************************************)
(* The space.                                                              *)
(***************************************************************************)

\* Holding every level against the caps on its own drops no design that is
\* within budget: a legal design made of candidate shapes that CACTI
\* characterises is in the space (space.py:35-38, "can never be part of a
\* legal design").
THEOREM NothingLegalIsDropped ==
  ASSUME NEW h \in [Level -> (Nat \ {0}) \X (Nat \ {0})],
         \A l \in Level : h[l] \in CandidateShapes(l) /\ h[l] \notin NoNumbers[l],
         WithinBudget(h)
  PROVE  InSpace(h)
<1>1. ASSUME NEW l \in Level PROVE LevelIsBuildable(l, h[l])
  <2>1. \A k \in Level : Area[k][h[k]] \in Nat /\ Leakage[k][h[k]] \in Nat
    BY SpaceAssumption
  <2>2. AreaBudget # NoCap => Area[l][h[l]] <= AreaBudget
    <3>1. ASSUME AreaBudget # NoCap
          PROVE  Area["L1D"][h["L1D"]] + Area["L2C"][h["L2C"]] + Area["LLC"][h["LLC"]] <= AreaBudget
      BY <3>1 DEF WithinBudget, SiliconMm2
    <3> QED
      BY <2>1, <3>1, SpaceAssumption DEF Level
  <2>3. PowerBudget # NoCap => Leakage[l][h[l]] <= PowerBudget
    <3>1. ASSUME PowerBudget # NoCap
          PROVE  ~(Leakage["L1D"][h["L1D"]] + Leakage["L2C"][h["L2C"]] + Leakage["LLC"][h["LLC"]] > PowerBudget)
      BY <3>1 DEF WithinBudget, OverPower, LeakageW
    <3> QED
      BY <2>1, <3>1, SpaceAssumption DEF Level
  <2> QED
    BY <2>2, <2>3 DEF LevelIsBuildable
<1>2. ASSUME NEW l \in Level
      PROVE  h[l][1] \in UsableSets(l) /\ h[l][2] \in UsableWays(l)
  BY <1>1 DEF UsableSets, UsableWays
<1> QED
  BY <1>2 DEF InSpace

-----------------------------------------------------------------------------
(***************************************************************************)
(* Recording through the node (LedgerNode).  Its file is not the report's, *)
(* so it has a name of its own here.                                       *)
(***************************************************************************)
CONSTANTS Worker, Records
VARIABLES ledgerFile, opened, read, recorded

Node == INSTANCE LedgerNode WITH file <- ledgerFile

\* A row appended to a sequence of rows is its last.
LEMMA AppendedRow ==
  ASSUME NEW S, NEW s \in Seq(S), NEW e \in S
  PROVE  /\ Append(s, e) \in Seq(S) /\ Len(Append(s, e)) = Len(s) + 1 /\ Len(s) \in Nat
         /\ \A i \in DOMAIN Append(s, e) : i \in DOMAIN s \/ i = Len(s) + 1
         /\ \A i \in DOMAIN s : i \in Nat /\ Append(s, e)[i] = s[i]
         /\ Append(s, e)[Len(s) + 1] = e
OBVIOUS

\* An index never runs ahead, whoever records: two rows may share one, none
\* points past its row (ledger.py:49).
LEMMA NodeInvariance == Node!Spec => []Node!NodeInv
<1>1. Node!Init => Node!NodeInv
  BY DEF Node!Init, Node!NodeInv, Node!NeverAhead
<1>2. Node!NodeInv /\ [Node!Next]_(Node!vars) => Node!NodeInv'
  <2> SUFFICES ASSUME Node!NodeInv, [Node!Next]_(Node!vars) PROVE Node!NodeInv'
    OBVIOUS
  <2>1. ASSUME NEW w \in Worker, Node!Open(w) PROVE Node!NodeInv'
    <3>1. Len(ledgerFile) \in Nat
      BY DEF Node!NodeInv
    <3> QED
      BY <2>1, <3>1 DEF Node!NodeInv, Node!NeverAhead, Node!Open
  <2>2. ASSUME NEW w \in Worker, Node!Record(w) PROVE Node!NodeInv'
    <3> DEFINE row == [by |-> w, index |-> read[w]]
    <3>1. row \in [by : Worker, index : Nat] /\ row.index <= Len(ledgerFile) /\ row.index \in Nat
      BY DEF Node!NodeInv
    <3>2. ledgerFile' = Append(ledgerFile, row)
      BY <2>2 DEF Node!Record
    <3> HIDE DEF row
    <3>3. /\ ledgerFile' \in Seq([by : Worker, index : Nat]) /\ Len(ledgerFile') = Len(ledgerFile) + 1
          /\ Len(ledgerFile) \in Nat
          /\ \A i \in DOMAIN ledgerFile' : i \in DOMAIN ledgerFile \/ i = Len(ledgerFile) + 1
          /\ \A i \in DOMAIN ledgerFile : ledgerFile'[i] = ledgerFile[i]
          /\ ledgerFile'[Len(ledgerFile) + 1] = row
      BY <3>1, <3>2, AppendedRow DEF Node!NodeInv
    <3>4. Node!NeverAhead'
      <4>1. row.index < Len(ledgerFile) + 1
        BY ONLY <3>1, <3>3
      <4>2. \A i \in DOMAIN ledgerFile : ledgerFile[i].index < i
        BY DEF Node!NodeInv, Node!NeverAhead
      <4>3. \A i \in DOMAIN ledgerFile' : ledgerFile'[i].index < i
        BY ONLY <3>3, <4>1, <4>2
      <4> QED
        BY <4>3 DEF Node!NeverAhead
    <3>5. \A v \in Worker : read'[v] <= Len(ledgerFile')
      <4>1. read' = read /\ \A v \in Worker : read[v] \in Nat /\ read[v] <= Len(ledgerFile)
        BY <2>2 DEF Node!NodeInv, Node!Record
      <4> QED
        BY ONLY <3>3, <4>1
    <3> QED
      BY <2>2, <3>3, <3>4, <3>5 DEF Node!NodeInv, Node!Record
  <2>3. CASE UNCHANGED Node!vars
    BY <2>3 DEF Node!NodeInv, Node!NeverAhead, Node!vars
  <2> QED
    BY <2>1, <2>2, <2>3 DEF Node!Next, Node!Finished
<1> QED
  BY <1>1, <1>2, PTL DEF Node!Spec

\* No index points past its row, for any number of recorders (ledger.py:49).
THEOREM IndicesAreNeverAhead == Node!Spec => []Node!NeverAhead
<1>1. Node!NodeInv => Node!NeverAhead
  BY DEF Node!NodeInv
<1> QED
  BY <1>1, NodeInvariance, PTL

\* With one recorder the rows are in evaluation order, as ledger.py:30 has it: what
\* the ledger_node run finds takes a second one.
THEOREM OneRecorderKeepsOrder ==
  ASSUME \A v, w \in Worker : v = w PROVE Node!Spec => []Node!IndexIsPosition
<1>1. Node!Init => Node!LoneInv
  BY DEF Node!Init, Node!LoneInv, Node!NodeInv, Node!NeverAhead, Node!IndexIsPosition
<1>2. Node!LoneInv /\ Node!NodeInv' /\ [Node!Next]_(Node!vars) => Node!LoneInv'
  <2> SUFFICES ASSUME Node!LoneInv, Node!NodeInv', [Node!Next]_(Node!vars) PROVE Node!LoneInv'
    OBVIOUS
  <2>1. ASSUME NEW w \in Worker, Node!Open(w) PROVE Node!LoneInv'
    BY <2>1 DEF Node!LoneInv, Node!NodeInv, Node!IndexIsPosition, Node!Open
  <2>2. ASSUME NEW w \in Worker, Node!Record(w) PROVE Node!LoneInv'
    <3> DEFINE row == [by |-> w, index |-> read[w]]
    <3>1. row \in [by : Worker, index : Nat] /\ row.index = Len(ledgerFile)
      BY <2>2 DEF Node!LoneInv, Node!NodeInv, Node!Record
    <3>2. ledgerFile' = Append(ledgerFile, row)
      BY <2>2 DEF Node!Record
    <3> HIDE DEF row
    <3>3. /\ Len(ledgerFile) \in Nat
          /\ \A i \in DOMAIN ledgerFile' : i \in DOMAIN ledgerFile \/ i = Len(ledgerFile) + 1
          /\ \A i \in DOMAIN ledgerFile : i \in Nat /\ ledgerFile'[i] = ledgerFile[i]
          /\ ledgerFile'[Len(ledgerFile) + 1] = row
      BY <3>1, <3>2, AppendedRow DEF Node!LoneInv, Node!NodeInv
    <3>4. Node!IndexIsPosition'
      BY <3>1, <3>3 DEF Node!LoneInv, Node!IndexIsPosition
    <3>5. \A v \in Worker : ~opened'[v]
      BY <2>2 DEF Node!LoneInv, Node!NodeInv, Node!Record
    <3> QED
      BY <3>4, <3>5 DEF Node!LoneInv
  <2>3. CASE UNCHANGED Node!vars
    BY <2>3 DEF Node!LoneInv, Node!IndexIsPosition, Node!vars
  <2> QED
    BY <2>1, <2>2, <2>3 DEF Node!Next, Node!Finished
<1>3. Node!LoneInv => Node!IndexIsPosition
  BY DEF Node!LoneInv
<1> QED
  BY <1>1, <1>2, <1>3, NodeInvariance, PTL DEF Node!Spec
=============================================================================
