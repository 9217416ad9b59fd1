--------------------------- MODULE ResultTableProofs ---------------------------
(***************************************************************************)
(* Proofs about the result table, for any processes, batches, pools, tables *)
(* and deaths: no settled row is undone, what a process was answered is in *)
(* the file, no kill is remembered as a crash, a batch loses only what     *)
(* failed, no crash is forgotten, and each call implements MeasureBatch.   *)
(***************************************************************************)
EXTENDS ResultTableProperties, TLAPS

\* A simulation is named by its process, its design and its stage.
LEMMA Names ==
  /\ \A p \in Process, d \in Design, s \in Stage :
       /\ <<p, d, s>> \in Job
       /\ <<p, d, s>>[1] = p /\ <<p, d, s>>[2] = d /\ <<p, d, s>>[3] = s
  /\ \A j \in Job : j[1] \in Process /\ j[2] \in Design /\ j[3] \in Stage
BY DEF Job

\* A position of a batch names a design.
LEMMA Position ==
  ASSUME TypeOK, NEW p \in Process
  PROVE  /\ at[p] \in 1..Len(Wanted[p]) /\ Len(Wanted[p]) \in Nat /\ DOMAIN Wanted[p] = 1..Len(Wanted[p])
         /\ \A i \in DOMAIN Wanted[p] : Wanted[p][i] \in Design
         /\ 1 \in DOMAIN Wanted[p]
         /\ Wanted[p][at[p]] \in Design /\ MyJob(p) \in Job /\ MyJob(p)[2] = Wanted[p][at[p]]
<1>1. Wanted[p] \in Seq(Design) /\ Wanted[p] # <<>>
  BY TableAssumption
<1>2. /\ Len(Wanted[p]) \in Nat /\ DOMAIN Wanted[p] = 1..Len(Wanted[p]) /\ Len(Wanted[p]) # 0
      /\ \A i \in DOMAIN Wanted[p] : Wanted[p][i] \in Design
  BY <1>1
<1>3. at[p] \in DOMAIN Wanted[p] /\ stage[p] \in Stage
  BY DEF TypeOK
<1> QED
  BY <1>2, <1>3, Names DEF MyJob

\* Where the main thread stands after a failure or an answer.
LEMMA NextOneTypes ==
  ASSUME TypeOK, NEW p \in Process, NextOne(p)
  PROVE  /\ pc' \in [Process -> {"ask", "loaded", "test", "wait", "store", "save", "done"}]
         /\ pc' = [pc EXCEPT ![p] = pc'[p]] /\ pc'[p] \in {"ask", "done"}
         /\ at' \in [Process -> Nat] /\ at' = [at EXCEPT ![p] = at'[p]]
         /\ at'[p] \in DOMAIN Wanted[p]
<1>1. at[p] # Len(Wanted[p]) => at[p] + 1 \in Nat /\ at[p] + 1 \in DOMAIN Wanted[p]
  BY Position
<1>2. at[p] \in DOMAIN Wanted[p] /\ at \in [Process -> Nat]
  BY DEF TypeOK
<1>3. CASE at[p] = Len(Wanted[p])
  BY <1>2, <1>3 DEF TypeOK, NextOne
<1>4. CASE at[p] # Len(Wanted[p])
  BY <1>1, <1>2, <1>4 DEF TypeOK, NextOne
<1> QED  BY <1>3, <1>4

\* A failure moves the call to the retry, to the next design or to its end.
LEMMA FailedTypes ==
  ASSUME TypeOK, NEW p \in Process, Failed(p)
  PROVE  /\ pc' = [pc EXCEPT ![p] = pc'[p]] /\ pc'[p] \in {"ask", "done"}
         /\ at' \in [Process -> Nat] /\ at' = [at EXCEPT ![p] = at'[p]]
         /\ at'[p] \in DOMAIN Wanted[p]
         /\ stage' \in [Process -> Stage] /\ stage' = [stage EXCEPT ![p] = stage'[p]]
         /\ kept' \in [Process -> SUBSET Design] /\ kept' = [kept EXCEPT ![p] = kept'[p]]
         /\ kept'[p] \subseteq kept[p]
         /\ dropped' \in [Process -> SUBSET Design]
         /\ \/ dropped' = dropped
            \/ stage[p] = "retry" /\ dropped' = [dropped EXCEPT ![p] = Dropped(p)]
<1> USE DEF Stage
<1>1. CASE stage[p] = "batch"
  <2>1. 1 \in DOMAIN Wanted[p]
    BY Position
  <2> QED
    BY <1>1, <2>1 DEF TypeOK, Failed
<1>2. CASE stage[p] # "batch"
  <2>1. Wanted[p][at[p]] \in Design
    BY Position
  <2>2. NextOne(p) /\ stage' = stage /\ kept' = kept /\ dropped' = [dropped EXCEPT ![p] = Dropped(p)]
    BY <1>2 DEF Failed
  <2>3. dropped' \in [Process -> SUBSET Design]
    BY <2>1, <2>2 DEF TypeOK, Dropped
  <2> QED
    BY <1>2, <2>2, <2>3, NextOneTypes DEF TypeOK
<1> QED  BY <1>1, <1>2

\* An answer is kept and moves the call on.
LEMMA AnsweredTypes ==
  ASSUME TypeOK, NEW p \in Process, Answered(p)
  PROVE  /\ pc' = [pc EXCEPT ![p] = pc'[p]] /\ pc'[p] \in {"ask", "wait", "done"}
         /\ at' \in [Process -> Nat] /\ at' = [at EXCEPT ![p] = at'[p]]
         /\ at'[p] \in DOMAIN Wanted[p]
         /\ pc'[p] = "wait" => stage[p] = "batch"
         /\ stage' = stage /\ dropped' = dropped
         /\ kept' \in [Process -> SUBSET Design]
         /\ kept' = [kept EXCEPT ![p] = kept[p] \cup {Wanted[p][at[p]]}]
<1>1. /\ Wanted[p][at[p]] \in Design
      /\ at[p] < Len(Wanted[p]) => at[p] + 1 \in Nat /\ at[p] + 1 \in DOMAIN Wanted[p]
      /\ at[p] \in DOMAIN Wanted[p] /\ at \in [Process -> Nat]
  BY Position DEF TypeOK
<1>2. /\ stage' = stage /\ dropped' = dropped
      /\ kept' = [kept EXCEPT ![p] = kept[p] \cup {Wanted[p][at[p]]}]
      /\ kept' \in [Process -> SUBSET Design]
  BY <1>1 DEF TypeOK, Answered
<1>3. CASE stage[p] = "batch" /\ at[p] < Len(Wanted[p])
  BY <1>1, <1>2, <1>3 DEF TypeOK, Answered
<1>4. CASE stage[p] = "batch" /\ ~(at[p] < Len(Wanted[p]))
  BY <1>1, <1>2, <1>4 DEF TypeOK, Answered
<1>5. CASE stage[p] # "batch"
  BY <1>1, <1>2, <1>5, NextOneTypes DEF Answered
<1> QED  BY <1>3, <1>4, <1>5

\* The table is truthful at the start.
LEMMA InvInit == Init => IInv
<1> SUFFICES ASSUME Init PROVE IInv
  OBVIOUS
<1>1. \A p \in Process : 1 \in DOMAIN Wanted[p]
  BY TableAssumption
<1>2. TypeOK
  <2>1. file \in Table /\ NoTable \in Table
    BY DEF Init, Table, Row, NoTable
  <2> QED
    BY <1>1, <2>1, TableAssumption DEF Init, TypeOK, Stage
<1>3. RowsAreTrue
  <2>1. TellsTheTruth(file) /\ TellsTheTruth(NoTable)
    BY DEF Init, TellsTheTruth, NoTable
  <2>2. /\ \A p \in Process : known[p] = file /\ pc[p] = "ask"
        /\ \A w \in Writer : draft[w] = NoTable
        /\ \A j \in Job : job[j] = "none"
    BY DEF Init
  <2> QED
    BY <2>1, <2>2 DEF RowsAreTrue
<1>4. LoadedIsFile /\ CopiedRowsAreOnFile /\ NoJobMeansRow /\ KeptHaveRows
  <2>1. LoadedIsFile
    BY TableAssumption DEF Init, LoadedIsFile, Writer
  <2> QED
    BY <2>1 DEF Init, CopiedRowsAreOnFile, NoJobMeansRow, KeptHaveRows, Waits
<1>5. OnlyFailuresAreDropped
  BY TableAssumption DEF Init, OnlyFailuresAreDropped
<1> QED
  BY <1>2, <1>3, <1>4, <1>5 DEF IInv

-----------------------------------------------------------------------------
(***************************************************************************)
(* The main thread's steps keep the invariant.                             *)
(***************************************************************************)

\* A failed call leaves its answers behind and drops at most one faulty design.
LEMMA FailedKeeps ==
  ASSUME IInv, NEW p \in Process, Failed(p), pc[p] # "save",
         UNCHANGED <<runs, file, lock, draft, known, crashes>>,
         job' \in [Job -> {"none", "queued", "running", "null", "saveNull", "measured", "crashed",
                           "interrupted"}],
         \A j \in Job : job'[j] = job[j] \/ (j[1] = p /\ job'[j] = "queued"),
         stage[p] = "retry" /\ p \in Simulating => Wanted[p][at[p]] \in Faulty \cup Killable
  PROVE  IInv'
<1> USE DEF IInv
<1>1. TypeOK'
  BY FailedTypes DEF TypeOK
<1>2. LoadedIsFile' /\ RowsAreTrue' /\ CopiedRowsAreOnFile'
  <2>1. \A q \in Process : pc'[q] \in {"loaded", "test", "store", "save"} =>
          q # p /\ pc[q] = pc'[q] /\ at'[q] = at[q]
    BY FailedTypes DEF TypeOK
  <2>2. LoadedIsFile'
    <3>1. \A q \in Process : pc'[q] = "save" <=> pc[q] = "save"
      BY FailedTypes DEF TypeOK
    <3> QED
      BY <3>1, Names DEF LoadedIsFile
  <2>3. RowsAreTrue'
    BY <2>1, Names DEF RowsAreTrue, TellsTheTruth, Faulty
  <2>4. CopiedRowsAreOnFile'
    BY <2>1 DEF CopiedRowsAreOnFile
  <2> QED  BY <2>2, <2>3, <2>4
<1>3. NoJobMeansRow'
  <2> SUFFICES ASSUME NEW q \in Process, Waits(q)', NEW i \in Positions(q)',
                      job'[<<q, Wanted[q][i], stage'[q]>>] = "none", Wanted[q][i] \notin Unlucky
               PROVE  file[Wanted[q][i]] = "row"
    BY DEF NoJobMeansRow
  <2>1. q # p /\ pc[q] = pc'[q] /\ at[q] = at'[q] /\ stage[q] = stage'[q]
    BY FailedTypes DEF TypeOK, Waits
  <2>2. Waits(q) /\ i \in Positions(q)
    BY <2>1 DEF Waits, Positions
  <2>3. i \in DOMAIN Wanted[q]
    BY <2>2 DEF Positions, TypeOK
  <2>4. <<q, Wanted[q][i], stage[q]>> \in Job
    BY <2>3, Position, Names DEF TypeOK
  <2> QED
    BY <2>1, <2>2, <2>4 DEF NoJobMeansRow
<1>4. KeptHaveRows'
  BY FailedTypes DEF TypeOK, KeptHaveRows
<1>5. OnlyFailuresAreDropped'
  <2>1. CASE dropped' = dropped
    BY <2>1 DEF OnlyFailuresAreDropped
  <2>2. CASE stage[p] = "retry" /\ dropped' = [dropped EXCEPT ![p] = Dropped(p)]
    BY <2>2 DEF TypeOK, OnlyFailuresAreDropped, Dropped, Faulty
  <2> QED
    BY <2>1, <2>2, FailedTypes
<1> QED  BY <1>1, <1>2, <1>3, <1>4, <1>5

\* An answer whose row is in the file joins the kept ones.
LEMMA AnsweredKeeps ==
  ASSUME IInv, NEW p \in Process, Answered(p), pc[p] \in {"wait", "save"},
         runs' = runs, job' = job, known' = known, crashes' = crashes,
         file' \in Table, lock' \in Writer \cup {NoOne}, draft' \in [Writer -> Table],
         LoadedIsFile',
         \A w \in Writer : draft'[w] = draft[w] \/ (w = p /\ draft'[w] = NoTable),
         \A d \in Design : file'[d] = file[d] \/ (d = Wanted[p][at[p]] /\ d \in runs /\ file'[d] = "row"),
         Wanted[p][at[p]] \notin Unlucky => file'[Wanted[p][at[p]]] = "row"
  PROVE  IInv'
<1> USE DEF IInv
<1>1. TypeOK'
  BY AnsweredTypes DEF TypeOK
<1>0. \A q \in Process : pc'[q] \in {"loaded", "test", "store", "save"} =>
        q # p /\ pc[q] = pc'[q] /\ at'[q] = at[q]
  BY AnsweredTypes DEF TypeOK
<1>2. RowsAreTrue'
  <2>1. TellsTheTruth(file)' /\ \A q \in Process : TellsTheTruth(known[q])'
    BY DEF RowsAreTrue, TellsTheTruth, Faulty
  <2>2. \A w \in Writer : TellsTheTruth(draft[w])'
    <3>1. TellsTheTruth(NoTable)
      BY DEF TellsTheTruth, NoTable
    <3> QED
      BY <3>1 DEF RowsAreTrue, TellsTheTruth, Faulty
  <2> QED
    BY <1>0, <2>1, <2>2 DEF RowsAreTrue, Faulty
<1>6. CopiedRowsAreOnFile'
  <2>1. \A q \in Process \ {p} : draft'[q] = draft[q]
    BY DEF Writer
  <2> QED
    BY <1>0, <2>1 DEF CopiedRowsAreOnFile
<1>3. NoJobMeansRow'
  <2> SUFFICES ASSUME NEW q \in Process, Waits(q)', NEW i \in Positions(q)',
                      job[<<q, Wanted[q][i], stage'[q]>>] = "none", Wanted[q][i] \notin Unlucky
               PROVE  file'[Wanted[q][i]] = "row"
    BY DEF NoJobMeansRow
  <2>1. Waits(q) /\ stage'[q] = stage[q] /\ i \in Positions(q)
    BY AnsweredTypes DEF TypeOK, Positions, Waits
  <2>2. i \in DOMAIN Wanted[q]
    BY <2>1 DEF Positions, TypeOK
  <2>3. file[Wanted[q][i]] = "row" /\ Wanted[q][i] \in Design
    BY <2>1, <2>2, Position DEF NoJobMeansRow
  <2> QED
    BY <2>3
<1>4. KeptHaveRows'
  BY AnsweredTypes DEF TypeOK, KeptHaveRows
<1>5. OnlyFailuresAreDropped'
  BY AnsweredTypes DEF TypeOK, OnlyFailuresAreDropped
<1> QED  BY <1>1, <1>2, <1>3, <1>4, <1>5, <1>6

\* The reload reads the file.
LEMMA LoadTableKeeps == ASSUME IInv, NEW p \in Process, LoadTable(p) PROVE IInv'
<1> USE TableAssumption DEF IInv, LoadTable
<1>0. p \in Writer /\ draft'[p] = file /\ \A w \in Writer \ {p} : draft'[w] = draft[w]
  BY DEF TypeOK, Writer
<1>1. TypeOK'
  BY DEF TypeOK, Writer
<1>2. LoadedIsFile'
  BY <1>0 DEF TypeOK, LoadedIsFile, Writer
<1>3. RowsAreTrue'
  BY <1>0 DEF TypeOK, RowsAreTrue, TellsTheTruth, Faulty
<1>4. CopiedRowsAreOnFile'
  <2> SUFFICES ASSUME NEW q \in Process, NEW d \in Design \ Unlucky
               PROVE  /\ pc'[q] = "loaded" /\ draft'[q][d] = "row" => file[d] = "row"
                      /\ pc'[q] = "test" /\ known[q][d] = "row" => file[d] = "row"
    BY DEF CopiedRowsAreOnFile
  <2>1. CASE q = p
    BY <1>0, <2>1 DEF TypeOK
  <2>2. CASE q # p
    BY <1>0, <2>2 DEF TypeOK, CopiedRowsAreOnFile, Writer
  <2> QED  BY <2>1, <2>2
<1>5. NoJobMeansRow'
  BY DEF TypeOK, NoJobMeansRow, Positions, Waits
<1>6. KeptHaveRows' /\ OnlyFailuresAreDropped'
  BY DEF KeptHaveRows, OnlyFailuresAreDropped
<1> QED  BY <1>1, <1>2, <1>3, <1>4, <1>5, <1>6

\* What was loaded becomes the copy.
LEMMA TakeCopyKeeps == ASSUME IInv, NEW p \in Process, TakeCopy(p) PROVE IInv'
<1> USE TableAssumption DEF IInv, TakeCopy
<1>0. /\ p \in Writer /\ draft'[p] = NoTable /\ \A w \in Writer \ {p} : draft'[w] = draft[w]
      /\ known'[p] = draft[p] /\ \A q \in Process \ {p} : known'[q] = known[q]
      /\ NoTable \in Table
  BY DEF TypeOK, Writer, NoTable, Table, Row
<1>1. TypeOK'
  BY <1>0 DEF TypeOK, Writer
<1>2. LoadedIsFile'
  <2>1. pc' = [pc EXCEPT ![p] = "test"] /\ pc[p] = "loaded"
    OBVIOUS
  <2>2. lock # p
    BY <2>1 DEF LoadedIsFile
  <2> QED
    BY <1>0, <2>1, <2>2 DEF TypeOK, LoadedIsFile
<1>3. RowsAreTrue'
  <2>1. TellsTheTruth(NoTable)
    BY DEF TellsTheTruth, NoTable
  <2> QED
    BY <1>0, <2>1 DEF TypeOK, RowsAreTrue, TellsTheTruth, Faulty
<1>4. CopiedRowsAreOnFile'
  <2> SUFFICES ASSUME NEW q \in Process, NEW d \in Design \ Unlucky
               PROVE  /\ pc'[q] = "loaded" /\ draft'[q][d] = "row" => file[d] = "row"
                      /\ pc'[q] = "test" /\ known'[q][d] = "row" => file[d] = "row"
    BY DEF CopiedRowsAreOnFile
  <2>1. CASE q = p
    BY <1>0, <2>1 DEF TypeOK, CopiedRowsAreOnFile
  <2>2. CASE q # p
    BY <1>0, <2>2 DEF TypeOK, CopiedRowsAreOnFile, Writer
  <2> QED  BY <2>1, <2>2
<1>5. NoJobMeansRow'
  BY DEF TypeOK, NoJobMeansRow, Positions, Waits
<1>6. KeptHaveRows' /\ OnlyFailuresAreDropped'
  BY DEF KeptHaveRows, OnlyFailuresAreDropped
<1> QED  BY <1>1, <1>2, <1>3, <1>4, <1>5, <1>6

\* Asking submits what the copy does not hold.
LEMMA AskKeeps == ASSUME IInv, NEW p \in Process, Ask(p) PROVE IInv'
<1> USE DEF IInv
<1> DEFINE asked == Asked(p)
           NoErrorTo(i) == \A k \in 1..i : ~Refuses(p, asked[k])
           submitted == {<<p, asked[i], stage[p]>> :
                           i \in {k \in DOMAIN asked : NoErrorTo(k) /\ ~Complete(known[p][asked[k]])}}
<1>1. /\ job' = [j \in Job |-> IF j \in submitted THEN "queued" ELSE job[j]]
      /\ pc[p] = "test" /\ UNCHANGED <<runs, file, lock, draft, known, crashes>>
  BY DEF Ask, disk
<1>2. /\ \A j \in Job : job'[j] = job[j] \/ (j[1] = p /\ job'[j] = "queued")
      /\ job' \in [Job -> {"none", "queued", "running", "null", "saveNull", "measured", "crashed",
                           "interrupted"}]
  BY <1>1 DEF TypeOK
<1>3. CASE ~NoErrorTo(Len(asked))
  <2>1. Failed(p)
    BY <1>3 DEF Ask
  <2>2. stage[p] = "retry" /\ p \in Simulating => Wanted[p][at[p]] \in Faulty \cup Killable
    <3> SUFFICES ASSUME stage[p] = "retry", p \in Simulating PROVE known[p][Wanted[p][at[p]]] = "null"
      BY Position DEF RowsAreTrue, TellsTheTruth
    <3>1. asked = <<Wanted[p][at[p]]>>
      BY DEF Asked
    <3> QED
      BY <1>3, <3>1 DEF Refuses
  <2> HIDE DEF submitted, asked, NoErrorTo
  <2> QED
    BY <1>1, <1>2, <2>1, <2>2, FailedKeeps
<1>4. CASE NoErrorTo(Len(asked))
  <2>1. pc' = [pc EXCEPT ![p] = "wait"] /\ UNCHANGED <<stage, at, kept, dropped>>
    BY <1>4 DEF Ask
  <2>2. \A i \in Positions(p) : \E k \in DOMAIN asked :
          asked[k] = Wanted[p][i] /\ NoErrorTo(k)
    <3>1. CASE stage[p] = "batch"
      <4>1. asked = Wanted[p] /\ Positions(p) = 1..Len(Wanted[p]) /\ Len(Wanted[p]) \in Nat
        BY <3>1, Position DEF Asked, Positions
      <4> QED
        BY <1>4, <4>1, Position
    <3>2. CASE stage[p] # "batch"
      <4>1. asked = <<Wanted[p][at[p]]>> /\ Positions(p) = {at[p]}
        BY <3>2 DEF Asked, Positions
      <4> QED
        BY <1>4, <4>1
    <3> QED  BY <3>1, <3>2
  <2> HIDE DEF asked, NoErrorTo
  <2>3. TypeOK' /\ LoadedIsFile'
    BY <1>1, <1>2, <2>1 DEF TypeOK, LoadedIsFile
  <2>4. RowsAreTrue'
    BY <1>1, <1>2, <2>1 DEF TypeOK, RowsAreTrue, TellsTheTruth, Faulty
  <2>7. CopiedRowsAreOnFile'
    BY <1>1, <2>1 DEF TypeOK, CopiedRowsAreOnFile
  <2>5. NoJobMeansRow'
    <3> SUFFICES ASSUME NEW q \in Process, Waits(q)', NEW i \in Positions(q),
                        job'[<<q, Wanted[q][i], stage[q]>>] = "none", Wanted[q][i] \notin Unlucky
                 PROVE  file[Wanted[q][i]] = "row"
      BY <1>1, <2>1 DEF NoJobMeansRow, Positions
    <3>1. i \in DOMAIN Wanted[q] /\ Wanted[q][i] \in Design
      BY Position DEF Positions, TypeOK
    <3>2. <<q, Wanted[q][i], stage[q]>> \in Job
      BY <3>1, Names DEF TypeOK
    <3>3. CASE q = p
      <4>1. PICK k \in DOMAIN asked : asked[k] = Wanted[p][i] /\ NoErrorTo(k)
        BY <2>2, <3>3
      <4>2. <<p, Wanted[p][i], stage[p]>> \notin submitted
        BY <1>1, <3>2, <3>3
      <4>3. known[p][Wanted[p][i]] = "row"
        BY <4>1, <4>2 DEF Complete
      <4> QED
        BY <1>1, <3>1, <3>3, <4>3 DEF CopiedRowsAreOnFile
    <3>4. CASE q # p
      <4>1. Waits(q) /\ job[<<q, Wanted[q][i], stage[q]>>] = "none"
        BY <1>2, <2>1, <3>2, <3>4, Names DEF Waits, TypeOK
      <4> QED
        BY <4>1 DEF NoJobMeansRow
    <3> QED  BY <3>3, <3>4
  <2>6. KeptHaveRows' /\ OnlyFailuresAreDropped'
    BY <1>1, <2>1 DEF KeptHaveRows, OnlyFailuresAreDropped
  <2> QED  BY <2>3, <2>4, <2>5, <2>6, <2>7
<1> QED  BY <1>3, <1>4

\* A row that was complete when it was asked for is still in the file.
LEMMA ReadyKeeps == ASSUME IInv, NEW p \in Process, Ready(p) PROVE IInv'
<1> USE DEF IInv
<1>1. pc[p] = "wait" /\ Answered(p) /\ UNCHANGED <<runs, file, lock, draft, known, job, crashes>>
  BY DEF Ready, disk
<1>2. LoadedIsFile'
  BY <1>1, AnsweredTypes DEF TypeOK, LoadedIsFile
<1>3. Wanted[p][at[p]] \notin Unlucky => file[Wanted[p][at[p]]] = "row"
  BY <1>1, Position DEF TypeOK, NoJobMeansRow, Ready, MyJob, Positions, Waits
<1> QED
  BY <1>1, <1>2, <1>3, AnsweredKeeps DEF TypeOK

\* A measured design is one the simulator can run.
LEMMA RememberKeeps == ASSUME IInv, NEW p \in Process, Remember(p) PROVE IInv'
<1> USE DEF IInv, Remember, disk
<1>1. Wanted[p][at[p]] \in runs /\ Wanted[p][at[p]] \in Design
  BY Position DEF RowsAreTrue
<1>2. TypeOK'
  BY <1>1 DEF TypeOK, Table, Row
<1>0. known'[p] = [known[p] EXCEPT ![Wanted[p][at[p]]] = "row"]
      /\ \A q \in Process \ {p} : known'[q] = known[q]
  BY DEF TypeOK
<1>3. LoadedIsFile'
  BY DEF TypeOK, LoadedIsFile
<1>6. RowsAreTrue'
  <2>1. \A q \in Process : TellsTheTruth(known[q])'
    BY <1>0, <1>1 DEF TypeOK, Table, RowsAreTrue, TellsTheTruth, Faulty
  <2>2. TellsTheTruth(file)' /\ \A w \in Writer : TellsTheTruth(draft[w])'
    BY DEF RowsAreTrue, TellsTheTruth, Faulty
  <2> QED
    BY <1>1, <2>1, <2>2 DEF TypeOK, RowsAreTrue, Faulty
<1>7. CopiedRowsAreOnFile'
  BY <1>0 DEF TypeOK, CopiedRowsAreOnFile
<1>4. NoJobMeansRow'
  BY DEF TypeOK, NoJobMeansRow, Positions, Waits
<1>5. KeptHaveRows' /\ OnlyFailuresAreDropped'
  BY DEF KeptHaveRows, OnlyFailuresAreDropped
<1> QED  BY <1>2, <1>3, <1>4, <1>5, <1>6, <1>7

\* A simulation that failed, failed for a reason.
LEMMA WaitFailsKeeps == ASSUME IInv, NEW p \in Process, WaitFails(p) PROVE IInv'
<1> USE DEF IInv
<1>1. Wanted[p][at[p]] \in Faulty \cup Killable
  BY Position DEF WaitFails, RowsAreTrue
<1> QED
  BY <1>1, FailedKeeps DEF WaitFails, disk, TypeOK

\* The file is loaded under the lock only.
LEMMA LoadForRowKeeps == ASSUME IInv, NEW p \in Process, LoadForRow(p) PROVE IInv'
<1> USE TableAssumption DEF IInv, LoadForRow, Load, TableIsFree
<1>0. p \in Writer /\ draft'[p] = file /\ \A w \in Writer \ {p} : draft'[w] = draft[w]
  BY DEF TypeOK, Writer
<1>1. TypeOK'
  BY DEF TypeOK, Writer
<1>2. LoadedIsFile'
  BY DEF TypeOK, LoadedIsFile, Writer
<1>3. RowsAreTrue'
  BY <1>0 DEF TypeOK, RowsAreTrue, TellsTheTruth, Faulty
<1>5. NoJobMeansRow'
  BY DEF TypeOK, NoJobMeansRow, Positions, Waits
<1>6. CopiedRowsAreOnFile'
  BY <1>0 DEF TypeOK, CopiedRowsAreOnFile, Writer
<1>4. KeptHaveRows' /\ OnlyFailuresAreDropped'
  BY DEF KeptHaveRows, OnlyFailuresAreDropped
<1> QED  BY <1>1, <1>2, <1>3, <1>4, <1>5, <1>6

\* What the holder of the lock saves is the file with its one row changed.
LEMMA SaveChangesOne ==
  ASSUME IInv, NEW w \in Writer, lock = w, NEW d \in Design, NEW row \in Row, Save(w, d, row)
  PROVE  /\ file' = [file EXCEPT ![d] = row] /\ file' \in Table
         /\ lock' = NoOne /\ draft' \in [Writer -> Table]
         /\ draft'[w] = NoTable /\ \A v \in Writer \ {w} : draft'[v] = draft[v]
<1>1. draft[w] = file
  BY TableAssumption DEF IInv, LoadedIsFile
<1> QED
  BY <1>1 DEF IInv, TypeOK, Save, Table, NoTable, Row

\* A result saved under the lock is of a design the simulator can run.
LEMMA SaveRowKeeps == ASSUME IInv, NEW p \in Process, SaveRow(p) PROVE IInv'
<1> USE DEF IInv
<1>1. /\ pc[p] = "save" /\ lock = p /\ p \in Writer /\ Wanted[p][at[p]] \in runs
      /\ Wanted[p][at[p]] \in Design /\ "row" \in Row
  BY Position DEF SaveRow, LoadedIsFile, RowsAreTrue, Writer, Row
<1>2. /\ file' = [file EXCEPT ![Wanted[p][at[p]]] = "row"] /\ file' \in Table
      /\ lock' = NoOne /\ draft' \in [Writer -> Table]
      /\ draft'[p] = NoTable /\ \A w \in Writer \ {p} : draft'[w] = draft[w]
  BY <1>1, SaveChangesOne DEF SaveRow
<1>3. Answered(p) /\ UNCHANGED <<runs, known, job, crashes>>
  BY DEF SaveRow
<1>4. LoadedIsFile'
  <2>1. \A q \in Process : pc'[q] # "save"
    BY <1>1, <1>3, AnsweredTypes DEF LoadedIsFile, TypeOK
  <2>2. \A j \in Job : job[j] # "saveNull"
    BY <1>1, TableAssumption DEF LoadedIsFile
  <2> QED
    BY <1>2, <1>3, <2>1, <2>2, TableAssumption DEF LoadedIsFile, Writer
<1>5. /\ \A d \in Design : file'[d] = file[d] \/ (d = Wanted[p][at[p]] /\ d \in runs /\ file'[d] = "row")
      /\ file'[Wanted[p][at[p]]] = "row"
  BY <1>1, <1>2 DEF TypeOK, Table
<1> QED
  BY <1>1, <1>2, <1>3, <1>4, <1>5, AnsweredKeeps

-----------------------------------------------------------------------------
(***************************************************************************)
(* The pool threads' steps keep the invariant.                             *)
(***************************************************************************)

\* A thread that leaves the file alone ends its simulation truthfully.
LEMMA PoolKeeps ==
  ASSUME IInv, NEW j \in Job, Start(j) \/ Measured(j) \/ Crashed(j) \/ Interrupted(j)
  PROVE  IInv'
<1> USE DEF IInv, Start, Measured, Crashed, Interrupted, Become, NotCached, ToTheFile, NullKnown, disk, call
<1>0. /\ "metrics" \in Simulation(j[2]) => j[2] \in runs
      /\ "error" \in Simulation(j[2]) => j[2] \notin runs
      /\ "interrupted" \in Simulation(j[2]) => j[2] \in Killable
  BY DEF Simulation
<1>1. TypeOK'
  <2>1. j[1] \in Process /\ j[2] \in Design
    BY Names
  <2>2. known' \in [Process -> Table]
    <3>1. \A p \in Process : [known[p] EXCEPT ![j[2]] = "null"] \in Table
      BY DEF TypeOK, Table, Row
    <3> QED
      BY <2>1, <3>1 DEF TypeOK
  <2>3. job' \in [Job -> {"none", "queued", "running", "null", "saveNull", "measured", "crashed",
                          "interrupted"}]
    BY DEF TypeOK
  <2> QED
    BY <2>2, <2>3 DEF TypeOK
<1>2. LoadedIsFile'
  <2>1. \A i \in Job : job'[i] = "saveNull" => job[i] = "saveNull"
    BY DEF TypeOK
  <2> QED
    BY <2>1 DEF LoadedIsFile
<1>5. RowsAreTrue'
  <2>1. UNCHANGED <<runs, file, draft, pc, at>>
    OBVIOUS
  <2>3. ASSUME NEW q \in Process PROVE TellsTheTruth(known[q])'
    <3>1. CASE known' = known
      BY <3>1 DEF RowsAreTrue, TellsTheTruth, Faulty
    <3>2. CASE known' # known
      <4>1. known' = [known EXCEPT ![j[1]][j[2]] = "null"] /\ j[2] \in Faulty
        BY <1>0, <3>2, Names DEF Faulty
      <4>2. known'[q] = known[q] \/ known'[q] = [known[q] EXCEPT ![j[2]] = "null"]
        BY <4>1 DEF TypeOK
      <4>3. known[q] \in Table
        BY DEF TypeOK
      <4> QED
        BY <4>1, <4>2, <4>3 DEF RowsAreTrue, TellsTheTruth, Faulty, Table
    <3> QED  BY <3>1, <3>2
  <2>4. TellsTheTruth(file)' /\ \A w \in Writer : TellsTheTruth(draft[w])'
    BY <2>1 DEF RowsAreTrue, TellsTheTruth, Faulty
  <2>2. ASSUME NEW i \in Job
        PROVE  /\ job'[i] \in {"null", "saveNull", "crashed"} => i[2] \in Faulty
               /\ job'[i] = "interrupted" => i[2] \in Killable
               /\ job'[i] = "measured" => i[2] \in runs
    <3>1. CASE i # j
      BY <3>1 DEF TypeOK, RowsAreTrue
    <3>2. CASE i = j
      <4>1. j[2] \in Design
        BY Names
      <4> QED  BY <1>0, <3>2, <4>1 DEF TypeOK, Faulty
    <3> QED  BY <3>1, <3>2
  <2>5. Faulty' = Faulty
    BY <2>1 DEF Faulty
  <2>6. \A q \in Process : pc'[q] \in {"store", "save"} => Wanted[q][at'[q]] \in runs
    BY <2>1 DEF RowsAreTrue
  <2>7. \A q \in Process : TellsTheTruth(known[q])'
    BY <2>3
  <2>8. runs' = runs
    BY <2>1
  <2> QED
    BY ONLY <2>2, <2>4, <2>5, <2>6, <2>7, <2>8 DEF RowsAreTrue
<1>6. CopiedRowsAreOnFile'
  <2>1. \A q \in Process, d \in Design : known'[q][d] = "row" => known[q][d] = "row"
    <3>1. CASE known' = known
      BY ONLY <3>1
    <3>2. CASE known' = NullKnown(j)
      BY ONLY <3>2, IInv, Names DEF NullKnown, IInv, TypeOK, Table
    <3> QED  BY <3>1, <3>2
  <2> QED
    BY <2>1 DEF CopiedRowsAreOnFile
<1>3. NoJobMeansRow'
  <2>1. \A i \in Job : job'[i] = "none" => job[i] = "none"
    BY DEF TypeOK
  <2> SUFFICES ASSUME NEW q \in Process, Waits(q), NEW i \in Positions(q),
                      job'[<<q, Wanted[q][i], stage[q]>>] = "none", Wanted[q][i] \notin Unlucky
               PROVE  file[Wanted[q][i]] = "row"
    BY DEF NoJobMeansRow, Positions, Waits
  <2>2. i \in DOMAIN Wanted[q]
    BY DEF Positions, TypeOK
  <2>3. <<q, Wanted[q][i], stage[q]>> \in Job
    BY <2>2, Position, Names DEF TypeOK
  <2> QED
    BY <2>1, <2>3 DEF NoJobMeansRow
<1>4. KeptHaveRows' /\ OnlyFailuresAreDropped'
  BY DEF KeptHaveRows, OnlyFailuresAreDropped
<1> QED  BY <1>1, <1>2, <1>3, <1>4, <1>5, <1>6

\* The thread of a failed simulation takes the lock like anybody.
LEMMA LoadForNullKeeps == ASSUME IInv, NEW j \in Job, LoadForNull(j) PROVE IInv'
<1> USE TableAssumption DEF IInv, LoadForNull, Load, TableIsFree, Become, call
<1>0. j \in Writer /\ draft'[j] = file /\ \A w \in Writer \ {j} : draft'[w] = draft[w]
  BY DEF TypeOK, Writer
<1>1. TypeOK'
  BY DEF TypeOK, Writer
<1>2. LoadedIsFile'
  BY DEF TypeOK, LoadedIsFile, Writer
<1>3. RowsAreTrue'
  BY <1>0 DEF TypeOK, RowsAreTrue, TellsTheTruth, Faulty
<1>6. CopiedRowsAreOnFile'
  BY <1>0 DEF TypeOK, CopiedRowsAreOnFile, Writer
<1>4. NoJobMeansRow'
  <2>1. \A i \in Job : job'[i] = "none" => job[i] = "none"
    BY DEF TypeOK
  <2> SUFFICES ASSUME NEW q \in Process, Waits(q), NEW i \in Positions(q),
                      job'[<<q, Wanted[q][i], stage[q]>>] = "none", Wanted[q][i] \notin Unlucky
               PROVE  file[Wanted[q][i]] = "row"
    BY DEF NoJobMeansRow, Positions, Waits
  <2>2. i \in DOMAIN Wanted[q]
    BY DEF Positions, TypeOK
  <2>3. <<q, Wanted[q][i], stage[q]>> \in Job
    BY <2>2, Position, Names DEF TypeOK
  <2> QED
    BY <2>1, <2>3 DEF NoJobMeansRow
<1>5. KeptHaveRows' /\ OnlyFailuresAreDropped'
  BY DEF KeptHaveRows, OnlyFailuresAreDropped
<1> QED  BY <1>1, <1>2, <1>3, <1>4, <1>5, <1>6

\* A null row replaces no row of a design that can only be measured.
LEMMA SaveNullKeeps == ASSUME IInv, NEW j \in Job, SaveNull(j) PROVE IInv'
<1> USE DEF IInv
<1>1. /\ job[j] = "saveNull" /\ lock = j /\ j \in Writer /\ j[2] \in Faulty /\ j[2] \in Design
      /\ "null" \in Row
  BY Names DEF SaveNull, LoadedIsFile, RowsAreTrue, Writer, Row
<1>2. /\ file' = [file EXCEPT ![j[2]] = "null"] /\ file' \in Table
      /\ lock' = NoOne /\ draft' \in [Writer -> Table]
      /\ draft'[j] = NoTable /\ \A w \in Writer \ {j} : draft'[w] = draft[w]
  BY <1>1, SaveChangesOne DEF SaveNull
<1>3. /\ job' = [job EXCEPT ![j] = "crashed"]
      /\ UNCHANGED <<runs, known, pc, stage, at, kept, dropped, crashes>>
  BY DEF SaveNull, Become, call
<1>4. TypeOK'
  BY <1>2, <1>3 DEF TypeOK
<1>5. LoadedIsFile'
  <2>1. \A q \in Process : q # j /\ q # NoOne
    BY TableAssumption DEF Writer
  <2>2. \A q \in Process : pc'[q] # "save" /\ lock' # q
    BY <1>1, <1>2, <1>3, <2>1 DEF LoadedIsFile
  <2>3. \A i \in Job : job'[i] # "saveNull"
    BY <1>1, <1>3 DEF TypeOK, LoadedIsFile
  <2> QED
    BY <1>2, <2>2, <2>3 DEF LoadedIsFile
<1>6. RowsAreTrue'
  <2>1. TellsTheTruth(file)'
    BY <1>1, <1>2, <1>3 DEF TypeOK, RowsAreTrue, TellsTheTruth, Faulty, Table
  <2>2. TellsTheTruth(NoTable)
    BY DEF TellsTheTruth, NoTable
  <2>3. \A w \in Writer : TellsTheTruth(draft[w])'
    BY <1>2, <1>3, <2>2 DEF RowsAreTrue, TellsTheTruth, Faulty
  <2>4. \A q \in Process : TellsTheTruth(known[q])'
    BY <1>3 DEF RowsAreTrue, TellsTheTruth, Faulty
  <2> QED
    BY <1>1, <1>3, <2>1, <2>3, <2>4 DEF TypeOK, RowsAreTrue, Faulty
<1>7. \A d \in Design \ Unlucky : file[d] = "row" => file'[d] = "row"
  BY <1>1, <1>2 DEF TypeOK, RowsAreTrue, TellsTheTruth, Faulty, Table
<1>10. CopiedRowsAreOnFile'
  <2>1. \A q \in Process : draft'[q] = draft[q]
    BY <1>2, TableAssumption DEF Writer
  <2> QED
    BY <1>3, <1>7, <2>1 DEF CopiedRowsAreOnFile
<1>8. NoJobMeansRow'
  <2> SUFFICES ASSUME NEW q \in Process, Waits(q), NEW i \in Positions(q),
                      job'[<<q, Wanted[q][i], stage[q]>>] = "none", Wanted[q][i] \notin Unlucky
               PROVE  file'[Wanted[q][i]] = "row"
    BY <1>3 DEF NoJobMeansRow, Positions, Waits
  <2>1. i \in DOMAIN Wanted[q] /\ Wanted[q][i] \in Design
    BY Position DEF Positions, TypeOK
  <2>2. <<q, Wanted[q][i], stage[q]>> \in Job
    BY <2>1, Names DEF TypeOK
  <2> QED
    BY <1>3, <1>7, <2>1, <2>2 DEF NoJobMeansRow, TypeOK
<1>9. KeptHaveRows' /\ OnlyFailuresAreDropped'
  BY <1>3, <1>7 DEF TypeOK, KeptHaveRows, OnlyFailuresAreDropped
<1> QED  BY <1>4, <1>5, <1>6, <1>8, <1>9, <1>10

\* A death loses only what was not saved.
LEMMA CrashKeeps == ASSUME IInv, NEW p \in Process, Crash(p) PROVE IInv'
<1> USE DEF IInv, Crash
<1>1. \A q \in Process : 1 \in DOMAIN Wanted[q]
  BY Position
<1>2. TypeOK'
  BY <1>1, TableAssumption DEF TypeOK, Writer, Stage, NoTable, Table, Row
<1>3. LoadedIsFile'
  BY TableAssumption, Names DEF TypeOK, LoadedIsFile, Mine, Writer
<1>4. RowsAreTrue'
  <2>1. TellsTheTruth(NoTable)
    BY DEF TellsTheTruth, NoTable
  <2>2. \A w \in Writer : draft'[w] = NoTable \/ draft'[w] = draft[w]
    OBVIOUS
  <2>3. \A q \in Process : known'[q] = file \/ known'[q] = known[q]
    BY DEF TypeOK
  <2>4. \A j \in Job : job'[j] = "none" \/ job'[j] = job[j]
    OBVIOUS
  <2>5. \A q \in Process : pc'[q] \in {"store", "save"} => pc[q] = pc'[q] /\ at'[q] = at[q]
    BY DEF TypeOK
  <2>6. runs' = runs /\ file' = file
    OBVIOUS
  <2> QED
    BY <2>1, <2>2, <2>3, <2>4, <2>5, <2>6 DEF RowsAreTrue, TellsTheTruth, Faulty
<1>7. CopiedRowsAreOnFile'
  <2>1. \A q \in Process : pc'[q] \in {"loaded", "test"} =>
          /\ pc[q] = pc'[q] /\ known'[q] = known[q]
          /\ draft'[q] = draft[q]
    <3> SUFFICES ASSUME NEW q \in Process, pc'[q] \in {"loaded", "test"}
                 PROVE  pc[q] = pc'[q] /\ known'[q] = known[q] /\ draft'[q] = draft[q]
      OBVIOUS
    <3>1. q # p /\ pc[q] = pc'[q] /\ known'[q] = known[q]
      BY DEF TypeOK
    <3>2. q \in Writer /\ ~Mine(p, q)
      BY <3>1, TableAssumption DEF Mine, Writer
    <3> QED
      BY <3>1, <3>2
  <2>2. file' = file /\ CopiedRowsAreOnFile
    OBVIOUS
  <2> QED
    BY ONLY <2>1, <2>2 DEF CopiedRowsAreOnFile
<1>5. NoJobMeansRow'
  <2> SUFFICES ASSUME NEW q \in Process, Waits(q)', NEW i \in Positions(q)',
                      job'[<<q, Wanted[q][i], stage'[q]>>] = "none", Wanted[q][i] \notin Unlucky
               PROVE  file[Wanted[q][i]] = "row"
    BY DEF NoJobMeansRow
  <2>1. q # p /\ Waits(q) /\ stage[q] = stage'[q] /\ i \in Positions(q)
    BY DEF TypeOK, Positions, Waits
  <2>2. i \in DOMAIN Wanted[q]
    BY <2>1 DEF Positions, TypeOK
  <2>3. <<q, Wanted[q][i], stage[q]>> \in Job /\ <<q, Wanted[q][i], stage[q]>>[1] = q
    BY <2>2, Position, Names DEF TypeOK
  <2> QED
    BY <2>1, <2>3 DEF NoJobMeansRow
<1>6. KeptHaveRows' /\ OnlyFailuresAreDropped'
  BY DEF TypeOK, KeptHaveRows, OnlyFailuresAreDropped
<1> QED  BY <1>2, <1>3, <1>4, <1>5, <1>6, <1>7

-----------------------------------------------------------------------------
\* One step of anybody keeps the invariant (suite.py:157-212).
LEMMA StepKeeps == IInv /\ [Next]_vars => IInv'
<1> SUFFICES ASSUME IInv, [Next]_vars PROVE IInv'
  OBVIOUS
<1>1. CASE UNCHANGED vars \/ Finished
  <2>1. UNCHANGED <<runs, file, lock, draft, known, job, pc, stage, at, kept, dropped, crashes>>
    BY <1>1 DEF Finished, vars
  <2> USE DEF IInv
  <2>2. TypeOK' /\ LoadedIsFile'
    BY <2>1 DEF TypeOK, LoadedIsFile
  <2>3. RowsAreTrue' /\ CopiedRowsAreOnFile'
    BY <2>1 DEF RowsAreTrue, TellsTheTruth, Faulty, CopiedRowsAreOnFile
  <2>4. NoJobMeansRow'
    BY <2>1 DEF NoJobMeansRow, Positions, Waits
  <2>5. KeptHaveRows' /\ OnlyFailuresAreDropped'
    BY <2>1 DEF KeptHaveRows, OnlyFailuresAreDropped
  <2> QED  BY <2>2, <2>3, <2>4, <2>5
<1>2. ASSUME NEW p \in Process, MainStep(p) \/ Crash(p) PROVE IInv'
  BY <1>2, LoadTableKeeps, TakeCopyKeeps, AskKeeps, ReadyKeeps, RememberKeeps, WaitFailsKeeps, LoadForRowKeeps, SaveRowKeeps,
     CrashKeeps DEF MainStep
<1>3. ASSUME NEW j \in Job, PoolStep(j) PROVE IInv'
  BY <1>3, PoolKeeps, LoadForNullKeeps, SaveNullKeeps DEF PoolStep
<1> QED
  BY <1>1, <1>2, <1>3 DEF Next

\* The inductive invariant holds whatever the interleaving, the failures and the
\* deaths.
THEOREM Invariance == Spec => []IInv
BY InvInit, StepKeeps, PTL DEF Spec

\* A failure costs a batch nothing but the design that failed (search.py:192-195).
THEOREM LossesAreFailures == Spec => []OnlyFailuresAreDropped
BY Invariance, PTL DEF IInv

\* A kill from outside is never remembered as a crash, by the table or by a copy
\* (suite.py:208-211).
THEOREM KillsAreForgiven == Spec => []KillsAreNotBlamed
<1>1. IInv => KillsAreNotBlamed
  BY DEF IInv, RowsAreTrue, TellsTheTruth, Faulty, KillsAreNotBlamed, Blamed
<1> QED  BY <1>1, Invariance, PTL

\* An answer given is in the file (suite.py:180-196), for every design no attempt
\* at which fails for a reason of its own.
THEOREM AnswersAreKept == Spec => []AnswersAreStored
<1>1. IInv => AnswersAreStored
  BY DEF IInv, KeptHaveRows, AnswersAreStored
<1> QED  BY <1>1, Invariance, PTL

\* The file changes by a writer's save only.
LEMMA WhoWrites ==
  ASSUME [Next]_vars
  PROVE  file' = file \/ (\E p \in Process : SaveRow(p)) \/ (\E j \in Job : SaveNull(j))
BY DEF Next, MainStep, PoolStep, LoadTable, TakeCopy, Ask, Ready, Remember, WaitFails, LoadForRow, Load, Crash,
     Start, Measured, Crashed, Interrupted, Simulation, LoadForNull, Finished, vars, disk

\* No writer undoes a settled row (suite.py:187-196), for every design no attempt
\* at which fails for a reason of its own.
THEOREM NothingIsUndone == Spec => SettledForGood
<1> DEFINE Kept == \A d \in Design \ Unlucky : Settled(file[d]) => file'[d] = file[d]
<1>1. ASSUME IInv, [Next]_vars PROVE Kept
  <2>1. CASE file' = file
    BY <2>1
  <2>2. ASSUME NEW p \in Process, SaveRow(p) PROVE Kept
    <3>1. /\ lock = p /\ p \in Writer /\ Wanted[p][at[p]] \in Design /\ Wanted[p][at[p]] \in runs
          /\ "row" \in Row
      BY <1>1, <2>2, Position DEF SaveRow, IInv, LoadedIsFile, RowsAreTrue, Writer, Row
    <3>2. file' = [file EXCEPT ![Wanted[p][at[p]]] = "row"]
      BY <1>1, <2>2, <3>1, SaveChangesOne DEF SaveRow
    <3> QED
      BY <1>1, <3>1, <3>2 DEF IInv, TypeOK, Table, RowsAreTrue, TellsTheTruth, Faulty, Settled
  <2>3. ASSUME NEW j \in Job, SaveNull(j) PROVE Kept
    <3>1. /\ lock = j /\ j \in Writer /\ j[2] \in Design /\ j[2] \in Faulty /\ "null" \in Row
      BY <1>1, <2>3, Names DEF SaveNull, IInv, LoadedIsFile, RowsAreTrue, Writer, Row
    <3>2. file' = [file EXCEPT ![j[2]] = "null"]
      BY <1>1, <2>3, <3>1, SaveChangesOne DEF SaveNull
    <3> QED
      BY <1>1, <3>1, <3>2 DEF IInv, TypeOK, Table, RowsAreTrue, TellsTheTruth, Faulty, Settled
  <2> QED
    BY <1>1, <2>1, <2>2, <2>3, WhoWrites
<1> HIDE DEF Kept
<1>2. IInv /\ [Next]_vars => [Kept]_vars
  BY <1>1
<1>3. Spec => [][Kept]_vars
  BY <1>2, Invariance, PTL DEF Spec
<1> QED
  BY <1>3 DEF SettledForGood, Kept
-----------------------------------------------------------------------------
(***************************************************************************)
(* A simulation is submitted once.                                         *)
(***************************************************************************)

\* A step that moves no call on submits nothing again.
LEMMA OnceStays ==
  ASSUME NEW q \in Process, SubmittedOnce(q), at'[q] = at[q], stage'[q] = stage[q],
         Asking(q)' => Asking(q), pc'[q] # "done" => pc[q] # "done",
         TypeOK, \A j \in Job : job[j] = "none" /\ j[1] = q => job'[j] = "none"
  PROVE  SubmittedOnce(q)'
<1> SUFFICES ASSUME NEW i \in DOMAIN Wanted[q]
             PROVE  /\ stage'[q] = "batch" /\ Asking(q)' => job'[<<q, Wanted[q][i], "batch">>] = "none"
                    /\ stage'[q] = "batch" \/ (pc'[q] # "done" /\ i > at'[q]) \/ (Asking(q)' /\ i = at'[q])
                         => job'[<<q, Wanted[q][i], "retry">>] = "none"
  BY DEF SubmittedOnce
<1>1. /\ <<q, Wanted[q][i], "batch">> \in Job /\ <<q, Wanted[q][i], "batch">>[1] = q
      /\ <<q, Wanted[q][i], "retry">> \in Job /\ <<q, Wanted[q][i], "retry">>[1] = q
  BY Position, Names DEF Stage
<1> QED
  BY <1>1 DEF SubmittedOnce

\* The next design of the retry was not submitted before.
LEMMA OnceNext ==
  ASSUME TypeOK, NEW p \in Process, SubmittedOnce(p), pc[p] # "done", NextOne(p),
         stage[p] = "retry", stage'[p] = "retry",
         \A i \in DOMAIN Wanted[p] : i > at[p] /\ job[<<p, Wanted[p][i], "retry">>] = "none"
           => job'[<<p, Wanted[p][i], "retry">>] = "none"
  PROVE  SubmittedOnce(p)'
<1>1. CASE at[p] = Len(Wanted[p])
  <2>1. pc'[p] = "done"
    BY <1>1 DEF NextOne, TypeOK
  <2> QED
    BY <2>1 DEF SubmittedOnce, Asking
<1>2. CASE at[p] # Len(Wanted[p])
  <2>1. at'[p] = at[p] + 1
    BY <1>2 DEF NextOne, TypeOK
  <2>2. \A i \in DOMAIN Wanted[p] : i > at'[p] \/ i = at'[p] => i > at[p]
    BY <2>1, Position
  <2> QED
    BY <2>2 DEF SubmittedOnce
<1> QED  BY <1>1, <1>2

\* A failure starts a retry of which nothing was submitted, or goes on with it.
LEMMA OnceFailed ==
  ASSUME TypeOK, NEW p \in Process, SubmittedOnce(p), pc[p] # "done", Failed(p),
         \A i \in DOMAIN Wanted[p] :
           (stage[p] = "batch" \/ i > at[p]) /\ job[<<p, Wanted[p][i], "retry">>] = "none"
             => job'[<<p, Wanted[p][i], "retry">>] = "none"
  PROVE  SubmittedOnce(p)'
<1>1. CASE stage[p] = "batch"
  <2>1. stage'[p] = "retry"
    BY <1>1 DEF Failed, TypeOK
  <2> QED
    BY <1>1, <2>1 DEF SubmittedOnce
<1>2. CASE stage[p] # "batch"
  <2>1. NextOne(p) /\ stage'[p] = "retry" /\ stage[p] = "retry"
    BY <1>2 DEF Failed, TypeOK, Stage
  <2> QED
    BY <2>1, OnceNext
<1> QED  BY <1>1, <1>2

\* An answer submits nothing.
LEMMA OnceAnswered ==
  ASSUME TypeOK, NEW p \in Process, SubmittedOnce(p), pc[p] # "done", Answered(p), job' = job
  PROVE  SubmittedOnce(p)'
<1>1. CASE stage[p] = "batch"
  <2>1. stage'[p] = "batch" /\ pc'[p] \in {"wait", "done"}
    BY <1>1 DEF Answered, TypeOK
  <2> QED
    BY <1>1, <2>1 DEF SubmittedOnce, Asking
<1>2. CASE stage[p] # "batch"
  <2>1. NextOne(p) /\ stage'[p] = "retry" /\ stage[p] = "retry"
    BY <1>2 DEF Answered, TypeOK, Stage
  <2> QED
    BY <2>1, OnceNext
<1> QED  BY <1>1, <1>2

\* What is submitted was not submitted before.
LEMMA AskOnce ==
  ASSUME IInv, JobsAreNew, NEW p \in Process, Ask(p)
  PROVE  /\ \A j \in Job : job'[j] = job[j] \/ (job[j] = "none" /\ job'[j] = "queued" /\ j[1] = p)
         /\ SubmittedOnce(p)'
<1> USE DEF IInv
<1> DEFINE asked == Asked(p)
           NoErrorTo(i) == \A k \in 1..i : ~Refuses(p, asked[k])
           submitted == {<<p, asked[i], stage[p]>> :
                           i \in {k \in DOMAIN asked : NoErrorTo(k) /\ ~Complete(known[p][asked[k]])}}
<1>1. /\ job' = [j \in Job |-> IF j \in submitted THEN "queued" ELSE job[j]]
      /\ pc[p] = "test" /\ SubmittedOnce(p)
  BY DEF Ask, JobsAreNew
<1>2. \A j \in submitted : \E i \in DOMAIN Wanted[p] :
        j = <<p, Wanted[p][i], stage[p]>> /\ (stage[p] = "batch" \/ i = at[p])
  <2>1. CASE stage[p] = "batch"
    BY <2>1 DEF Asked
  <2>2. CASE stage[p] # "batch"
    <3>1. asked = <<Wanted[p][at[p]]>> /\ at[p] \in DOMAIN Wanted[p]
      BY <2>2 DEF Asked, TypeOK
    <3> QED
      BY <2>2, <3>1
  <2> QED  BY <2>1, <2>2
<1>3. \A j \in submitted : job[j] = "none" /\ j[1] = p
  <2> SUFFICES ASSUME NEW i \in DOMAIN Wanted[p], stage[p] = "batch" \/ i = at[p]
               PROVE  job[<<p, Wanted[p][i], stage[p]>>] = "none"
    BY <1>2
  <2>1. stage[p] = "batch" \/ stage[p] = "retry"
    BY DEF TypeOK, Stage
  <2> QED
    BY <1>1, <2>1 DEF SubmittedOnce, Asking
<1>4. \A i \in DOMAIN Wanted[p] : stage[p] = "batch" \/ i > at[p] =>
        job'[<<p, Wanted[p][i], "retry">>] = job[<<p, Wanted[p][i], "retry">>]
  <2> SUFFICES ASSUME NEW i \in DOMAIN Wanted[p], stage[p] = "batch" \/ i > at[p]
               PROVE  <<p, Wanted[p][i], "retry">> \notin submitted
    BY <1>1, Position, Names DEF Stage
  <2>1. CASE stage[p] = "batch"
    BY <1>2, <2>1
  <2>2. CASE i > at[p]
    <3>1. Wanted[p][i] # Wanted[p][at[p]]
      <4>1. i # at[p] /\ at[p] \in DOMAIN Wanted[p]
        BY <2>2, Position
      <4> QED
        BY <4>1, TableAssumption
    <3>2. ASSUME <<p, Wanted[p][i], "retry">> \in submitted PROVE FALSE
      <4>1. PICK k \in DOMAIN Wanted[p] : <<p, Wanted[p][i], "retry">> = <<p, Wanted[p][k], stage[p]>>
                                          /\ (stage[p] = "batch" \/ k = at[p])
        BY <1>2, <3>2
      <4>2. stage[p] = "retry" /\ Wanted[p][k] = Wanted[p][i]
        BY <4>1
      <4>3. k = at[p]
        BY <4>1, <4>2
      <4> QED
        BY <3>1, <4>2, <4>3
    <3> QED  BY <3>2
  <2> QED  BY <2>1, <2>2
<1>5. CASE ~NoErrorTo(Len(asked))
  <2>1. Failed(p)
    BY <1>5 DEF Ask
  <2> HIDE DEF asked, NoErrorTo, submitted
  <2>2. SubmittedOnce(p)'
    BY <1>1, <1>4, <2>1, OnceFailed
  <2> QED  BY <1>1, <1>3, <2>2
<1>6. CASE NoErrorTo(Len(asked))
  <2>1. pc' = [pc EXCEPT ![p] = "wait"] /\ stage' = stage /\ at' = at
    BY <1>6 DEF Ask
  <2> HIDE DEF asked, NoErrorTo, submitted
  <2>2. pc'[p] = "wait" /\ ~Asking(p)'
    BY <2>1 DEF TypeOK, Asking
  <2>3. SubmittedOnce(p)'
    BY <1>1, <1>4, <2>1, <2>2 DEF SubmittedOnce
  <2> QED  BY <1>1, <1>3, <2>3
<1> QED  BY <1>5, <1>6

\* What a step of one call leaves to the others.
Others(p) ==
  \A q \in Process \ {p} :
    pc'[q] = pc[q] /\ at'[q] = at[q] /\ stage'[q] = stage[q] /\ kept'[q] = kept[q] /\ dropped'[q] = dropped[q]

\* A call's step is its own.
LEMMA OthersStay ==
  ASSUME IInv, NEW p \in Process, MainStep(p) \/ Crash(p)
  PROVE  Others(p)
<1> USE DEF IInv
<1>1. Failed(p) => Others(p)
  <2>1. Failed(p) => \A q \in Process \ {p} : dropped'[q] = dropped[q]
    BY FailedTypes DEF TypeOK
  <2> QED
    BY <2>1, FailedTypes DEF TypeOK, Others
<1>2. Answered(p) => Others(p)
  BY AnsweredTypes DEF TypeOK, Others
<1>3. CASE LoadTable(p) \/ TakeCopy(p) \/ Remember(p) \/ LoadForRow(p) \/ Crash(p)
  BY <1>3 DEF LoadTable, TakeCopy, Remember, LoadForRow, Crash, TypeOK, Others
<1>4. CASE Ask(p)
  <2>1. Failed(p) \/ (pc' = [pc EXCEPT ![p] = "wait"] /\ UNCHANGED <<stage, at, kept, dropped>>)
    BY <1>4 DEF Ask
  <2> QED
    BY <1>1, <2>1 DEF TypeOK, Others
<1>5. CASE Ready(p) \/ SaveRow(p) \/ WaitFails(p)
  BY <1>1, <1>2, <1>5 DEF Ready, SaveRow, WaitFails
<1> QED
  BY <1>3, <1>4, <1>5 DEF MainStep

\* Every step submits new simulations only.
LEMMA OnceKeeps == ASSUME IInv, JobsAreNew, [Next]_vars PROVE JobsAreNew'
<1> USE DEF IInv
<1> SUFFICES ASSUME NEW q \in Process PROVE SubmittedOnce(q)'
  BY DEF JobsAreNew
<1>0. SubmittedOnce(q)
  BY DEF JobsAreNew
<1>1. CASE UNCHANGED vars \/ Finished
  BY <1>0, <1>1 DEF Finished, vars, SubmittedOnce, Asking
<1>2. ASSUME NEW p \in Process, MainStep(p) \/ Crash(p), p # q PROVE SubmittedOnce(q)'
  <2>1. \A j \in Job : job[j] = "none" /\ j[1] = q => job'[j] = "none"
    <3>1. CASE Ask(p)
      BY <1>2, <3>1, AskOnce
    <3>2. CASE ~Ask(p)
      BY <1>2, <3>2 DEF MainStep, LoadTable, TakeCopy, Ready, Remember, WaitFails, LoadForRow, SaveRow, Crash
    <3> QED  BY <3>1, <3>2
  <2>2. pc'[q] = pc[q] /\ at'[q] = at[q] /\ stage'[q] = stage[q]
    BY <1>2, OthersStay DEF Others
  <2>3. Asking(q)' <=> Asking(q)
    BY <2>2 DEF Asking
  <2> QED
    BY <1>0, <2>1, <2>2, <2>3, OnceStays
<1>3. ASSUME MainStep(q) PROVE SubmittedOnce(q)'
  <2>1. CASE LoadTable(q) \/ TakeCopy(q) \/ Remember(q) \/ LoadForRow(q)
    <3>1. at' = at /\ stage' = stage /\ job' = job /\ (Asking(q)' => Asking(q)) /\ pc[q] # "done"
      BY <2>1 DEF LoadTable, TakeCopy, Remember, LoadForRow, Asking, TypeOK
    <3> QED
      BY <1>0, <3>1, OnceStays
  <2>2. CASE Ask(q)
    BY <2>2, AskOnce
  <2>3. CASE Ready(q) \/ SaveRow(q)
    BY <1>0, <2>3, OnceAnswered DEF Ready, SaveRow
  <2>4. CASE WaitFails(q)
    BY <1>0, <2>4, OnceFailed DEF WaitFails
  <2> QED
    BY <1>3, <2>1, <2>2, <2>3, <2>4 DEF MainStep
<1>4. ASSUME Crash(q) PROVE SubmittedOnce(q)'
  <2>1. \A d \in Design, s \in Stage : job'[<<q, d, s>>] = "none"
    BY <1>4, Names DEF Crash
  <2>2. \A i \in DOMAIN Wanted[q] : Wanted[q][i] \in Design
    BY Position
  <2> QED
    BY <2>1, <2>2 DEF SubmittedOnce, Stage
<1>5. ASSUME NEW j \in Job, PoolStep(j) PROVE SubmittedOnce(q)'
  <2>1. at' = at /\ stage' = stage /\ pc' = pc /\ \A i \in Job : job[i] = "none" => job'[i] = "none"
    BY <1>5 DEF PoolStep, Start, Measured, Crashed, Interrupted, LoadForNull, SaveNull, Become, call, TypeOK
  <2>2. Asking(q)' <=> Asking(q)
    BY <2>1 DEF Asking
  <2> QED
    BY <1>0, <2>1, <2>2, OnceStays
<1> QED
  BY <1>1, <1>2, <1>3, <1>4, <1>5 DEF Next

-----------------------------------------------------------------------------
(***************************************************************************)
(* A crash is not forgotten.                                               *)
(***************************************************************************)

\* The null row of a design that cannot run stays.
LEMMA NullsStay ==
  ASSUME IInv, [Next]_vars
  PROVE  /\ runs' = runs
         /\ \A d \in Design \ runs : file[d] = "null" => file'[d] = "null"
<1>1. runs' = runs
  BY DEF Next, MainStep, PoolStep, LoadTable, TakeCopy, Ask, Ready, Remember, WaitFails, LoadForRow,
       SaveRow, Crash, Start, Measured, Crashed, Interrupted, Simulation, LoadForNull, SaveNull,
       Finished, vars
<1>2. ASSUME NEW p \in Process, SaveRow(p), NEW d \in Design \ runs
      PROVE  file'[d] = file[d]
  <2>1. /\ lock = p /\ p \in Writer /\ Wanted[p][at[p]] \in Design /\ Wanted[p][at[p]] \in runs
        /\ "row" \in Row
    BY <1>2, Position DEF SaveRow, IInv, LoadedIsFile, RowsAreTrue, Writer, Row
  <2>2. file' = [file EXCEPT ![Wanted[p][at[p]]] = "row"]
    BY <1>2, <2>1, SaveChangesOne DEF SaveRow
  <2> QED
    BY <2>1, <2>2 DEF IInv, TypeOK, Table
<1>3. ASSUME NEW j \in Job, SaveNull(j), NEW d \in Design, file[d] = "null"
      PROVE  file'[d] = "null"
  <2>1. lock = j /\ j \in Writer /\ j[2] \in Design /\ "null" \in Row
    BY <1>3, Names DEF SaveNull, IInv, LoadedIsFile, Writer, Row
  <2>2. file' = [file EXCEPT ![j[2]] = "null"]
    BY <1>3, <2>1, SaveChangesOne DEF SaveNull
  <2> QED
    BY <1>3, <2>1, <2>2 DEF IInv, TypeOK, Table
<1> QED
  BY <1>1, <1>2, <1>3, WhoWrites

\* What a step must show of the null rows it reads and of the threads that store one.
GoesOn(q) ==
  /\ \A d \in Design \ runs, s \in Stage :
       job[<<q, d, s>>] \in {"null", "saveNull"} =>
         job'[<<q, d, s>>] \in {"null", "saveNull"} \/ file'[d] = "null"
  /\ \A d \in Design \ runs :
       known'[q][d] = "null" => known[q][d] = "null" \/ draft[q][d] = "null" \/ Storing(q, d)'
  /\ \A d \in Design \ (runs \cup Killable) : d \in dropped'[q] /\ q \in Simulating =>
       \/ d \in dropped[q] \/ known[q][d] = "null"
       \/ \E s \in Stage : job[<<q, d, s>>] = "crashed"

StartsOver(q) == known'[q] = file /\ dropped'[q] = {}

LEMMA NullsStayStored ==
  ASSUME IInv, CrashInv, [Next]_vars,
         \A j \in Job : job'[j] = "crashed" /\ j[2] \notin runs => job[j] = "crashed" \/ file'[j[2]] = "null",
         \A w \in Writer : \A d \in Design \ runs :
           draft'[w][d] = "null" => draft[w][d] = "null" \/ file[d] = "null",
         \A q \in Process : GoesOn(q) \/ StartsOver(q)
  PROVE  NullsAreStored' /\ CrashIsNotForgotten'
<1>1. /\ runs' = runs
      /\ \A d \in Design \ runs : file[d] = "null" => file'[d] = "null"
  BY NullsStay
<1>2. \A j \in Job : job'[j] = "crashed" /\ j[2] \notin runs => file'[j[2]] = "null"
  BY <1>1, Names DEF CrashInv, NullsAreStored
<1>3. \A w \in Writer : \A d \in Design \ runs : draft'[w][d] = "null" => file'[d] = "null"
  BY <1>1 DEF CrashInv, NullsAreStored
<1>4. ASSUME NEW q \in Process, GoesOn(q), NEW d \in Design \ runs, file[d] = "null" \/ Storing(q, d)
      PROVE  file'[d] = "null" \/ Storing(q, d)'
  BY <1>1, <1>4 DEF GoesOn, Storing
<1>5. ASSUME NEW q \in Process, NEW d \in Design \ runs, known'[q][d] = "null"
      PROVE  file'[d] = "null" \/ Storing(q, d)'
  <2>1. CASE StartsOver(q)
    BY <1>1, <1>5, <2>1 DEF StartsOver
  <2>2. CASE GoesOn(q)
    <3>1. known[q][d] = "null" => file[d] = "null" \/ Storing(q, d)
      BY DEF CrashInv, NullsAreStored
    <3>2. draft[q][d] = "null" => file[d] = "null"
      BY DEF CrashInv, NullsAreStored, Writer
    <3> QED
      BY <1>4, <1>5, <2>2, <3>1, <3>2 DEF GoesOn
  <2> QED  BY <2>1, <2>2
<1>6. ASSUME NEW q \in Simulating, NEW d \in dropped'[q] \ (runs \cup Killable)
      PROVE  file'[d] = "null" \/ Storing(q, d)'
  <2>1. q \in Process
    BY TableAssumption
  <2>2. CASE StartsOver(q)
    BY <2>2 DEF StartsOver
  <2>3. CASE GoesOn(q)
    <3>1. d \in Design \ runs
      <4>1. TypeOK'
        BY StepKeeps DEF IInv
      <4> QED
        BY <2>1, <4>1 DEF TypeOK
    <3>2. d \in dropped[q] => file[d] = "null" \/ Storing(q, d)
      BY DEF CrashInv, CrashIsNotForgotten
    <3>3. known[q][d] = "null" => file[d] = "null" \/ Storing(q, d)
      BY <2>1, <3>1 DEF CrashInv, NullsAreStored
    <3>4. ASSUME NEW s \in Stage, job[<<q, d, s>>] = "crashed" PROVE file[d] = "null"
      <4>1. <<q, d, s>> \in Job /\ <<q, d, s>>[2] = d
        BY <2>1, <3>1, Names
      <4> QED
        BY <3>1, <3>4, <4>1 DEF CrashInv, NullsAreStored
    <3> QED
      BY <1>4, <2>1, <2>3, <3>1, <3>2, <3>3, <3>4 DEF GoesOn
  <2> QED
    BY <2>1, <2>2, <2>3
<1> QED
  BY <1>1, <1>2, <1>3, <1>5, <1>6 DEF NullsAreStored, CrashIsNotForgotten, TypeOK

\* A step that neither copies nor drops, and starts no simulation anew, goes on.
LEMMA CopiesNothing ==
  ASSUME NEW q \in Process, known'[q] = known[q], dropped'[q] = dropped[q],
         \A j \in Job : j[1] = q /\ job[j] \in {"null", "saveNull"} => job'[j] = job[j]
  PROVE  GoesOn(q)
<1>1. \A d \in Design, s \in Stage : <<q, d, s>> \in Job /\ <<q, d, s>>[1] = q
  BY Names
<1> QED
  BY <1>1 DEF GoesOn

\* The reload reads what is on file.
LEMMA ReloadStores ==
  ASSUME IInv, CrashInv, NEW p \in Process, LoadTable(p) \/ TakeCopy(p)
  PROVE  NullsAreStored' /\ CrashIsNotForgotten'
<1>0. [Next]_vars
  BY DEF Next, MainStep
<1>1. /\ job' = job /\ dropped' = dropped /\ p \in Writer
      /\ \A w \in Writer \ {p} : draft'[w] = draft[w]
      /\ draft'[p] \in {file, NoTable}
      /\ \A q \in Process \ {p} : known'[q] = known[q]
      /\ known'[p] \in {known[p], draft[p]}
  BY DEF LoadTable, TakeCopy, IInv, TypeOK, Writer
<1>2. \A w \in Writer : \A d \in Design \ runs :
        draft'[w][d] = "null" => draft[w][d] = "null" \/ file[d] = "null"
  BY <1>1 DEF NoTable
<1>3. \A q \in Process : GoesOn(q)
  BY <1>1 DEF GoesOn
<1> QED
  BY <1>0, <1>1, <1>2, <1>3, NullsStayStored

\* A design refused by its null row was read from the file, or is being stored.
LEMMA AskStores ==
  ASSUME IInv, CrashInv, NEW p \in Process, Ask(p)
  PROVE  NullsAreStored' /\ CrashIsNotForgotten'
<1>0. [Next]_vars
  BY DEF Next, MainStep
<1>1. /\ known' = known /\ draft' = draft
      /\ \A j \in Job : job'[j] = job[j] \/ (job[j] = "none" /\ job'[j] = "queued" /\ j[1] = p)
  BY AskOnce DEF Ask, disk, CrashInv
<1>2. \A j \in Job : job'[j] = "crashed" \/ job[j] \in {"null", "saveNull"} => job'[j] = job[j]
  BY <1>1
<1>3. ASSUME NEW q \in Process \ {p} PROVE GoesOn(q)
  <2>1. dropped'[q] = dropped[q]
    BY OthersStay DEF MainStep, Others
  <2> QED
    BY <1>1, <1>2, <2>1, CopiesNothing
<1>4. GoesOn(p)
  <2>1. \A d \in Design, s \in Stage :
          job[<<p, d, s>>] \in {"null", "saveNull"} => job'[<<p, d, s>>] \in {"null", "saveNull"}
    BY <1>2, Names
  <2>2. ASSUME NEW d \in Design \ (runs \cup Killable), d \in dropped'[p], d \notin dropped[p], p \in Simulating
        PROVE  known[p][d] = "null"
    <3>1. Failed(p)
      <4>1. dropped' # dropped
        BY <2>2
      <4> QED
        BY <4>1 DEF Ask
    <3>2. stage[p] = "retry" /\ dropped' = [dropped EXCEPT ![p] = Dropped(p)]
      <4>1. dropped' # dropped
        BY <2>2
      <4> QED
        BY <3>1, <4>1, FailedTypes DEF IInv
    <3>3. d = Wanted[p][at[p]]
      BY <2>2, <3>2 DEF IInv, TypeOK, Dropped
    <3>4. Asked(p) = <<Wanted[p][at[p]]>>
      BY <3>2 DEF Asked
    <3>5. ~(\A k \in 1..Len(Asked(p)) : ~Refuses(p, Asked(p)[k]))
      <4> SUFFICES ASSUME \A k \in 1..Len(Asked(p)) : ~Refuses(p, Asked(p)[k]) PROVE dropped' = dropped
        BY <2>2
      <4> QED
        BY DEF Ask
    <3>6. Refuses(p, d)
      BY <3>3, <3>4, <3>5
    <3> QED
      BY <2>2, <3>6 DEF Refuses
  <2> QED
    BY <1>1, <2>1, <2>2 DEF GoesOn
<1> QED
  BY <1>0, <1>1, <1>2, <1>3, <1>4, NullsStayStored

\* The crash a call waited for is on file.
LEMMA WaitFailsStores ==
  ASSUME IInv, CrashInv, NEW p \in Process, WaitFails(p)
  PROVE  NullsAreStored' /\ CrashIsNotForgotten'
<1>0. [Next]_vars
  BY DEF Next, MainStep
<1>1. Failed(p) /\ UNCHANGED <<known, job, draft>> /\ job[MyJob(p)] \in {"crashed", "interrupted"}
  BY DEF WaitFails, disk
<1>2. ASSUME NEW q \in Process \ {p} PROVE GoesOn(q)
  <2>1. dropped'[q] = dropped[q]
    BY OthersStay DEF MainStep, Others
  <2> QED
    BY <1>1, <2>1, CopiesNothing
<1>3. GoesOn(p)
  <2> SUFFICES ASSUME NEW d \in Design \ (runs \cup Killable), d \in dropped'[p], d \notin dropped[p]
               PROVE  \E s \in Stage : job[<<p, d, s>>] = "crashed"
    BY <1>1 DEF GoesOn
  <2>1. stage[p] = "retry" /\ dropped' = [dropped EXCEPT ![p] = Dropped(p)]
    <3>1. dropped' # dropped
      OBVIOUS
    <3> QED
      BY <1>1, <3>1, FailedTypes DEF IInv
  <2>2. d = Wanted[p][at[p]] /\ MyJob(p) = <<p, d, stage[p]>> /\ stage[p] \in Stage
    BY <2>1 DEF IInv, TypeOK, Dropped, MyJob
  <2>3. job[MyJob(p)] # "interrupted"
    BY <2>2, Position DEF IInv, RowsAreTrue
  <2> QED
    BY <1>1, <2>2, <2>3
<1> QED
  BY <1>0, <1>1, <1>2, <1>3, NullsStayStored

\* An answer drops nothing, and remembers a design that ran.
LEMMA AnswerStores ==
  ASSUME IInv, CrashInv, NEW p \in Process, Ready(p) \/ Remember(p) \/ LoadForRow(p) \/ SaveRow(p)
  PROVE  NullsAreStored' /\ CrashIsNotForgotten'
<1>0. [Next]_vars
  BY DEF Next, MainStep
<1>1. job' = job /\ dropped' = dropped
  BY DEF Ready, Remember, LoadForRow, SaveRow, Answered
<1>2. \A q \in Process, d \in Design : known'[q][d] = "null" => known[q][d] = "null"
  <2>1. CASE known' = known
    BY <2>1
  <2>2. CASE Remember(p)
    BY <2>2, Position DEF Remember, IInv, TypeOK, Table
  <2> QED
    BY <2>1, <2>2 DEF Ready, LoadForRow, SaveRow
<1>3. \A w \in Writer : draft'[w] = draft[w] \/ draft'[w] = file \/ draft'[w] = NoTable
  <2>1. CASE draft' = draft
    BY <2>1
  <2>2. CASE \E row \in Table : draft' = [draft EXCEPT ![p] = row] /\ row \in {file, NoTable}
    BY <2>2 DEF IInv, TypeOK
  <2>3. NoTable \in Table /\ file \in Table
    BY DEF NoTable, Table, Row, IInv, TypeOK
  <2> QED
    BY <2>1, <2>2, <2>3 DEF Ready, Remember, LoadForRow, Load, SaveRow, Save, disk
<1>4. \A w \in Writer : \A d \in Design \ runs :
        draft'[w][d] = "null" => draft[w][d] = "null" \/ file[d] = "null"
  BY <1>3 DEF NoTable
<1>5. \A q \in Process : GoesOn(q)
  BY <1>1, <1>2 DEF GoesOn
<1> QED
  BY <1>0, <1>1, <1>4, <1>5, NullsStayStored

\* A thread puts its null row into the copy when it sets out for the file, and is
\* done when the file has it.
LEMMA PoolStores ==
  ASSUME IInv, CrashInv, NEW j \in Job, PoolStep(j)
  PROVE  NullsAreStored' /\ CrashIsNotForgotten'
<1>0. [Next]_vars
  BY DEF Next
<1>1. /\ dropped' = dropped /\ \A i \in Job \ {j} : job'[i] = job[i]
      /\ j[1] \in Process /\ j[2] \in Design /\ j[3] \in Stage /\ j = <<j[1], j[2], j[3]>>
  BY Names DEF PoolStep, Start, Measured, Crashed, Interrupted, LoadForNull, SaveNull, Become, call,
     IInv, TypeOK, Job
<1>2. job'[j] = "crashed" => file'[j[2]] = "null"
  <2>1. CASE SaveNull(j)
    <3>1. lock = j /\ j \in Writer /\ "null" \in Row
      BY <2>1 DEF SaveNull, IInv, LoadedIsFile, Writer, Row
    <3>2. file' = [file EXCEPT ![j[2]] = "null"]
      BY <1>1, <2>1, <3>1, SaveChangesOne DEF SaveNull
    <3> QED
      BY <1>1, <3>2 DEF IInv, TypeOK, Table
  <2>2. CASE ~SaveNull(j)
    BY <2>2 DEF PoolStep, Start, Measured, Crashed, Interrupted, LoadForNull, Become, NotCached,
       ToTheFile, IInv, TypeOK
  <2> QED  BY <2>1, <2>2
<1>3. \A w \in Writer : draft'[w] = draft[w] \/ draft'[w] = file \/ draft'[w] = NoTable
  BY DEF PoolStep, Start, Measured, Crashed, Interrupted, LoadForNull, Load, SaveNull, Save, disk, IInv, TypeOK
<1>4. \A w \in Writer : \A d \in Design \ runs :
        draft'[w][d] = "null" => draft[w][d] = "null" \/ file[d] = "null"
  BY <1>3 DEF NoTable
<1>5. job[j] \in {"null", "saveNull"} => job'[j] \in {"null", "saveNull", "crashed"}
  BY DEF PoolStep, Start, Measured, Crashed, Interrupted, LoadForNull, SaveNull, Become, IInv, TypeOK
<1>6. \A q \in Process, d \in Design :
        known'[q][d] = "null" => known[q][d] = "null" \/ (q = j[1] /\ d = j[2] /\ job'[j] = "null")
  <2>1. CASE Crashed(j)
    BY <1>1, <2>1 DEF Crashed, NullKnown, Become, ToTheFile, IInv, TypeOK, Table
  <2>2. CASE ~Crashed(j)
    <3>1. known' = known
      BY <2>2 DEF PoolStep, Start, Measured, Interrupted, LoadForNull, SaveNull
    <3> QED  BY <3>1
  <2> QED  BY <2>1, <2>2
<1>7. ASSUME NEW q \in Process PROVE GoesOn(q)
  <2>1. ASSUME NEW d \in Design \ runs, NEW s \in Stage, job[<<q, d, s>>] \in {"null", "saveNull"}
        PROVE  job'[<<q, d, s>>] \in {"null", "saveNull"} \/ file'[d] = "null"
    <3>1. <<q, d, s>> \in Job /\ <<q, d, s>>[2] = d
      BY Names
    <3>2. CASE <<q, d, s>> = j
      <4>1. job'[j] \in {"null", "saveNull", "crashed"} /\ j[2] = d
        BY <1>5, <2>1, <3>1, <3>2
      <4> QED
        BY <1>2, <3>2, <4>1
    <3>3. CASE <<q, d, s>> # j
      BY <1>1, <2>1, <3>1, <3>3
    <3> QED  BY <3>2, <3>3
  <2>2. ASSUME NEW d \in Design \ runs, known'[q][d] = "null", known[q][d] # "null"
        PROVE  Storing(q, d)'
    <3>1. <<q, d, j[3]>> = j /\ job'[j] = "null" /\ j[3] \in Stage
      BY <1>1, <1>6, <2>2
    <3> QED
      BY <3>1 DEF Storing
  <2> QED
    BY <1>1, <2>1, <2>2 DEF GoesOn
<1>8. \A i \in Job : job'[i] = "crashed" /\ i[2] \notin runs => job[i] = "crashed" \/ file'[i[2]] = "null"
  BY <1>1, <1>2
<1> QED
  BY <1>0, <1>4, <1>7, <1>8, NullsStayStored

\* A process that starts over has dropped nothing yet.
LEMMA CrashStores ==
  ASSUME IInv, CrashInv, NEW p \in Process, Crash(p)
  PROVE  NullsAreStored' /\ CrashIsNotForgotten'
<1>0. [Next]_vars
  BY DEF Next
<1>1. /\ dropped' = [dropped EXCEPT ![p] = {}] /\ known' = [known EXCEPT ![p] = file]
      /\ job' = [j \in Job |-> IF j[1] = p THEN "none" ELSE job[j]]
      /\ \A w \in Writer : draft'[w] = draft[w] \/ draft'[w] = NoTable
  BY DEF Crash
<1>2. StartsOver(p)
  BY <1>1 DEF IInv, TypeOK, StartsOver
<1>3. ASSUME NEW q \in Process \ {p} PROVE GoesOn(q)
  BY <1>1, CopiesNothing DEF IInv, TypeOK
<1>4. \A w \in Writer : \A d \in Design \ runs :
        draft'[w][d] = "null" => draft[w][d] = "null" \/ file[d] = "null"
  BY <1>1 DEF NoTable
<1>5. \A j \in Job : job'[j] = "crashed" => job[j] = "crashed"
  BY <1>1
<1> QED
  BY <1>0, <1>2, <1>3, <1>4, <1>5, NullsStayStored

\* A step of anybody forgets no crash.
LEMMA CrashStepKeeps == IInv /\ CrashInv /\ [Next]_vars => CrashInv'
<1> SUFFICES ASSUME IInv, CrashInv, [Next]_vars PROVE CrashInv'
  OBVIOUS
<1>0. JobsAreNew'
  BY OnceKeeps DEF CrashInv
<1>1. CASE UNCHANGED vars \/ Finished
  <2>1. UNCHANGED <<runs, file, draft, known, job, dropped>>
    BY <1>1 DEF Finished, vars
  <2>2. NullsAreStored' /\ CrashIsNotForgotten'
    BY <2>1 DEF CrashInv, NullsAreStored, CrashIsNotForgotten, Storing
  <2> QED  BY <1>0, <2>2 DEF CrashInv
<1>2. ASSUME NEW p \in Process, MainStep(p) \/ Crash(p) PROVE NullsAreStored' /\ CrashIsNotForgotten'
  BY <1>2, ReloadStores, AskStores, AnswerStores, WaitFailsStores, CrashStores DEF MainStep
<1>3. ASSUME NEW j \in Job, PoolStep(j) PROVE NullsAreStored' /\ CrashIsNotForgotten'
  BY <1>3, PoolStores
<1> QED
  BY <1>0, <1>1, <1>2, <1>3 DEF Next, CrashInv

\* A crash that cost a run a design is not forgotten: it is on file, or on its way
\* there, whatever reloads and whatever other runs write (suite.py:187-212).
THEOREM CrashesAreStored == Spec => []CrashIsNotForgotten
<1>1. Init => CrashInv
  <2> SUFFICES ASSUME Init PROVE CrashInv
    OBVIOUS
  <2>1. JobsAreNew
    <3> SUFFICES ASSUME NEW p \in Process, NEW i \in DOMAIN Wanted[p]
                 PROVE  job[<<p, Wanted[p][i], "batch">>] = "none" /\ job[<<p, Wanted[p][i], "retry">>] = "none"
      BY DEF JobsAreNew, SubmittedOnce
    <3>1. Wanted[p][i] \in Design
      BY TableAssumption
    <3> QED
      BY <3>1, Names DEF Init, Stage
  <2>2. NullsAreStored /\ CrashIsNotForgotten
    BY TableAssumption DEF Init, NullsAreStored, CrashIsNotForgotten, NoTable
  <2> QED  BY <2>1, <2>2 DEF CrashInv
<1>2. CrashInv => CrashIsNotForgotten
  BY DEF CrashInv
<1> QED
  BY <1>1, <1>2, CrashStepKeeps, Invariance, PTL DEF Spec

-----------------------------------------------------------------------------
(***************************************************************************)
(* Each call implements measure_batch.                                     *)
(***************************************************************************)

\* A call that passes its place has one position more behind it.
LEMMA PassesOne ==
  ASSUME TypeOK, NEW p \in Process, pc[p] # "done",
         \/ at[p] = Len(Wanted[p]) /\ pc'[p] = "done" /\ at'[p] = at[p]
         \/ at[p] # Len(Wanted[p]) /\ pc'[p] # "done" /\ at'[p] = at[p] + 1
  PROVE  Passed(p)' = Passed(p) \cup {at[p]}
<1>1. /\ at[p] \in 1..Len(Wanted[p]) /\ Len(Wanted[p]) \in Nat /\ DOMAIN Wanted[p] = 1..Len(Wanted[p])
  BY Position
<1> QED
  BY <1>1 DEF Passed

\* The next design, or the end.
LEMMA NextOnePasses ==
  ASSUME TypeOK, NEW p \in Process, pc[p] # "done", NextOne(p)
  PROVE  /\ Passed(p)' = Passed(p) \cup {at[p]}
         /\ \A q \in Process \ {p} : pc'[q] = pc[q] /\ at'[q] = at[q]
<1>1. CASE at[p] = Len(Wanted[p])
  <2>1. pc'[p] = "done" /\ at'[p] = at[p]
    BY <1>1 DEF NextOne, TypeOK
  <2> QED
    BY <1>1, <2>1, PassesOne, NextOneTypes DEF TypeOK
<1>2. CASE at[p] # Len(Wanted[p])
  <2>1. pc'[p] = "ask" /\ at'[p] = at[p] + 1
    BY <1>2 DEF NextOne, TypeOK
  <2> QED
    BY <1>2, <2>1, PassesOne, NextOneTypes DEF TypeOK
<1> QED  BY <1>1, <1>2

\* The design at a call's place is accounted for by no earlier position.
LEMMA NotYetPassed ==
  ASSUME TypeOK, AccountedFor, NEW p \in Process, pc[p] # "done"
  PROVE  Wanted[p][at[p]] \notin kept[p] \cup dropped[p]
<1>1. /\ at[p] \in DOMAIN Wanted[p] /\ DOMAIN Wanted[p] = 1..Len(Wanted[p]) /\ Len(Wanted[p]) \in Nat
      /\ Wanted[p][at[p]] \in Design
  BY Position
<1>2. \A i \in DOMAIN Wanted[p] : Wanted[p][i] = Wanted[p][at[p]] => i = at[p]
  BY <1>1, TableAssumption
<1>3. \A i \in Passed(p) : i \in DOMAIN Wanted[p] /\ i # at[p]
  BY <1>1 DEF Passed
<1> QED
  BY <1>1, <1>2, <1>3 DEF AccountedFor

\* A design that joins the kept ran, one that joins the dropped was not kept.
LEMMA JoinsOne ==
  ASSUME TypeOK, AccountedFor, NEW p \in Process, pc[p] # "done", Others(p), runs' = runs,
         Passed(p)' = Passed(p) \cup {at[p]}, stage'[p] = stage[p],
         \/ /\ kept'[p] = kept[p] \cup {Wanted[p][at[p]]} /\ dropped'[p] = dropped[p]
            /\ Wanted[p][at[p]] \in runs
         \/ /\ dropped'[p] = dropped[p] \cup {Wanted[p][at[p]]} /\ kept'[p] = kept[p]
            /\ stage[p] # "batch"
  PROVE  AccountedFor'
<1>1. Wanted[p][at[p]] \notin kept[p] \cup dropped[p]
  BY NotYetPassed
<1>2. ASSUME NEW d \in Design
      PROVE  d \in kept'[p] \cup dropped'[p] <=> \E i \in Passed(p)' : Wanted[p][i] = d
  BY DEF AccountedFor
<1>3. kept'[p] \cap dropped'[p] = {} /\ kept'[p] \subseteq runs' /\ (stage'[p] = "batch" => dropped'[p] = {})
  BY <1>1 DEF AccountedFor
<1>4. ASSUME NEW q \in Process \ {p}
      PROVE  /\ \A d \in Design : d \in kept'[q] \cup dropped'[q] <=> \E i \in Passed(q)' : Wanted[q][i] = d
             /\ kept'[q] \cap dropped'[q] = {} /\ kept'[q] \subseteq runs'
             /\ stage'[q] = "batch" => dropped'[q] = {}
  <2>1. Passed(q)' = Passed(q)
    BY DEF Others, Passed
  <2> QED
    BY <2>1 DEF AccountedFor, Others
<1> QED
  BY <1>2, <1>3, <1>4 DEF AccountedFor

\* A call that starts again has accounted for nothing.
LEMMA StartsAgain ==
  ASSUME TypeOK, AccountedFor, NEW p \in Process, Others(p), runs' = runs,
         pc'[p] = "ask", at'[p] = 1, kept'[p] = {}, dropped'[p] = {}
  PROVE  AccountedFor'
<1>1. Passed(p)' = {}
  BY Position DEF Passed
<1>2. ASSUME NEW q \in Process \ {p}
      PROVE  /\ \A d \in Design : d \in kept'[q] \cup dropped'[q] <=> \E i \in Passed(q)' : Wanted[q][i] = d
             /\ kept'[q] \cap dropped'[q] = {} /\ kept'[q] \subseteq runs'
             /\ stage'[q] = "batch" => dropped'[q] = {}
  <2>1. Passed(q)' = Passed(q)
    BY DEF Others, Passed
  <2> QED
    BY <2>1 DEF AccountedFor, Others
<1> QED
  BY <1>1, <1>2 DEF AccountedFor

\* A failure starts the retry, or drops the design it is about.
LEMMA FailedAccounts ==
  ASSUME TypeOK, AccountedFor, NEW p \in Process, pc[p] # "done", Failed(p), runs' = runs
  PROVE  AccountedFor' /\ Others(p) /\ pc'[p] \in {"ask", "done"}
<1>1. Others(p) /\ pc'[p] \in {"ask", "done"}
  <2>1. \A q \in Process \ {p} : dropped'[q] = dropped[q]
    BY FailedTypes DEF TypeOK
  <2> QED
    BY <2>1, FailedTypes DEF TypeOK, Others
<1>2. CASE stage[p] = "batch"
  <2>1. pc'[p] = "ask" /\ at'[p] = 1 /\ kept'[p] = {} /\ dropped'[p] = {}
    BY <1>2 DEF Failed, TypeOK, AccountedFor
  <2> QED
    BY <1>1, <2>1, StartsAgain
<1>3. CASE stage[p] # "batch"
  <2>1. /\ NextOne(p) /\ stage' = stage /\ kept' = kept
        /\ dropped'[p] = dropped[p] \cup {Wanted[p][at[p]]}
    BY <1>3 DEF Failed, Dropped, TypeOK
  <2>2. Passed(p)' = Passed(p) \cup {at[p]}
    BY <2>1, NextOnePasses
  <2> QED
    BY <1>1, <1>3, <2>1, <2>2, JoinsOne
<1> QED  BY <1>1, <1>2, <1>3

\* An answer keeps the design it is about.
LEMMA AnsweredAccounts ==
  ASSUME TypeOK, AccountedFor, NEW p \in Process, pc[p] # "done", Answered(p), runs' = runs,
         Wanted[p][at[p]] \in runs
  PROVE  AccountedFor' /\ Others(p)
<1>1. Others(p) /\ stage' = stage /\ dropped' = dropped /\ kept'[p] = kept[p] \cup {Wanted[p][at[p]]}
  BY AnsweredTypes DEF TypeOK, Others
<1>2. Passed(p)' = Passed(p) \cup {at[p]}
  <2>1. CASE stage[p] = "batch" /\ at[p] < Len(Wanted[p])
    <3>1. at[p] # Len(Wanted[p]) /\ pc'[p] # "done" /\ at'[p] = at[p] + 1
      BY <2>1, Position DEF Answered, TypeOK
    <3> QED
      BY <3>1, PassesOne
  <2>2. CASE stage[p] = "batch" /\ ~(at[p] < Len(Wanted[p]))
    <3>1. at[p] = Len(Wanted[p])
      BY <2>2, Position
    <3>2. pc'[p] = "done" /\ at'[p] = at[p]
      BY <2>2 DEF Answered, TypeOK
    <3> QED
      BY <3>1, <3>2, PassesOne
  <2>3. CASE stage[p] # "batch"
    BY <2>3, NextOnePasses DEF Answered
  <2> QED  BY <2>1, <2>2, <2>3
<1> QED
  BY <1>1, <1>2, JoinsOne

-----------------------------------------------------------------------------
\* A call that waits for its answers waits for jobs, or for designs that ran.
LEMMA RanStays ==
  ASSUME TypeOK, NoJobMeansRan, runs' = runs,
         \A j \in Job : job'[j] = "none" => job[j] = "none",
         \A q \in Process : Waits(q)' =>
           Waits(q) /\ stage'[q] = stage[q] /\ (at'[q] = at[q] \/ stage[q] = "batch")
  PROVE  NoJobMeansRan'
<1> SUFFICES ASSUME NEW q \in Process, Waits(q)', NEW i \in Positions(q)',
                    job'[<<q, Wanted[q][i], stage'[q]>>] = "none"
             PROVE  Wanted[q][i] \in runs
  BY DEF NoJobMeansRan
<1>1. Waits(q) /\ stage'[q] = stage[q] /\ i \in Positions(q)
  BY DEF Positions
<1>2. i \in DOMAIN Wanted[q]
  BY <1>1 DEF Positions, TypeOK
<1>3. <<q, Wanted[q][i], stage[q]>> \in Job
  BY <1>2, Position, Names DEF TypeOK
<1> QED
  BY <1>1, <1>3 DEF NoJobMeansRan

\* The reload accounts for nothing.
LEMMA ReloadCall ==
  ASSUME IInv, CallInv, NEW p \in Process, LoadTable(p) \/ TakeCopy(p)
  PROVE  CallInv' /\ Others(p)
<1> USE DEF IInv, CallInv
<1>1. /\ UNCHANGED <<runs, job, stage, at, kept, dropped>> /\ pc[p] \in {"ask", "loaded"}
      /\ pc'[p] \in {"loaded", "test"} /\ \A q \in Process \ {p} : pc'[q] = pc[q]
  BY DEF LoadTable, TakeCopy, TypeOK
<1>2. AccountedFor'
  <2>1. \A q \in Process : Passed(q)' = Passed(q)
    BY <1>1 DEF Passed
  <2> QED
    BY <1>1, <2>1 DEF AccountedFor
<1>3. \A q \in Process : Waits(q)' => Waits(q)
  BY <1>1 DEF Waits
<1>4. NoJobMeansRan'
  BY <1>1, <1>3, RanStays
<1> QED
  BY <1>1, <1>2, <1>4 DEF Others

\* Asking submits what did not run before.
LEMMA AskCall == ASSUME IInv, CallInv, NEW p \in Process, Ask(p) PROVE CallInv' /\ Others(p)
<1> USE DEF IInv, CallInv
<1> DEFINE asked == Asked(p)
           NoErrorTo(i) == \A k \in 1..i : ~Refuses(p, asked[k])
           submitted == {<<p, asked[i], stage[p]>> :
                           i \in {k \in DOMAIN asked : NoErrorTo(k) /\ ~Complete(known[p][asked[k]])}}
<1>1. /\ job' = [j \in Job |-> IF j \in submitted THEN "queued" ELSE job[j]]
      /\ pc[p] = "test" /\ runs' = runs
  BY DEF Ask
<1>2. \A j \in Job : job'[j] = job[j] \/ (j[1] = p /\ job'[j] = "queued")
  BY <1>1
<1>3. CASE ~NoErrorTo(Len(asked))
  <2>1. Failed(p)
    BY <1>3 DEF Ask
  <2> HIDE DEF asked, NoErrorTo, submitted
  <2>2. AccountedFor' /\ Others(p) /\ pc'[p] \in {"ask", "done"}
    BY <1>1, <2>1, FailedAccounts
  <2>3. NoJobMeansRan'
    <3>1. \A j \in Job : job'[j] = "none" => job[j] = "none"
      BY <1>2
    <3>2. \A q \in Process : Waits(q)' => q # p /\ Waits(q)
      BY <2>2 DEF Waits, Others
    <3> QED
      BY <1>1, <2>2, <3>1, <3>2, RanStays DEF Others
  <2> QED  BY <2>2, <2>3
<1>4. CASE NoErrorTo(Len(asked))
  <2>1. pc' = [pc EXCEPT ![p] = "wait"] /\ UNCHANGED <<stage, at, kept, dropped>>
    BY <1>4 DEF Ask
  <2>2. \A i \in Positions(p) : \E k \in DOMAIN asked :
          asked[k] = Wanted[p][i] /\ NoErrorTo(k)
    <3>1. CASE stage[p] = "batch"
      <4>1. asked = Wanted[p] /\ Positions(p) = 1..Len(Wanted[p]) /\ Len(Wanted[p]) \in Nat
        BY <3>1, Position DEF Asked, Positions
      <4> QED
        BY <1>4, <4>1, Position
    <3>2. CASE stage[p] # "batch"
      <4>1. asked = <<Wanted[p][at[p]]>> /\ Positions(p) = {at[p]}
        BY <3>2 DEF Asked, Positions
      <4> QED
        BY <1>4, <4>1
    <3> QED  BY <3>1, <3>2
  <2> HIDE DEF asked, NoErrorTo
  <2>3. Others(p)
    BY <2>1 DEF Others, TypeOK
  <2>4. AccountedFor'
    <3>1. \A q \in Process : Passed(q)' = Passed(q)
      BY <1>1, <2>1 DEF Passed, TypeOK
    <3> QED
      BY <1>1, <2>1, <3>1 DEF AccountedFor
  <2>5. NoJobMeansRan'
    <3> SUFFICES ASSUME NEW q \in Process, Waits(q)', NEW i \in Positions(q),
                        job'[<<q, Wanted[q][i], stage[q]>>] = "none"
                 PROVE  Wanted[q][i] \in runs
      BY <1>1, <2>1 DEF NoJobMeansRan, Positions
    <3>1. i \in DOMAIN Wanted[q] /\ Wanted[q][i] \in Design
      BY Position DEF Positions, TypeOK
    <3>2. <<q, Wanted[q][i], stage[q]>> \in Job
      BY <3>1, Names DEF TypeOK
    <3>3. CASE q = p
      <4>1. PICK k \in DOMAIN asked : asked[k] = Wanted[p][i] /\ NoErrorTo(k)
        BY <2>2, <3>3
      <4>2. <<p, Wanted[p][i], stage[p]>> \notin submitted
        BY <1>1, <3>2, <3>3
      <4>3. known[p][Wanted[p][i]] = "row"
        BY <4>1, <4>2 DEF Complete
      <4> QED
        BY <3>1, <3>3, <4>3 DEF RowsAreTrue, TellsTheTruth
    <3>4. CASE q # p
      <4>1. Waits(q) /\ job[<<q, Wanted[q][i], stage[q]>>] = "none"
        BY <1>2, <2>1, <3>2, <3>4, Names DEF Waits, TypeOK
      <4> QED
        BY <4>1 DEF NoJobMeansRan
    <3> QED  BY <3>3, <3>4
  <2> QED  BY <2>3, <2>4, <2>5
<1> QED  BY <1>3, <1>4

\* An answer is of a design that ran, read or measured.
LEMMA AnswerCall ==
  ASSUME IInv, CallInv, NEW p \in Process, Ready(p) \/ SaveRow(p) PROVE CallInv' /\ Others(p)
<1> USE DEF IInv, CallInv
<1>1. Answered(p) /\ runs' = runs /\ job' = job /\ pc[p] \in {"wait", "save"}
  BY DEF Ready, SaveRow
<1>2. Wanted[p][at[p]] \in runs
  <2>1. CASE Ready(p)
    BY <2>1, Position DEF TypeOK, NoJobMeansRan, Ready, MyJob, Positions, Waits
  <2>2. CASE SaveRow(p)
    BY <2>2 DEF SaveRow, RowsAreTrue
  <2> QED  BY <2>1, <2>2
<1>3. AccountedFor' /\ Others(p)
  BY <1>1, <1>2, AnsweredAccounts
<1>5. \A q \in Process : Waits(q)' =>
        Waits(q) /\ stage'[q] = stage[q] /\ (at'[q] = at[q] \/ stage[q] = "batch")
  BY <1>1, <1>3, AnsweredTypes DEF Others, Waits
<1>4. NoJobMeansRan'
  BY <1>1, <1>5, RanStays
<1> QED  BY <1>3, <1>4

\* A failed wait is a failure of the call.
LEMMA WaitFailsCall ==
  ASSUME IInv, CallInv, NEW p \in Process, WaitFails(p) PROVE CallInv' /\ Others(p)
<1> USE DEF IInv, CallInv
<1>1. Failed(p) /\ runs' = runs /\ job' = job /\ pc[p] = "wait"
  BY DEF WaitFails
<1>2. AccountedFor' /\ Others(p) /\ pc'[p] \in {"ask", "done"}
  BY <1>1, FailedAccounts
<1>4. \A q \in Process : Waits(q)' => q # p /\ Waits(q)
  BY <1>2 DEF Waits, Others
<1>3. NoJobMeansRan'
  BY <1>1, <1>2, <1>4, RanStays DEF Others
<1> QED  BY <1>2, <1>3

\* On the way to the file nothing is accounted for.
LEMMA StoreCall ==
  ASSUME IInv, CallInv, NEW p \in Process, Remember(p) \/ LoadForRow(p)
  PROVE  CallInv' /\ Others(p) /\ pc'[p] \in {"store", "save"}
<1> USE DEF IInv, CallInv
<1>1. /\ UNCHANGED <<runs, job, stage, at, kept, dropped>> /\ pc[p] \in {"wait", "store"}
      /\ pc'[p] \in {"store", "save"} /\ \A q \in Process \ {p} : pc'[q] = pc[q]
  BY DEF Remember, LoadForRow, TypeOK
<1>2. AccountedFor'
  <2>1. \A q \in Process : Passed(q)' = Passed(q)
    BY <1>1 DEF Passed
  <2> QED
    BY <1>1, <2>1 DEF AccountedFor
<1>4. \A q \in Process : Waits(q)' => Waits(q)
  BY <1>1 DEF Waits
<1>3. NoJobMeansRan'
  BY <1>1, <1>4, RanStays
<1> QED
  BY <1>1, <1>2, <1>3 DEF Others

\* A death starts the call again.
LEMMA CrashCall == ASSUME IInv, CallInv, NEW p \in Process, Crash(p) PROVE CallInv' /\ Others(p) /\ pc'[p] = "ask"
<1> USE DEF IInv, CallInv
<1>1. /\ pc'[p] = "ask" /\ at'[p] = 1 /\ kept'[p] = {} /\ dropped'[p] = {} /\ runs' = runs
      /\ Others(p)
  BY DEF Crash, TypeOK, Others
<1>2. AccountedFor'
  BY <1>1, StartsAgain
<1>3. NoJobMeansRan'
  <2> SUFFICES ASSUME NEW q \in Process, Waits(q)', NEW i \in Positions(q)',
                      job'[<<q, Wanted[q][i], stage'[q]>>] = "none"
               PROVE  Wanted[q][i] \in runs
    BY <1>1 DEF NoJobMeansRan
  <2>1. q # p /\ Waits(q) /\ stage[q] = stage'[q] /\ i \in Positions(q)
    BY <1>1 DEF Others, Positions, Waits
  <2>2. i \in DOMAIN Wanted[q]
    BY <2>1 DEF Positions, TypeOK
  <2>3. <<q, Wanted[q][i], stage[q]>> \in Job /\ <<q, Wanted[q][i], stage[q]>>[1] = q
    BY <2>2, Position, Names DEF TypeOK
  <2> QED
    BY <2>1, <2>3 DEF NoJobMeansRan, Crash
<1> QED  BY <1>1, <1>2, <1>3

\* A pool thread touches no call.
LEMMA PoolCall ==
  ASSUME IInv, CallInv, NEW j \in Job, PoolStep(j)
  PROVE  CallInv' /\ UNCHANGED <<runs, pc, kept, dropped>>
<1> USE DEF IInv, CallInv
<1>1. UNCHANGED <<runs, pc, stage, at, kept, dropped>>
  BY DEF PoolStep, Start, Measured, Crashed, Interrupted, LoadForNull, SaveNull, call
<1>2. \A i \in Job : job'[i] = "none" => job[i] = "none"
  BY DEF PoolStep, Start, Measured, Crashed, Interrupted, LoadForNull, SaveNull, Become, NotCached,
     ToTheFile, TypeOK
<1>3. AccountedFor'
  <2>1. \A q \in Process : Passed(q)' = Passed(q)
    BY <1>1 DEF Passed
  <2> QED
    BY <1>1, <2>1 DEF AccountedFor
<1>5. \A q \in Process : Waits(q)' => Waits(q)
  BY <1>1 DEF Waits
<1>4. NoJobMeansRan'
  BY <1>1, <1>2, <1>5, RanStays
<1> QED  BY <1>1, <1>3, <1>4

-----------------------------------------------------------------------------
\* Nothing is accounted for at the start, and every step keeps the books.
LEMMA CallInvInit == Init => CallInv
<1> SUFFICES ASSUME Init PROVE CallInv
  OBVIOUS
<1>1. TypeOK
  BY InvInit DEF IInv
<1>2. \A p \in Process : Passed(p) = {} /\ kept[p] = {} /\ dropped[p] = {}
  BY <1>1, Position DEF Init, Passed
<1> QED
  BY <1>2 DEF Init, CallInv, AccountedFor, NoJobMeansRan, Waits

LEMMA CallStepKeeps == IInv /\ CallInv /\ [Next]_vars => CallInv'
<1> SUFFICES ASSUME IInv, CallInv, [Next]_vars PROVE CallInv'
  OBVIOUS
<1>1. CASE UNCHANGED vars \/ Finished
  BY <1>1 DEF Finished, vars, CallInv, AccountedFor, NoJobMeansRan, Passed, Positions, Waits
<1>2. ASSUME NEW p \in Process, MainStep(p) \/ Crash(p) PROVE CallInv'
  BY <1>2, ReloadCall, AskCall, AnswerCall, WaitFailsCall, StoreCall, CrashCall DEF MainStep
<1>3. ASSUME NEW j \in Job, PoolStep(j) PROVE CallInv'
  BY <1>3, PoolCall
<1> QED
  BY <1>1, <1>2, <1>3 DEF Next

\* Every design behind a call's place is kept or dropped, once, and the kept ran.
LEMMA CallInvariance == Spec => []CallInv
BY CallInvInit, CallStepKeeps, Invariance, PTL DEF Spec

\* A call that comes to its end returns what MeasureBatch allows.
LEMMA ReturnsPromise ==
  ASSUME IInv', CallInv', NEW p \in Process, runs' = runs,
         pc[p] # "done", Others(p)
  PROVE  [Promise!Next]_(Promise!vars)
<1> DEFINE faulty == [q \in Process |-> IF q \in Simulating THEN (Design \ runs) \cup Killable \cup Unlucky
                                        ELSE Design]
           shown == [q \in Process |-> Shown(q)]
           batch == [q \in Process |-> ListOf(Wanted[q])]
           ran == [q \in Process |-> runs]
<1>1. faulty' = faulty /\ ran' = ran
  OBVIOUS
<1>2. \A q \in Process \ {p} : Shown(q)' = Shown(q)
  BY DEF Others, Shown
<1>3. CASE pc'[p] # "done"
  <2>1. Shown(p)' = Shown(p)
    BY <1>3 DEF Shown
  <2>2. shown' = shown
    BY <1>2, <2>1
  <2> QED
    BY <1>1, <2>2 DEF Promise!vars, Shown
<1>4. CASE pc'[p] = "done"
  <2>1. shown[p] = [returned |-> FALSE, kept |-> {}, dropped |-> {}]
    BY DEF Shown
  <2>2. /\ kept'[p] \subseteq ListOf(Wanted[p]) \cap runs
        /\ dropped'[p] = ListOf(Wanted[p]) \ kept'[p]
    <3>1. Passed(p)' = DOMAIN Wanted[p]
      BY <1>4 DEF Passed
    <3>2. \A i \in DOMAIN Wanted[p] : Wanted[p][i] \in Design
      BY TableAssumption
    <3>3. kept'[p] \in SUBSET Design /\ dropped'[p] \in SUBSET Design
      BY DEF IInv, TypeOK
    <3>4. \A d \in Design : d \in kept'[p] \cup dropped'[p] <=> \E i \in DOMAIN Wanted[p] : Wanted[p][i] = d
      BY <3>1 DEF CallInv, AccountedFor
    <3>5. kept'[p] \cap dropped'[p] = {} /\ kept'[p] \subseteq runs
      BY DEF CallInv, AccountedFor
    <3> QED
      BY <3>2, <3>3, <3>4, <3>5 DEF ListOf
  <2>3. dropped'[p] \subseteq faulty[p]
    BY DEF IInv, TypeOK, OnlyFailuresAreDropped
  <2>4. shown' = [shown EXCEPT ![p] = [returned |-> TRUE, kept |-> kept'[p],
                                       dropped |-> ListOf(Wanted[p]) \ kept'[p]]]
    <3>1. shown'[p] = [returned |-> TRUE, kept |-> kept'[p], dropped |-> ListOf(Wanted[p]) \ kept'[p]]
      BY <1>4, <2>2 DEF Shown
    <3> QED
      BY <1>2, <3>1
  <2>5. batch[p] = ListOf(Wanted[p]) /\ ran[p] = runs
    OBVIOUS
  <2>6. Promise!Return(p)
    BY <1>1, <2>1, <2>2, <2>3, <2>4, <2>5 DEF Promise!Return, Promise!Pending, Shown
  <2> QED
    BY <2>6 DEF Promise!Next
<1> QED  BY <1>3, <1>4

\* Every call implements the promise of measure_batch, whatever the others write
\* and whoever dies (search.py:189-211).
THEOREM Refinement == Spec => ImplementsMeasureBatch
<1>1. Init => Promise!Init
  BY DEF Init, Promise!Init, Promise!Pending, Shown
<1>2. ASSUME IInv, IInv', CallInv, CallInv', [Next]_vars PROVE [Promise!Next]_(Promise!vars)
  <2>1. CASE UNCHANGED vars \/ Finished
    BY <2>1 DEF Finished, vars, Promise!vars, Shown
  <2>2. ASSUME NEW p \in Process, MainStep(p) \/ Crash(p) PROVE [Promise!Next]_(Promise!vars)
    <3>1. runs' = runs /\ pc[p] # "done"
      BY <2>2 DEF MainStep, LoadTable, TakeCopy, Ask, Ready, Remember, WaitFails, LoadForRow, SaveRow, Crash
    <3>2. Others(p)
      BY <1>2, <2>2, OthersStay
    <3> QED
      BY <1>2, <3>1, <3>2, ReturnsPromise
  <2>3. ASSUME NEW j \in Job, PoolStep(j) PROVE [Promise!Next]_(Promise!vars)
    BY <1>2, <2>3, PoolCall DEF Promise!vars, Shown
  <2> QED
    BY <1>2, <2>1, <2>2, <2>3 DEF Next
<1> QED
  BY <1>1, <1>2, Invariance, CallInvariance, PTL DEF Spec, ImplementsMeasureBatch, Promise!Spec
=============================================================================
