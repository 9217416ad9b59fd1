------------------------- MODULE ResultTableProperties -------------------------
(***************************************************************************)
(* What the result table must keep to, stated over ResultTable.            *)
(***************************************************************************)
EXTENDS ResultTable

\* Every variable has its type (suite.py:ChampSimProblem, search.py:measure_batch).
TypeOK ==
  /\ runs \in SUBSET Design
  /\ file \in Table
  /\ lock \in Writer \cup {NoOne}
  /\ draft \in [Writer -> Table]
  /\ known \in [Process -> Table]
  /\ job \in [Job -> {"none", "queued", "running", "null", "saveNull", "measured", "crashed",
                      "interrupted"}]
  /\ pc \in [Process -> {"ask", "loaded", "test", "wait", "store", "save", "done"}]
  /\ stage \in [Process -> Stage]
  /\ at \in [Process -> Nat] /\ \A p \in Process : at[p] \in DOMAIN Wanted[p]
  /\ kept \in [Process -> SUBSET Design]
  /\ dropped \in [Process -> SUBSET Design]
  /\ crashes \in 0..MaxCrashes

Settled(row) == row \in {"null", "row"}

\* No writer undoes another's row, whatever the interleaving and the deaths
\* (suite.py:188): what is settled stays as it is, for every design no attempt at
\* which fails for a reason of its own.
SettledForGood ==
  [][\A d \in Design \ Unlucky : Settled(file[d]) => file'[d] = file[d]]_vars

\* What a process was answered is in the table, for the processes after it
\* (suite.py:70-71): nothing it paid for is lost, for the same designs.
AnswersAreStored == \A p \in Process : \A d \in kept[p] \ Unlucky : file[d] = "row"

\* The null rows there are, in the file and in the copies is_candidate reads.
Blamed == {d \in Design : file[d] = "null" \/ \E p \in Process : known[p][d] = "null"}

\* "A kill from outside or the clock: the design is not to blame and the table must
\* not remember it as a crash" (simulate.py:116-117): no step blames a design that
\* runs.  The clock does: README, section 6.
BlameIsDeserved == [][Blamed' \subseteq Blamed \cup (Design \ runs)]_vars

\* A kill from outside alone is never remembered, by the table or by a copy: a null
\* row is of a design that crashes or of one an error hit (suite.py:208-211).
KillsAreNotBlamed == Blamed \cap runs \subseteq Unlucky

\* A failure costs the batch nothing but the design that failed
\* (search.py:192-195): the others are retried and kept.
OnlyFailuresAreDropped ==
  \A p \in Simulating : dropped[p] \subseteq (Design \ runs) \cup Killable \cup Unlucky

\* "Any design the loop may run: ... not crashed anywhere" (suite.py:320): a design
\* this run dropped for a crash is null in the copy is_candidate reads.  A reload may
\* lose it from there: README, section 6.
CrashesAreKnown ==
  \A p \in Simulating : \A d \in dropped[p] \ (runs \cup Killable) : known[p][d] = "null"

\* A pool thread of p is on its way to the file with d's null row.
Storing(p, d) == \E s \in Stage : job[<<p, d, s>>] \in {"null", "saveNull"}

\* A crash is not forgotten (suite.py:198-203), although a reload may lose it from
\* the copy: a design dropped for one, by what a simulation, the file or the copy
\* said, is null in the file, or a thread of the run that dropped it stores it.
CrashIsNotForgotten ==
  \A p \in Simulating : \A d \in dropped[p] \ (runs \cup Killable) :
    file[d] = "null" \/ Storing(p, d)

\* Each process's call implements the promise of measure_batch, whatever the
\* others write and whoever dies (search.py:189-211): a design that is kept ran,
\* one that is dropped failed, and none is in both lists or in neither.
ListOf(seq) == {seq[i] : i \in DOMAIN seq}
Shown(p) == IF pc[p] = "done" THEN [returned |-> TRUE, kept |-> kept[p], dropped |-> dropped[p]]
                              ELSE [returned |-> FALSE, kept |-> {}, dropped |-> {}]
Promise == INSTANCE MeasureBatch WITH
             Call <- Process,
             Batch <- [p \in Process |-> ListOf(Wanted[p])],
             mayRun <- [p \in Process |-> runs],
             mayFail <- [p \in Process |-> IF p \in Simulating THEN (Design \ runs) \cup Killable \cup Unlucky
                                           ELSE Design],
             result <- [p \in Process |-> Shown(p)]

ImplementsMeasureBatch == Promise!Spec

\* Every batch ends, whatever fails in it.
BatchEnds == \A p \in Process : <>[](pc[p] = "done")

-----------------------------------------------------------------------------
(***************************************************************************)
(* The inductive invariant of ResultTableProofs: a writer between its load *)
(* and its save holds the lock and has the file in hand, and every row, in *)
(* the file or on its way there, tells the truth about its design.         *)
(***************************************************************************)

LoadedIsFile ==
  /\ \A p \in Process : pc[p] = "save" <=> lock = p
  /\ \A j \in Job : job[j] = "saveNull" => lock = j
  /\ lock # NoOne => draft[lock] = file

RowsAreTrue ==
  /\ TellsTheTruth(file)
  /\ \A p \in Process : TellsTheTruth(known[p])
  /\ \A w \in Writer : TellsTheTruth(draft[w])
  /\ \A j \in Job : /\ job[j] \in {"null", "saveNull", "crashed"} => j[2] \in Faulty
                    /\ job[j] = "interrupted" => j[2] \in Killable
                    /\ job[j] = "measured" => j[2] \in runs
  /\ \A p \in Process : pc[p] \in {"store", "save"} => Wanted[p][at[p]] \in runs

\* What is loaded and tested is behind the file at most.
CopiedRowsAreOnFile ==
  \A p \in Process : \A d \in Design \ Unlucky :
    /\ pc[p] = "loaded" /\ draft[p][d] = "row" => file[d] = "row"
    /\ pc[p] = "test" /\ known[p][d] = "row" => file[d] = "row"

\* The call was asked, and waits for its answers.
Waits(p) == pc[p] \in {"wait", "store", "save"}

\* The positions whose answers this call waits for.
Positions(p) == IF stage[p] = "batch" THEN DOMAIN Wanted[p] ELSE {at[p]}

\* A position without a simulation was answered from the copy.
NoJobMeansRow ==
  \A p \in Process : Waits(p) =>
    \A i \in Positions(p) :
      (job[<<p, Wanted[p][i], stage[p]>>] = "none" /\ Wanted[p][i] \notin Unlucky)
        => file[Wanted[p][i]] = "row"

KeptHaveRows == \A p \in Process : \A d \in kept[p] \ Unlucky : file[d] = "row"

IInv ==
  /\ TypeOK /\ LoadedIsFile /\ RowsAreTrue /\ CopiedRowsAreOnFile
  /\ NoJobMeansRow /\ KeptHaveRows /\ OnlyFailuresAreDropped

\* What the refinement to MeasureBatch needs besides, of every call: the designs
\* before its place are kept or dropped, once, and those it kept ran.
Passed(p) == {i \in DOMAIN Wanted[p] : pc[p] = "done" \/ i < at[p]}

AccountedFor ==
  \A p \in Process :
    /\ \A d \in Design : d \in kept[p] \cup dropped[p] <=> \E i \in Passed(p) : Wanted[p][i] = d
    /\ kept[p] \cap dropped[p] = {}
    /\ kept[p] \subseteq runs
    /\ stage[p] = "batch" => dropped[p] = {}

\* A position without a simulation has a design that ran before.
NoJobMeansRan ==
  \A p \in Process : Waits(p) =>
    \A i \in Positions(p) :
      job[<<p, Wanted[p][i], stage[p]>>] = "none" => Wanted[p][i] \in runs

CallInv == AccountedFor /\ NoJobMeansRan

\* What CrashIsNotForgotten needs besides: a simulation is submitted once, so that
\* no thread that stores a null row is forgotten; and a null row of a design that
\* cannot run, wherever it was read, is in the file or on its way there.
Asking(p) == pc[p] \in {"ask", "loaded", "test"}

SubmittedOnce(p) ==
  \A i \in DOMAIN Wanted[p] :
    /\ stage[p] = "batch" /\ Asking(p) => job[<<p, Wanted[p][i], "batch">>] = "none"
    /\ stage[p] = "batch" \/ (pc[p] # "done" /\ i > at[p]) \/ (Asking(p) /\ i = at[p])
         => job[<<p, Wanted[p][i], "retry">>] = "none"

JobsAreNew == \A p \in Process : SubmittedOnce(p)

NullsAreStored ==
  /\ \A j \in Job : job[j] = "crashed" /\ j[2] \notin runs => file[j[2]] = "null"
  /\ \A w \in Writer : \A d \in Design \ runs : draft[w][d] = "null" => file[d] = "null"
  /\ \A p \in Process : \A d \in Design \ runs :
       known[p][d] = "null" => file[d] = "null" \/ Storing(p, d)

CrashInv == JobsAreNew /\ NullsAreStored /\ CrashIsNotForgotten
=============================================================================
