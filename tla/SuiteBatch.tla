------------------------------ MODULE SuiteBatch ------------------------------
(***************************************************************************)
(* Measuring a batch on a suite of workloads, council_loop/suite.py:       *)
(* make_suite_problem over search.py:measure_batch.  Every workload has a  *)
(* holder with a table of its own.  The batch is started at each holder in *)
(* turn, and only then waited for: design by design, and for a design      *)
(* workload by workload.  The first failure abandons everything that is    *)
(* under way, and each design is measured again alone.  Other runs write   *)
(* the same tables.  A store, of the copy and of the file, is one step,    *)
(* and so are the reload and the tests of it: ResultTable has the steps,   *)
(* and what falls between them.                                            *)
(***************************************************************************)
EXTENDS Integers, Sequences

CONSTANTS
  Design,
  Suite,          \* the workloads, in order
  Wanted,         \* the batch
  Old,            \* the <<design, workload>> pairs with a row of an older simulator
  Killable        \* the designs whose simulation may be killed from outside

Workload == {Suite[h] : h \in DOMAIN Suite}
Stage == {"batch", "retry"}
Job == Design \X Workload \X Stage
Row == {"absent", "old", "null", "row"}

ASSUME SuiteAssumption ==
  /\ Suite \in Seq(Workload) /\ Suite # <<>>
  /\ \A g, h \in DOMAIN Suite : Suite[g] = Suite[h] => g = h
  /\ Wanted \in Seq(Design) /\ Wanted # <<>>
  /\ \A i, j \in DOMAIN Wanted : Wanted[i] = Wanted[j] => i = j
  /\ Old \subseteq Design \X Workload /\ Killable \subseteq Design

VARIABLES
  simulating,     \* allow_simulation, fixed
  runs,           \* the <<design, workload>> pairs the simulator can run, fixed
  file,           \* file[w]: the table of workload w on disk
  known,          \* known[w]: sweep_table, this run's copy of it
  job,            \* where each simulation of this run is
  phase, stage,   \* where the call is, and whether it is the batch or one design
  at, holder,     \* the design and the workload it is at
  kept, dropped   \* what measure_batch returns

suiteVars == <<simulating, runs, file, known, job, phase, stage, at, holder, kept, dropped>>
given == <<simulating, runs>>
tables == <<file, known>>
call == <<phase, stage, at, holder, kept, dropped>>

SuiteInit ==
  /\ simulating \in BOOLEAN
  /\ runs \in SUBSET (Design \X Workload)
  /\ file = [w \in Workload |-> [d \in Design |-> IF <<d, w>> \in Old THEN "old" ELSE "absent"]]
  /\ known = file
  /\ job = [j \in Job |-> "none"]
  /\ phase = "ask" /\ stage = "batch"
  /\ at = 1 /\ holder = 1
  /\ kept = {} /\ dropped = {}

\* What one evaluate_many is asked for, and the pair it waits for.
Asked == IF stage = "batch" THEN Wanted ELSE <<Wanted[at]>>
AtDesign == Wanted[at]
AtWorkload == Suite[holder]
AtJob == job[<<AtDesign, AtWorkload, stage>>]

\* evaluate of the next design, or the end.
NextOne ==
  /\ holder' = 1
  /\ IF at = Len(Wanted) THEN phase' = "done" /\ UNCHANGED at ELSE phase' = "ask" /\ at' = at + 1

\* A failure of the batch starts the retry; one of the retry drops its design.
Failed ==
  \/ /\ stage = "batch"
     /\ stage' = "retry" /\ kept' = {} /\ at' = 1 /\ holder' = 1 /\ phase' = "ask"
     /\ UNCHANGED dropped
  \/ /\ stage = "retry"
     /\ dropped' = dropped \cup {AtDesign}
     /\ NextOne
     /\ UNCHANGED <<stage, kept>>

\* Faulty variant: a design is kept when its first workload has answered.
OneIsEnough == TRUE

EveryWorkloadAnswered == holder = Len(Suite)

\* One pair is answered; the suite's metrics are made when all of a design are.
PairAnswered ==
  /\ UNCHANGED <<stage, dropped>>
  /\ \/ /\ ~EveryWorkloadAnswered
        /\ holder' = holder + 1
        /\ UNCHANGED <<phase, at, kept>>
     \/ /\ EveryWorkloadAnswered
        /\ kept' = kept \cup {AtDesign}
        /\ IF stage = "batch" /\ at < Len(Wanted)
             THEN holder' = 1 /\ at' = at + 1 /\ UNCHANGED phase
             ELSE IF stage = "batch" THEN phase' = "done" /\ UNCHANGED <<at, holder>> ELSE NextOne

Refuses(w, d) == file[w][d] = "null" \/ (file[w][d] # "row" /\ ~simulating)

\* evaluate_many_async of the holder at hand: its table is loaded, the missing
\* designs before the first error start, and an error leaves running what this
\* holder and those before it started.
Ask ==
  /\ phase = "ask"
  /\ known' = [known EXCEPT ![AtWorkload] = file[AtWorkload]]
  /\ LET w == AtWorkload
         NoErrorTo(i) == \A k \in 1..i : ~Refuses(w, Asked[k])
         submitted == {<<Asked[i], w, stage>> :
                         i \in {k \in DOMAIN Asked : NoErrorTo(k) /\ file[w][Asked[k]] # "row"}}
     IN  /\ job' = [j \in Job |-> IF j \in submitted THEN "running" ELSE job[j]]
         /\ \/ ~NoErrorTo(Len(Asked)) /\ Failed
            \/ /\ NoErrorTo(Len(Asked))
               /\ IF holder < Len(Suite) THEN holder' = holder + 1 /\ UNCHANGED phase
                                         ELSE holder' = 1 /\ phase' = "wait"
               /\ UNCHANGED <<stage, at, kept, dropped>>
  /\ UNCHANGED <<given, file>>

\* The row was complete when it was asked for.
Ready ==
  /\ phase = "wait" /\ AtJob = "none"
  /\ PairAnswered
  /\ UNCHANGED <<given, tables, job>>

\* Faulty variant: the row goes into the copy only.
CopyOnly == file

Stored == [file EXCEPT ![AtWorkload][AtDesign] = "row"]

\* The simulation is over, and its row is stored.
Remember ==
  /\ phase = "wait" /\ AtJob = "measured"
  /\ known' = [known EXCEPT ![AtWorkload][AtDesign] = "row"]
  /\ file' = Stored
  /\ PairAnswered
  /\ UNCHANGED <<given, job>>

WaitFails ==
  /\ phase = "wait" /\ AtJob \in {"crashed", "interrupted"}
  /\ Failed
  /\ UNCHANGED <<given, tables, job>>

-----------------------------------------------------------------------------
Become(j, state) == job[j] = "running" /\ job' = [job EXCEPT ![j] = state]

\* A simulation ends: its metrics wait for the call, a crash stores a null row
\* itself, and a kill leaves none.
Simulated(j) ==
  /\ UNCHANGED <<given, call>>
  /\ \/ <<j[1], j[2]>> \in runs /\ Become(j, "measured") /\ UNCHANGED <<file, known>>
     \/ /\ <<j[1], j[2]>> \notin runs
        /\ Become(j, "crashed")
        /\ known' = [known EXCEPT ![j[2]][j[1]] = "null"]
        /\ file' = [file EXCEPT ![j[2]][j[1]] = "null"]
     \/ j[1] \in Killable /\ Become(j, "interrupted") /\ UNCHANGED <<file, known>>

\* Another run measures a pair this one has no row of.
OtherRun(d, w) ==
  /\ file[w][d] \in {"absent", "old"}
  /\ file' = [file EXCEPT ![w][d] = IF <<d, w>> \in runs THEN "row" ELSE "null"]
  /\ UNCHANGED <<given, known, job, call>>

CallStep == Ask \/ Ready \/ Remember \/ WaitFails

SuiteFinished ==
  /\ phase = "done" /\ \A j \in Job : job[j] # "running"
  /\ UNCHANGED suiteVars

SuiteNext ==
  \/ CallStep
  \/ \E j \in Job : Simulated(j)
  \/ \E d \in Design, w \in Workload : OtherRun(d, w)
  \/ SuiteFinished

SuiteSpec == SuiteInit /\ [][SuiteNext]_suiteVars

-----------------------------------------------------------------------------
(***************************************************************************)
(* What measuring on a suite must keep to.                                 *)
(***************************************************************************)

\* Every variable has its type (suite.py:make_suite_problem, evaluate_many).
SuiteTypeOK ==
  /\ simulating \in BOOLEAN /\ runs \subseteq Design \X Workload
  /\ file \in [Workload -> [Design -> Row]] /\ known \in [Workload -> [Design -> Row]]
  /\ job \in [Job -> {"none", "running", "measured", "crashed", "interrupted"}]
  /\ phase \in {"ask", "wait", "done"} /\ stage \in Stage
  /\ at \in DOMAIN Wanted /\ holder \in DOMAIN Suite
  /\ kept \subseteq Design /\ dropped \subseteq Design

\* Faulty variant: the first table speaks for the suite.
FirstTableOnly(d) == known[Suite[1]][d] # "null"

\* is_candidate: a null row in any table keeps a design out.
IsCandidate(d) == \A w \in Workload : known[w][d] # "null"

\* measured_designs: a row with metrics in every table, an old one too.
MeasuredDesigns == {d \in Design : \A w \in Workload : known[w][d] \in {"old", "row"}}

\* "Every design measured on EVERY workload of the suite" (suite.py:393): what a
\* call kept is among them, with rows of this simulator that are on disk for the
\* runs after it.
KeptIsMeasuredEverywhere ==
  \A d \in kept :
    d \in MeasuredDesigns /\ \A w \in Workload : known[w][d] = "row" /\ file[w][d] = "row"

\* "Not crashed anywhere" (suite.py:320): a design that was dropped for a crash
\* on one of its workloads is not offered again by this run, whatever the tables
\* it reloads since.
CrashAnywhereIsKnown ==
  simulating => \A d \in dropped \ Killable : ~IsCandidate(d)

\* The call implements the promise of measure_batch: a design is kept when it
\* ran on every workload, and dropped when one of them failed.
Fails(d) == \E w \in Workload : <<d, w>> \notin runs
Promise == INSTANCE MeasureBatch WITH
             Call <- {"call"},
             Batch <- [c \in {"call"} |-> {Wanted[i] : i \in DOMAIN Wanted}],
             mayRun <- [c \in {"call"} |-> {d \in Design : ~Fails(d)}],
             mayFail <- [c \in {"call"} |-> {d \in Design : ~simulating \/ d \in Killable \/ Fails(d)}],
             result <- [c \in {"call"} |-> IF phase = "done"
                          THEN [returned |-> TRUE, kept |-> kept, dropped |-> dropped]
                          ELSE [returned |-> FALSE, kept |-> {}, dropped |-> {}]]

ImplementsMeasureBatch == Promise!Spec

-----------------------------------------------------------------------------
(***************************************************************************)
(* The inductive invariant of BuildCacheProofs: what the tables and the    *)
(* jobs say of the simulator, and what the pairs before the call's         *)
(* position have.                                                          *)
(***************************************************************************)

TablesAreTrue ==
  /\ \A d \in Design, w \in Workload :
       /\ known[w][d] \in {"row", "null"} => file[w][d] = known[w][d]
       /\ file[w][d] = "row" => <<d, w>> \in runs
       /\ file[w][d] = "null" => <<d, w>> \notin runs
  /\ \A d \in Design, w \in Workload, s \in Stage :
       /\ job[<<d, w, s>>] = "measured" => <<d, w>> \in runs
       /\ job[<<d, w, s>>] = "crashed" => known[w][d] = "null"
       /\ job[<<d, w, s>>] = "interrupted" => d \in Killable

\* The designs asked for on a workload have a row, or a job of this stage.
Covered(w) ==
  \A i \in DOMAIN Asked : job[<<Asked[i], w, stage>>] = "none" => known[w][Asked[i]] = "row"

AskedAreCovered ==
  /\ phase = "ask" => \A h \in DOMAIN Suite : h < holder => Covered(Suite[h])
  /\ phase = "wait" => \A w \in Workload : Covered(w)
  /\ phase = "wait" => \A h \in DOMAIN Suite : h < holder => known[Suite[h]][AtDesign] = "row"

\* What is kept and dropped is what the call is past.
PastIsSettled ==
  LET past == IF phase = "done" THEN DOMAIN Wanted ELSE {i \in DOMAIN Wanted : i < at}
  IN  /\ kept \cap dropped = {} /\ kept \cup dropped = {Wanted[i] : i \in past}
      /\ stage = "batch" => dropped = {}

SuiteInv ==
  /\ SuiteTypeOK /\ TablesAreTrue /\ AskedAreCovered /\ PastIsSettled
  /\ KeptIsMeasuredEverywhere /\ CrashAnywhereIsKnown
=============================================================================
