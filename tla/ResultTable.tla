------------------------------ MODULE ResultTable ------------------------------
(***************************************************************************)
(* The result table of one workload, council_loop/suite.py:ChampSimProblem *)
(* with search.py:measure_batch above it.  Processes measure a batch each: *)
(* a design with a row in the shared file is answered from it, the others  *)
(* are simulated by a pool of threads.  The main thread writes a result    *)
(* when it waits for it; the thread of a failed simulation writes a null   *)
(* row itself.  A batch of which one design fails is measured again design *)
(* by design, while the threads of the batch go on.                        *)
(*                                                                         *)
(* A write loads the file, changes one row and renames, under a lock.  A   *)
(* call loads the file, makes that its copy and then tests the copy, into  *)
(* which its pool threads put null rows meanwhile.                         *)
(***************************************************************************)
EXTENDS Integers, Sequences, FiniteSets

CONSTANTS
  Process,        \* the runs that share the table
  Design,
  Wanted,         \* Wanted[p]: the batch process p measures
  Simulating,     \* the processes allowed to simulate
  Threads,        \* the threads of a process's pool
  Killable,       \* the designs whose simulation may be killed from outside
  Unlucky,        \* the designs an attempt at which may fail for a reason of its own
  MaxCrashes,     \* how many processes may die, at most
  NoOne           \* the holder of a free lock

Stage == {"batch", "retry"}
Job == Process \X Design \X Stage     \* one simulation: who wants what, and when
Writer == Process \cup Job            \* main threads and pool threads
Row == {"absent", "old", "null", "row"}
Table == [Design -> Row]

ASSUME TableAssumption ==
  /\ \A p \in Process : /\ Wanted[p] \in Seq(Design) /\ Wanted[p] # <<>>
                        /\ \A i, j \in DOMAIN Wanted[p] : Wanted[p][i] = Wanted[p][j] => i = j
  /\ Simulating \subseteq Process
  /\ Threads \in Nat \ {0}
  /\ Killable \subseteq Design /\ Unlucky \subseteq Design
  /\ MaxCrashes \in Nat
  /\ NoOne \notin Writer /\ Process \cap Job = {}

VARIABLES
  runs,           \* the designs the simulator can run
  file,           \* the table on disk
  lock,           \* who holds the lock beside it
  draft,          \* draft[w]: the table w loaded and will save, or take as its copy
  known,          \* known[p]: sweep_table, p's copy of the table
  job,            \* where each simulation is
  pc,             \* where p's main thread is in evaluate_many
  stage, at,      \* the batch or design by design, and the position
  kept, dropped,  \* what measure_batch returns
  crashes

vars == <<runs, file, lock, draft, known, job, pc, stage, at, kept, dropped, crashes>>
disk == <<file, lock, draft>>
call == <<pc, stage, at, kept, dropped>>

NoTable == [d \in Design |-> "absent"]

\* The designs that may raise an error: those that crash the simulator or do not
\* build, and those an error of the machine may hit.
Faulty == (Design \ runs) \cup Unlucky

TellsTheTruth(table) ==
  \A d \in Design : /\ table[d] = "null" => d \in Faulty
                    /\ table[d] = "row" => d \in runs

\* The runs before left some table.
Init ==
  /\ runs \in SUBSET Design
  /\ file \in Table /\ TellsTheTruth(file)
  /\ lock = NoOne
  /\ draft = [w \in Writer |-> NoTable]
  /\ known = [p \in Process |-> file]
  /\ job = [j \in Job |-> "none"]
  /\ pc = [p \in Process |-> "ask"]
  /\ stage = [p \in Process |-> "batch"]
  /\ at = [p \in Process |-> 1]
  /\ kept = [p \in Process |-> {}]
  /\ dropped = [p \in Process |-> {}]
  /\ crashes = 0

\* What one evaluate_many is asked for.
Asked(p) == IF stage[p] = "batch" THEN Wanted[p] ELSE <<Wanted[p][at[p]]>>

-----------------------------------------------------------------------------
(***************************************************************************)
(* The main thread: asking, waiting for the answers in order, retrying.    *)
(***************************************************************************)

\* Faulty variant: the first failure of the retry drops what is left as well.
DropTheRest(p) == dropped[p] \cup {Wanted[p][i] : i \in at[p]..Len(Wanted[p])}

Dropped(p) == dropped[p] \cup {Wanted[p][at[p]]}

\* Faulty variant: the retry does not go on until its design is measured.
AskAgain(p) == pc' = [pc EXCEPT ![p] = "ask"] /\ UNCHANGED at

\* Where design by design goes on after this one.
NextOne(p) ==
  IF at[p] = Len(Wanted[p])
    THEN pc' = [pc EXCEPT ![p] = "done"] /\ UNCHANGED at
    ELSE pc' = [pc EXCEPT ![p] = "ask"] /\ at' = [at EXCEPT ![p] = @ + 1]

\* A failure of the batch starts the retry; one of the retry drops its design.
Failed(p) ==
  /\ IF stage[p] = "batch"
       THEN /\ stage' = [stage EXCEPT ![p] = "retry"]
            /\ kept' = [kept EXCEPT ![p] = {}]
            /\ at' = [at EXCEPT ![p] = 1]
            /\ pc' = [pc EXCEPT ![p] = "ask"]
            /\ UNCHANGED dropped
       ELSE /\ dropped' = [dropped EXCEPT ![p] = Dropped(p)]
            /\ NextOne(p)
            /\ UNCHANGED <<stage, kept>>

\* The main thread has its answer for the design at its position.
Answered(p) ==
  /\ UNCHANGED <<stage, dropped>>
  /\ kept' = [kept EXCEPT ![p] = @ \cup {Wanted[p][at[p]]}]
  /\ IF stage[p] = "batch" /\ at[p] < Len(Wanted[p])
       THEN pc' = [pc EXCEPT ![p] = "wait"] /\ at' = [at EXCEPT ![p] = @ + 1]
       ELSE IF stage[p] = "batch"
              THEN pc' = [pc EXCEPT ![p] = "done"] /\ UNCHANGED at
              ELSE NextOne(p)

Complete(row) == row = "row"

\* The table is loaded again.
LoadTable(p) ==
  /\ pc[p] = "ask"
  /\ draft' = [draft EXCEPT ![p] = file]
  /\ pc' = [pc EXCEPT ![p] = "loaded"]
  /\ UNCHANGED <<runs, file, lock, known, job, stage, at, kept, dropped, crashes>>

\* It becomes the copy: what the pool threads put into the old copy and not yet
\* into the file is gone from it.
TakeCopy(p) ==
  /\ pc[p] = "loaded"
  /\ known' = [known EXCEPT ![p] = draft[p]]
  /\ draft' = [draft EXCEPT ![p] = NoTable]
  /\ pc' = [pc EXCEPT ![p] = "test"]
  /\ UNCHANGED <<runs, file, lock, job, stage, at, kept, dropped, crashes>>

\* A design that crashed before, or that this process may not simulate, is an
\* error of the whole call.
Refuses(p, d) ==
  \/ known[p][d] = "null"
  \/ ~Complete(known[p][d]) /\ p \notin Simulating

\* The designs asked for are looked up in the copy, and the missing ones before
\* the first error go to the pool; an error leaves those running.  One step: no
\* thread writes a row of the copy while it is tested, because before a batch is
\* submitted none runs, and a retry asks for one design.
Ask(p) ==
  /\ pc[p] = "test"
  /\ LET asked == Asked(p)
         NoErrorTo(i) == \A k \in 1..i : ~Refuses(p, asked[k])
         submitted == {<<p, asked[i], stage[p]>> :
                         i \in {k \in DOMAIN asked : NoErrorTo(k) /\ ~Complete(known[p][asked[k]])}}
     IN  /\ job' = [j \in Job |-> IF j \in submitted THEN "queued" ELSE job[j]]
         /\ IF NoErrorTo(Len(asked))
              THEN pc' = [pc EXCEPT ![p] = "wait"] /\ UNCHANGED <<stage, at, kept, dropped>>
              ELSE Failed(p)
  /\ UNCHANGED <<runs, disk, known, crashes>>

MyJob(p) == <<p, Wanted[p][at[p]], stage[p]>>

\* The row was complete when it was asked for.
Ready(p) ==
  /\ pc[p] = "wait"
  /\ job[MyJob(p)] = "none"
  /\ Answered(p)
  /\ UNCHANGED <<runs, disk, known, job, crashes>>

\* The simulation is over: its row goes into the copy, then into the file.
Remember(p) ==
  /\ pc[p] = "wait"
  /\ job[MyJob(p)] = "measured"
  /\ known' = [known EXCEPT ![p][Wanted[p][at[p]]] = "row"]
  /\ pc' = [pc EXCEPT ![p] = "store"]
  /\ UNCHANGED <<runs, disk, job, stage, at, kept, dropped, crashes>>

\* The simulation failed: so does the call.  The threads of the others go on.
WaitFails(p) ==
  /\ pc[p] = "wait"
  /\ job[MyJob(p)] \in {"crashed", "interrupted"}
  /\ Failed(p)
  /\ UNCHANGED <<runs, disk, known, job, crashes>>

-----------------------------------------------------------------------------
(***************************************************************************)
(* Writing one row, by a main thread or a pool thread.                     *)
(***************************************************************************)

\* Faulty variant: two writers load and save at once.
NoLock == TRUE

TableIsFree == lock = NoOne

\* The writer takes the lock and loads the file.
Load(w) ==
  /\ TableIsFree
  /\ lock' = w
  /\ draft' = [draft EXCEPT ![w] = file]
  /\ UNCHANGED file

\* Faulty variant: the process saves its own copy instead of what it loaded.
SaveTheCopy(w, d, row) ==
  /\ file' = [known[IF w \in Process THEN w ELSE w[1]] EXCEPT ![d] = row]
  /\ lock' = NoOne
  /\ draft' = [draft EXCEPT ![w] = NoTable]

\* It saves what it loaded with its one row changed, and lets the lock go.
Save(w, d, row) ==
  /\ file' = [draft[w] EXCEPT ![d] = row]
  /\ lock' = NoOne
  /\ draft' = [draft EXCEPT ![w] = NoTable]

LoadForRow(p) ==
  /\ pc[p] = "store"
  /\ Load(p)
  /\ pc' = [pc EXCEPT ![p] = "save"]
  /\ UNCHANGED <<runs, known, job, stage, at, kept, dropped, crashes>>

SaveRow(p) ==
  /\ pc[p] = "save"
  /\ Save(p, Wanted[p][at[p]], "row")
  /\ Answered(p)
  /\ UNCHANGED <<runs, known, job, crashes>>

-----------------------------------------------------------------------------
(***************************************************************************)
(* The pool threads: simulate_here.                                        *)
(***************************************************************************)

Become(j, state) == job' = [job EXCEPT ![j] = state]

Busy(p) == {j \in Job : j[1] = p /\ job[j] \in {"running", "null", "saveNull"}}

\* The pool starts a simulation when a thread is free.
Start(j) ==
  /\ job[j] = "queued"
  /\ Cardinality(Busy(j[1])) < Threads
  /\ Become(j, "running")
  /\ UNCHANGED <<runs, disk, known, call, crashes>>

\* run_simulation: the statistics of the measured phase; an error when the
\* simulator exits with one or leaves no statistics; or an interruption, when it
\* was killed or ran out of time.
Simulation(d) ==
  (IF d \in runs THEN {"metrics"} ELSE {"error"}) \cup (IF d \in Killable THEN {"interrupted"} ELSE {})

Measured(j) ==
  /\ job[j] = "running"
  /\ "metrics" \in Simulation(j[2])
  /\ Become(j, "measured")
  /\ UNCHANGED <<runs, disk, known, call, crashes>>

\* Faulty variant: the null row goes into the copy only.
CopyOnly == "crashed"

ToTheFile == "null"

NullKnown(j) == [known EXCEPT ![j[1]][j[2]] = "null"]

\* Any exception but an interruption: the design crashed the simulator or did not
\* build, the build ran out of time, the machine failed.  The null row goes into
\* the copy first.
Crashed(j) ==
  /\ job[j] = "running"
  /\ "error" \in Simulation(j[2]) \/ j[2] \in Unlucky
  /\ Become(j, ToTheFile)
  /\ known' = NullKnown(j)
  /\ UNCHANGED <<runs, disk, call, crashes>>

\* Faulty variant: a simulation killed from outside counts as a crash.
ToNullRow == "null"

NotCached == "interrupted"

\* Killed from outside or by the clock: not the design's fault, not cached.
Interrupted(j) ==
  /\ job[j] = "running"
  /\ "interrupted" \in Simulation(j[2])
  /\ Become(j, NotCached)
  /\ UNCHANGED <<runs, disk, known, call, crashes>>

LoadForNull(j) ==
  /\ job[j] = "null"
  /\ Load(j)
  /\ Become(j, "saveNull")
  /\ UNCHANGED <<runs, known, call, crashes>>

SaveNull(j) ==
  /\ job[j] = "saveNull"
  /\ Save(j, j[2], "null")
  /\ Become(j, "crashed")
  /\ UNCHANGED <<runs, known, call, crashes>>

-----------------------------------------------------------------------------
Mine(p, w) == w = p \/ (w \in Job /\ w[1] = p)

\* A process dies with its threads: the kernel drops its lock, what it had not
\* saved is lost, and the run is started over.
Crash(p) ==
  /\ crashes < MaxCrashes
  /\ pc[p] # "done"
  /\ crashes' = crashes + 1
  /\ lock' = IF lock # NoOne /\ Mine(p, lock) THEN NoOne ELSE lock
  /\ draft' = [w \in Writer |-> IF Mine(p, w) THEN NoTable ELSE draft[w]]
  /\ known' = [known EXCEPT ![p] = file]
  /\ job' = [j \in Job |-> IF j[1] = p THEN "none" ELSE job[j]]
  /\ pc' = [pc EXCEPT ![p] = "ask"]
  /\ stage' = [stage EXCEPT ![p] = "batch"]
  /\ at' = [at EXCEPT ![p] = 1]
  /\ kept' = [kept EXCEPT ![p] = {}]
  /\ dropped' = [dropped EXCEPT ![p] = {}]
  /\ UNCHANGED <<runs, file>>

MainStep(p) ==
  \/ LoadTable(p) \/ TakeCopy(p) \/ Ask(p)
  \/ Ready(p) \/ Remember(p) \/ WaitFails(p) \/ LoadForRow(p) \/ SaveRow(p)

PoolStep(j) ==
  Start(j) \/ Measured(j) \/ Crashed(j) \/ Interrupted(j) \/ LoadForNull(j) \/ SaveNull(j)

Finished ==
  /\ \A p \in Process : pc[p] = "done"
  /\ \A j \in Job : job[j] \in {"none", "measured", "crashed", "interrupted"}
  /\ UNCHANGED vars

Next ==
  \/ \E p \in Process : MainStep(p) \/ Crash(p)
  \/ \E j \in Job : PoolStep(j)
  \/ Finished

Spec == Init /\ [][Next]_vars

\* Main threads and pool threads are scheduled, and the kernel hands a free lock
\* to somebody; each writer locks a few times only, so that is enough.
FairSpec ==
  /\ Spec
  /\ \A p \in Process : WF_vars(MainStep(p))
  /\ \A j \in Job : WF_vars(PoolStep(j))
=============================================================================
