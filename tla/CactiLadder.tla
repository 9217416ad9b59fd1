----------------------------- MODULE CactiLadder -----------------------------
(***************************************************************************)
(* The characterisations of cache shapes that the processes of a run       *)
(* share, council_loop/chip.py:_characterised, _store and energy.  A       *)
(* process keeps a dictionary of rows, one file holds everybody's.  A row  *)
(* written before energy was read carries two fields and is characterised  *)
(* again when energy is asked for.  A store loads the file under a lock,   *)
(* puts everything its process holds over it and renames the result.       *)
(*                                                                         *)
(* CACTI itself is external: it gives the five fields of a shape or        *)
(* nothing.  A row is what its fields allow, not their numbers.            *)
(***************************************************************************)
EXTENDS Integers, FiniteSets

CONSTANTS
  Thread,         \* the threads that ask for a shape's numbers
  Process,        \* the processes they run in
  ProcessOf,      \* ProcessOf[t]: the process of thread t
  Key,            \* the shapes: level, sets, ways, access mode
  Array,          \* the caches CACTI may be run on
  ArraysOf,       \* ArraysOf[k]: those it is run on for shape k, one or two
  Refused,        \* the arrays it cannot build, or not in time
  FilesBefore,    \* what the file may hold before the run
  Requests,       \* Requests[t]: how many requests thread t makes, at most
  MaxCrashes,     \* how many processes may die, at most
  NoOne           \* the holder of a free lock, the key of who asks for none

Row == {"none", "old", "full"}

ASSUME LadderAssumption ==
  /\ ProcessOf \in [Thread -> Process]
  /\ NoOne \notin Thread \cup Key
  /\ ArraysOf \in [Key -> SUBSET Array] /\ Refused \subseteq Array
  /\ FilesBefore \subseteq [Key -> Row]
  /\ Requests \in [Thread -> Nat] /\ MaxCrashes \in Nat

VARIABLES
  file,           \* file[k]: the row of shape k in the file
  memory,         \* memory[p]: _ladder, the rows process p holds
  lock,           \* who holds the lock beside the file
  pc,             \* where thread t is
  key,            \* key[t]: the shape thread t asks for
  energy,         \* energy[t]: it asks for energy, not for time or area
  again,          \* again[t]: it characterises an old row again
  draft,          \* draft[t]: the rows it read from the file, then merged
  got,            \* got[t]: the row its last request was answered from
  asked,          \* asked[t]: how many requests it made
  crashes

vars == <<file, memory, lock, pc, key, energy, again, draft, got, asked, crashes>>
request == <<key, energy, asked>>

NoRows == [k \in Key |-> "none"]

Init ==
  /\ file \in FilesBefore
  /\ memory = [p \in Process |-> NoRows]
  /\ lock = NoOne
  /\ pc = [t \in Thread |-> "idle"]
  /\ key = [t \in Thread |-> NoOne]
  /\ energy = [t \in Thread |-> FALSE]
  /\ again = [t \in Thread |-> FALSE]
  /\ draft = [t \in Thread |-> NoRows]
  /\ got = [t \in Thread |-> "none"]
  /\ asked = [t \in Thread |-> 0]
  /\ crashes = 0

Goto(t, place) == pc' = [pc EXCEPT ![t] = place]

\* dict.update: the rows of new over those of old.
Over(new, old) == [k \in Key |-> IF new[k] # "none" THEN new[k] ELSE old[k]]

Held(t) == memory[ProcessOf[t]]

\* A thread has no rows in hand.
Drop(t) == draft' = [draft EXCEPT ![t] = NoRows]

-----------------------------------------------------------------------------
(***************************************************************************)
(* A request, answered from memory, from the file, or by CACTI.            *)
(***************************************************************************)

Ask(t, k, e) ==
  /\ pc[t] = "idle"
  /\ asked[t] < Requests[t]
  /\ asked' = [asked EXCEPT ![t] = @ + 1]
  /\ key' = [key EXCEPT ![t] = k]
  /\ energy' = [energy EXCEPT ![t] = e]
  /\ got' = [got EXCEPT ![t] = "none"]
  /\ Goto(t, IF Held(t)[k] # "none" THEN "have" ELSE "load")
  /\ UNCHANGED <<file, memory, lock, again, draft, crashes>>

\* The file is read without the lock: a rename left it whole.
Load(t) ==
  /\ pc[t] = "load"
  /\ draft' = [draft EXCEPT ![t] = file]
  /\ Goto(t, "update")
  /\ UNCHANGED <<file, memory, lock, again, got, request, crashes>>

\* What was read goes over what the process holds.
Update(t) ==
  /\ pc[t] = "update"
  /\ LET rows == Over(draft[t], Held(t))
     IN  /\ memory' = [memory EXCEPT ![ProcessOf[t]] = rows]
         /\ Goto(t, IF rows[key[t]] # "none" THEN "have" ELSE "run")
  /\ Drop(t)
  /\ UNCHANGED <<file, lock, again, got, request, crashes>>

\* _run_cacti: five numbers, unless it runs out of time or leaves one out.
CactiBuilds(a) == a \notin Refused

\* A width CACTI does not take is interpolated between the two widths around it.
HasNumbers(k) == \A a \in ArraysOf[k] : CactiBuilds(a)

\* CACTI runs; the row is kept in memory first.
Characterise(t) ==
  /\ pc[t] = "run"
  /\ HasNumbers(key[t])
  /\ memory' = [memory EXCEPT ![ProcessOf[t]][key[t]] = "full"]
  /\ Goto(t, "store")
  /\ UNCHANGED <<file, lock, again, draft, got, request, crashes>>

\* It gives nothing: an error, and no row.
CannotCharacterise(t) ==
  /\ pc[t] = "run"
  /\ ~HasNumbers(key[t])
  /\ again' = [again EXCEPT ![t] = FALSE]
  /\ Goto(t, "idle")
  /\ UNCHANGED <<file, memory, lock, draft, got, request, crashes>>

-----------------------------------------------------------------------------
(***************************************************************************)
(* Storing a row, _store from the lock on.                                 *)
(***************************************************************************)

\* Faulty variant: nobody waits for the lock.
NoLock == TRUE

LockIsFree == lock = NoOne

\* The file is loaded under the lock.
LoadLocked(t) ==
  /\ pc[t] = "store"
  /\ LockIsFree
  /\ lock' = t
  /\ draft' = [draft EXCEPT ![t] = file]
  /\ Goto(t, "merge")
  /\ UNCHANGED <<file, memory, again, got, request, crashes>>

WaitForLock(t) == pc[t] = "store" /\ ~LockIsFree /\ UNCHANGED vars

\* Faulty variant: the file is overwritten, not merged.
HeldOnly(t) == Held(t)

\* Everything the process holds goes over what the file held.
Merged(t) == Over(Held(t), draft[t])

Merge(t) ==
  /\ pc[t] = "merge"
  /\ draft' = [draft EXCEPT ![t] = Merged(t)]
  /\ Goto(t, "save")
  /\ UNCHANGED <<file, memory, lock, again, got, request, crashes>>

Released == NoOne

\* One rename replaces the file, and the lock comes free.
Save(t) ==
  /\ pc[t] = "save"
  /\ file' = draft[t]
  /\ lock' = Released
  /\ Drop(t)
  /\ Goto(t, "have")
  /\ UNCHANGED <<memory, again, got, request, crashes>>

-----------------------------------------------------------------------------
\* energy: a row of two fields, not characterised again yet.
MustRunAgain(t) == energy[t] /\ Held(t)[key[t]] = "old" /\ ~again[t]

RunAgain(t) ==
  /\ pc[t] = "have"
  /\ MustRunAgain(t)
  /\ again' = [again EXCEPT ![t] = TRUE]
  /\ Goto(t, "run")
  /\ UNCHANGED <<file, memory, lock, draft, got, request, crashes>>

\* The fields are taken from the row the process holds now.
Answer(t) ==
  /\ pc[t] = "have"
  /\ ~MustRunAgain(t)
  /\ got' = [got EXCEPT ![t] = Held(t)[key[t]]]
  /\ again' = [again EXCEPT ![t] = FALSE]
  /\ Goto(t, "idle")
  /\ UNCHANGED <<file, memory, lock, draft, request, crashes>>

HasStopped(t) == pc[t] = "idle" /\ asked[t] = Requests[t]

\* A process dies: its dictionary is gone, the kernel drops its lock, the file
\* stays; its run is started over.
Crash(p) ==
  /\ crashes < MaxCrashes
  /\ \E t \in Thread : ProcessOf[t] = p /\ ~HasStopped(t)
  /\ crashes' = crashes + 1
  /\ LET clean(f, v) == [t \in Thread |-> IF ProcessOf[t] = p THEN v ELSE f[t]]
     IN  /\ pc' = clean(pc, "idle")
         /\ again' = clean(again, FALSE)
         /\ draft' = clean(draft, NoRows)
         /\ got' = clean(got, "none")
  /\ memory' = [memory EXCEPT ![p] = NoRows]
  /\ lock' = IF lock # NoOne /\ ProcessOf[lock] = p THEN NoOne ELSE lock
  /\ UNCHANGED <<file, request>>

ThreadStep(t) ==
  \/ \E k \in Key, e \in BOOLEAN : Ask(t, k, e)
  \/ Load(t) \/ Update(t) \/ Characterise(t) \/ CannotCharacterise(t)
  \/ LoadLocked(t) \/ WaitForLock(t) \/ Merge(t) \/ Save(t)
  \/ RunAgain(t) \/ Answer(t)

Finished == (\A t \in Thread : HasStopped(t)) /\ UNCHANGED vars

Next ==
  \/ \E t \in Thread : ThreadStep(t)
  \/ \E p \in Process : Crash(p)
  \/ Finished

Spec == Init /\ [][Next]_vars
=============================================================================
