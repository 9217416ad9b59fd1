-------------------------- MODULE CactiLadderProofs --------------------------
(***************************************************************************)
(* Proofs about the shared characterisations, for any threads, processes,  *)
(* shapes, files and deaths: no entry of the file is lost, and what CACTI  *)
(* was run for is stored.                                                  *)
(***************************************************************************)
EXTENDS CactiLadderProperties, TLAPS

\* Rows over rows are rows, and hold the shapes of both.
LEMMA OverRows ==
  ASSUME NEW new \in Rows, NEW old \in Rows
  PROVE  /\ Over(new, old) \in Rows
         /\ \A k \in Key : Over(new, old)[k] # "none" <=> (new[k] # "none" \/ old[k] # "none")
         /\ \A k \in Key : new[k] # "none" => Over(new, old)[k] = new[k]
BY DEF Over, Rows, Row

\* The first state: an empty memory, a free lock.
LEMMA InvInit == Init => IInv
<1> SUFFICES ASSUME Init PROVE IInv
  OBVIOUS
<1> USE LadderAssumption DEF Init, NoRows
<1>1. TypeOK
  <2>1. file \in Rows
    BY DEF Rows
  <2> QED
    BY <2>1 DEF TypeOK, Rows, Row
<1>2. WritersHoldTheLock /\ DraftsCoverTheFile /\ RequestsHaveRows
  BY DEF WritersHoldTheLock, DraftsCoverTheFile, RequestsHaveRows
<1>3. PaidForIsStored
  BY DEF PaidForIsStored
<1> QED  BY <1>1, <1>2, <1>3 DEF IInv

\* A request begins.
LEMMA AskKeeps ==
  ASSUME IInv, NEW t \in Thread, NEW k \in Key, NEW e \in BOOLEAN, Ask(t, k, e)
  PROVE  IInv'
<1> USE LadderAssumption DEF IInv, Ask, Goto
<1>1. TypeOK'
  <2>1. asked[t] \in Nat /\ Requests[t] \in Nat /\ asked[t] + 1 <= Requests[t]
    <3>1. asked[t] \in Nat /\ asked[t] < Requests[t]
      BY DEF TypeOK
    <3>2. Requests[t] \in Nat
      BY LadderAssumption
    <3> HIDE DEF IInv, Ask, Goto
    <3> QED
      BY <3>1, <3>2
  <2>2. asked' \in [Thread -> Nat] /\ \A u \in Thread : asked'[u] <= Requests[u]
    BY <2>1 DEF TypeOK
  <2>3. pc' = [pc EXCEPT ![t] = "have"] \/ pc' = [pc EXCEPT ![t] = "load"]
    OBVIOUS
  <2> QED
    BY <2>2, <2>3 DEF TypeOK, Row
<1>2. WritersHoldTheLock' /\ DraftsCoverTheFile'
  BY DEF TypeOK, WritersHoldTheLock, DraftsCoverTheFile, KeysOf
<1>3. RequestsHaveRows'
  BY DEF TypeOK, RequestsHaveRows, Held
<1>4. PaidForIsStored'
  <2>1. \A u \in Thread : pc[u] \in {"store", "merge", "save"} => pc'[u] = pc[u] /\ key'[u] = key[u]
    BY DEF TypeOK
  <2>2. UNCHANGED <<file, memory>> /\ PaidForIsStored
    OBVIOUS
  <2> HIDE DEF IInv, Ask, Goto
  <2> QED  BY <2>1, <2>2 DEF PaidForIsStored
<1> QED  BY <1>1, <1>2, <1>3, <1>4

\* The file is read, with the lock or without it.
LEMMA LoadKeeps ==
  ASSUME IInv, NEW t \in Thread, Load(t) \/ LoadLocked(t) PROVE IInv'
<1> USE LadderAssumption DEF IInv, Load, LoadLocked, LockIsFree, Goto, request
<1>1. TypeOK'
  BY DEF TypeOK
<1>2. WritersHoldTheLock' /\ DraftsCoverTheFile'
  BY DEF TypeOK, WritersHoldTheLock, DraftsCoverTheFile, KeysOf
<1>3. RequestsHaveRows'
  BY DEF TypeOK, RequestsHaveRows, Held
<1>4. PaidForIsStored'
  BY DEF TypeOK, PaidForIsStored
<1> QED  BY <1>1, <1>2, <1>3, <1>4

\* What a process takes from the file it read is in the file now.
LEMMA UpdateKeeps == ASSUME IInv, NEW t \in Thread, Update(t) PROVE IInv'
<1> USE LadderAssumption DEF IInv, Update, Goto, request
<1> DEFINE p == ProcessOf[t]
           rows == Over(draft[t], memory[p])
<1>1. p \in Process /\ draft[t] \in Rows /\ memory[p] \in Rows
  BY DEF TypeOK
<1>2. /\ rows \in Rows
      /\ \A k \in Key : rows[k] # "none" <=> (draft[t][k] # "none" \/ memory[p][k] # "none")
  BY <1>1, OverRows
<1>3. /\ memory' = [memory EXCEPT ![p] = rows]
      /\ pc' = [pc EXCEPT ![t] = IF rows[key[t]] # "none" THEN "have" ELSE "run"]
      /\ draft' = [draft EXCEPT ![t] = NoRows]
      /\ pc[t] = "update"
      /\ UNCHANGED <<file, lock, again, got, key, energy, asked, crashes>>
  BY DEF Held, Drop
<1> HIDE DEF rows, Update
<1>4. TypeOK'
  <2>1. NoRows \in Rows
    BY DEF NoRows, Rows, Row
  <2> QED
    BY <1>1, <1>2, <1>3, <2>1 DEF TypeOK
<1>5. WritersHoldTheLock' /\ DraftsCoverTheFile'
  BY <1>3 DEF TypeOK, WritersHoldTheLock, DraftsCoverTheFile, KeysOf
<1>6. RequestsHaveRows'
  BY <1>1, <1>2, <1>3 DEF TypeOK, RequestsHaveRows, Held
<1>7. PaidForIsStored'
  <2>1. \A k \in Key : draft[t][k] # "none" => file[k] # "none"
    BY <1>3 DEF DraftsCoverTheFile, KeysOf
  <2> QED
    BY <1>1, <1>2, <1>3, <2>1 DEF TypeOK, PaidForIsStored
<1> QED  BY <1>4, <1>5, <1>6, <1>7

\* A row CACTI gave has all its fields, and its thread goes on to store it.
LEMMA CharacteriseKeeps == ASSUME IInv, NEW t \in Thread, Characterise(t) PROVE IInv'
<1> USE LadderAssumption DEF IInv, Characterise, Goto, request
<1>1. ProcessOf[t] \in Process /\ key[t] \in Key
  BY DEF TypeOK, RequestsHaveRows
<1>2. TypeOK'
  BY <1>1 DEF TypeOK, Rows, Row
<1>3. WritersHoldTheLock' /\ DraftsCoverTheFile'
  BY DEF TypeOK, WritersHoldTheLock, DraftsCoverTheFile, KeysOf
<1>4. RequestsHaveRows'
  BY <1>1 DEF TypeOK, Rows, RequestsHaveRows, Held
<1>5. PaidForIsStored'
  BY <1>1 DEF TypeOK, Rows, PaidForIsStored
<1> QED  BY <1>2, <1>3, <1>4, <1>5

\* A thread that neither stores nor writes changes no rows.
LEMMA TurnKeeps ==
  ASSUME IInv, NEW t \in Thread, CannotCharacterise(t) \/ RunAgain(t) \/ Answer(t)
  PROVE  IInv'
<1> USE LadderAssumption DEF IInv, CannotCharacterise, RunAgain, Answer, Goto, request
<1>1. ProcessOf[t] \in Process /\ key[t] \in Key
  BY DEF TypeOK, RequestsHaveRows
<1>2. TypeOK'
  <2>1. Held(t)[key[t]] \in Row
    BY <1>1 DEF TypeOK, Rows, Held
  <2> QED
    BY <2>1 DEF TypeOK
<1>3. WritersHoldTheLock' /\ DraftsCoverTheFile'
  BY DEF TypeOK, WritersHoldTheLock, DraftsCoverTheFile, KeysOf
<1>4. RequestsHaveRows'
  BY DEF TypeOK, RequestsHaveRows, Held
<1>5. PaidForIsStored'
  BY DEF TypeOK, PaidForIsStored
<1> QED  BY <1>2, <1>3, <1>4, <1>5

\* Under the lock the file's rows are merged with the process's.
LEMMA MergeKeeps == ASSUME IInv, NEW t \in Thread, Merge(t) PROVE IInv'
<1> USE LadderAssumption DEF IInv, Merge, Goto, request
<1>1. ProcessOf[t] \in Process /\ key[t] \in Key /\ draft[t] \in Rows /\ Held(t) \in Rows
  BY DEF TypeOK, RequestsHaveRows, Held
<1>2. /\ Merged(t) \in Rows
      /\ \A k \in Key : Merged(t)[k] # "none" <=> (Held(t)[k] # "none" \/ draft[t][k] # "none")
  BY <1>1, OverRows DEF Merged
<1>3. TypeOK'
  BY <1>2 DEF TypeOK
<1>4. WritersHoldTheLock'
  BY DEF TypeOK, WritersHoldTheLock
<1>5. DraftsCoverTheFile'
  <2>1. KeysOf(file) \cup {key[t]} \subseteq KeysOf(Merged(t))
    BY <1>1, <1>2 DEF DraftsCoverTheFile, RequestsHaveRows, KeysOf
  <2> QED
    BY <2>1 DEF TypeOK, DraftsCoverTheFile, KeysOf
<1>6. RequestsHaveRows'
  BY DEF TypeOK, RequestsHaveRows, Held
<1>7. PaidForIsStored'
  BY DEF TypeOK, PaidForIsStored
<1> QED  BY <1>3, <1>4, <1>5, <1>6, <1>7

\* The rename adds shapes to the file and takes none away.
LEMMA SaveGrows ==
  ASSUME IInv, NEW t \in Thread, Save(t)
  PROVE  /\ file' \in Rows
         /\ KeysOf(file) \cup {key[t]} \subseteq KeysOf(file')
BY DEF IInv, TypeOK, Save, DraftsCoverTheFile

\* Nobody else is writing, so nobody's file in hand grows old.
LEMMA SaveKeeps == ASSUME IInv, NEW t \in Thread, Save(t) PROVE IInv'
<1> USE LadderAssumption DEF IInv, Save, Released, Goto, request
<1>1. /\ file' \in Rows
      /\ KeysOf(file) \cup {key[t]} \subseteq KeysOf(file')
  BY SaveGrows
<1>2. NoRows \in Rows
  BY DEF NoRows, Rows, Row
<1>3. TypeOK'
  BY <1>1, <1>2 DEF TypeOK, Drop
<1>4. \A u \in Thread : u # t => pc[u] \notin {"merge", "save"}
  BY DEF WritersHoldTheLock
<1>5. WritersHoldTheLock'
  BY <1>4 DEF TypeOK, WritersHoldTheLock
<1>6. DraftsCoverTheFile'
  BY <1>1, <1>4 DEF TypeOK, DraftsCoverTheFile, Drop
<1>7. RequestsHaveRows'
  BY DEF TypeOK, RequestsHaveRows, Held
<1>8. PaidForIsStored'
  BY <1>1 DEF TypeOK, PaidForIsStored, KeysOf
<1> QED  BY <1>3, <1>5, <1>6, <1>7, <1>8

\* A dead process holds no rows, no request and no lock.
LEMMA CrashKeeps == ASSUME IInv, NEW p \in Process, Crash(p) PROVE IInv'
<1> USE LadderAssumption DEF IInv, Crash, request
<1>1. TypeOK'
  <2>1. NoRows \in Rows /\ "none" \in Row
    BY DEF NoRows, Rows, Row
  <2>2. crashes' \in 0..MaxCrashes
    BY DEF TypeOK
  <2>3. lock' \in Thread \cup {NoOne} /\ memory' \in [Process -> Rows]
    BY <2>1 DEF TypeOK
  <2>4. /\ again' \in [Thread -> BOOLEAN]
        /\ draft' \in [Thread -> Rows]
        /\ got' \in [Thread -> Row]
    BY <2>1 DEF TypeOK
  <2>5. pc' \in [Thread -> {"idle", "load", "update", "run", "store", "merge", "save", "have"}]
    BY DEF TypeOK
  <2> QED
    BY <2>2, <2>3, <2>4, <2>5 DEF TypeOK
<1>2. WritersHoldTheLock' /\ DraftsCoverTheFile'
  BY DEF TypeOK, WritersHoldTheLock, DraftsCoverTheFile, KeysOf
<1>3. RequestsHaveRows'
  BY DEF TypeOK, RequestsHaveRows, Held
<1>4. PaidForIsStored'
  BY DEF TypeOK, PaidForIsStored, NoRows
<1> QED  BY <1>1, <1>2, <1>3, <1>4

\* Every step keeps the inductive invariant.
LEMMA InvStep == IInv /\ [Next]_vars => IInv'
<1> SUFFICES ASSUME IInv, [Next]_vars PROVE IInv'
  OBVIOUS
<1>1. CASE UNCHANGED vars
  BY <1>1 DEF vars, IInv, TypeOK, WritersHoldTheLock, DraftsCoverTheFile, KeysOf, RequestsHaveRows,
     PaidForIsStored, Held
<1>2. ASSUME NEW t \in Thread, ThreadStep(t) PROVE IInv'
  <2>1. CASE WaitForLock(t)
    BY <1>1, <2>1 DEF WaitForLock
  <2> QED
    BY <1>2, <2>1, AskKeeps, LoadKeeps, UpdateKeeps, CharacteriseKeeps, TurnKeeps, MergeKeeps, SaveKeeps
       DEF ThreadStep
<1> QED
  BY <1>1, <1>2, CrashKeeps DEF Next, Finished

-----------------------------------------------------------------------------
\* The inductive invariant holds of every run.
THEOREM Invariance == Spec => []IInv
BY InvInit, InvStep, PTL DEF Spec

\* No store takes another's entry out of the file (chip.py:281-297).
THEOREM EntriesStay == Spec => NoEntryLost
<1>1. IInv /\ [Next]_vars => [\A k \in Key : file[k] # "none" => file'[k] # "none"]_vars
  <2> SUFFICES ASSUME IInv, Next, NEW k \in Key, file[k] # "none" PROVE file'[k] # "none"
    BY DEF vars
  <2>1. CASE UNCHANGED file
    BY <2>1
  <2>2. CASE \E t \in Thread : Save(t)
    BY <2>2, SaveGrows DEF KeysOf
  <2> QED
    BY <2>1, <2>2 DEF Next, ThreadStep, Finished, vars, Ask, Load, Update, Characterise,
       CannotCharacterise, LoadLocked, WaitForLock, Merge, RunAgain, Answer, Crash
<1> QED  BY <1>1, Invariance, PTL DEF Spec, NoEntryLost

\* What a process characterised is in the file or about to be (chip.py:275-297).
THEOREM PaidForStays == Spec => []PaidForIsStored
<1>1. IInv => PaidForIsStored
  BY DEF IInv
<1> QED  BY <1>1, Invariance, PTL
=============================================================================
