--------------------------- MODULE BuildCacheProofs ---------------------------
(***************************************************************************)
(* Proofs about the binary cache, for any threads, processes, binaries and *)
(* trees and any number of deaths.  IInv, the inductive invariant, says    *)
(* that a thread inside a critical section is the one its locks name and   *)
(* that what it is about to publish is whole; the safety properties follow *)
(* from it, and so does the step simulation of the store.                  *)
(*                                                                         *)
(* At the end, for the measuring these builds are for: a call on a suite   *)
(* of workloads, whose module shares no name with this one.                *)
(***************************************************************************)
EXTENDS BuildCacheProperties, SuiteBatch, TLAPS

\* The holders of one binary's lock are one thread (simulate.py:230-231).
LEMMA OneHolder ==
  ASSUME TypeOK, LocksAreHeld,
         NEW t \in Thread, NEW u \in Thread, t # u,
         pc[t] \in HoldsBinary, pc[u] \in HoldsBinary
  PROVE  wants[t] # wants[u]
BY DEF LocksAreHeld

\* No lock is held and no file is there.
LEMMA InvInit == Init => IInv
BY CacheAssumption DEF Init, IInv, TypeOK, LocksAreHeld, WrittenFirst, SharedIsWhole,
     ServedFindsBinary, File, HoldsBinary, InTree

\* A look at the shared file changes nothing but the place of its thread.
LEMMA LookKeeps == ASSUME IInv, NEW t \in Thread, Look(t) PROVE IInv'
<1> USE CacheAssumption DEF Look, Goto, Published, locks, files, IInv
<1>1. TypeOK'
  BY DEF TypeOK, File
<1>2. LocksAreHeld'
  BY DEF TypeOK, LocksAreHeld, HoldsBinary, InTree
<1>3. WrittenFirst'
  BY DEF TypeOK, WrittenFirst, InTree, TemporaryOf
<1>4. (SharedIsWhole /\ ServedFindsBinary)'
  BY DEF TypeOK, SharedIsWhole, ServedFindsBinary, File
<1> QED
  BY <1>1, <1>2, <1>3, <1>4

\* Only a free lock is taken.
LEMMA LockBinaryKeeps == ASSUME IInv, NEW t \in Thread, LockBinary(t) PROVE IInv'
<1> USE CacheAssumption DEF LockBinary, MayLock, Goto, locks, files, IInv
<1>1. TypeOK'
  BY DEF TypeOK
<1>2. LocksAreHeld'
  BY DEF TypeOK, LocksAreHeld, HoldsBinary, InTree
<1>3. WrittenFirst'
  BY DEF TypeOK, WrittenFirst, InTree, TemporaryOf
<1>4. (SharedIsWhole /\ ServedFindsBinary)'
  BY DEF TypeOK, SharedIsWhole, ServedFindsBinary
<1> QED
  BY <1>1, <1>2, <1>3, <1>4

\* A binary found under the lock is whole; one not found is not published.
LEMMA LookAgainKeeps == ASSUME IInv, NEW t \in Thread, LookAgain(t) PROVE IInv'
<1> USE CacheAssumption DEF LookAgain, BuiltBefore, Published, Goto, locks, files, IInv
<1>1. TypeOK'
  BY DEF TypeOK
<1>2. LocksAreHeld'
  BY DEF TypeOK, LocksAreHeld, HoldsBinary, InTree
<1>3. WrittenFirst'
  BY DEF TypeOK, WrittenFirst, InTree, TemporaryOf
<1>4. (SharedIsWhole /\ ServedFindsBinary)'
  BY DEF TypeOK, SharedIsWhole, ServedFindsBinary, File
<1> QED
  BY <1>1, <1>2, <1>3, <1>4

\* Only a free tree is taken.
LEMMA TakeTreeKeeps ==
  ASSUME IInv, NEW t \in Thread, NEW r \in Tree, TakeTree(t, r) PROVE IInv'
<1> USE CacheAssumption DEF TakeTree, FreeTree, Goto, locks, files, IInv
<1>1. TypeOK'
  BY DEF TypeOK
<1>2. LocksAreHeld'
  BY DEF TypeOK, LocksAreHeld, HoldsBinary, InTree
<1>3. WrittenFirst'
  BY DEF TypeOK, WrittenFirst, InTree, TemporaryOf
<1>4. (SharedIsWhole /\ ServedFindsBinary)'
  BY DEF TypeOK, SharedIsWhole, ServedFindsBinary
<1> QED
  BY <1>1, <1>2, <1>3, <1>4

\* Still the holder of the binary's lock, the builder finds what it found.
LEMMA LookInTreeKeeps == ASSUME IInv, NEW t \in Thread, LookInTree(t) PROVE IInv'
<1> USE CacheAssumption DEF LookInTree, BuiltBefore, Published, Goto, locks, files, IInv
<1>1. TypeOK'
  BY DEF TypeOK, File, TemporaryOf
<1>2. LocksAreHeld'
  BY DEF TypeOK, LocksAreHeld, HoldsBinary, InTree
<1>3. WrittenFirst'
  BY DEF TypeOK, WrittenFirst, InTree, TemporaryOf, File, SharedIsWhole
<1>4. (SharedIsWhole /\ ServedFindsBinary)'
  BY DEF TypeOK, SharedIsWhole, ServedFindsBinary, File, WrittenFirst
<1> QED
  BY <1>1, <1>2, <1>3, <1>4

\* A temporary file is opened by the one builder of its binary.
LEMMA BuildSucceedsKeeps == ASSUME IInv, NEW t \in Thread, BuildSucceeds(t) PROVE IInv'
<1> USE CacheAssumption DEF BuildSucceeds, Goto, locks, files, IInv
<1>1. TypeOK'
  BY DEF TypeOK, File, TemporaryOf
<1>2. LocksAreHeld'
  BY DEF TypeOK, LocksAreHeld, HoldsBinary, InTree
<1>3. WrittenFirst'
  <2>1. ASSUME NEW u \in Thread, pc'[u] = "publish"
        PROVE  (temporary[TemporaryOf(u)])' = "whole"
    <3>1. u # t /\ pc[u] = "publish" /\ wants[t] # wants[u]
      BY <2>1, OneHolder DEF TypeOK, HoldsBinary, InTree
    <3> QED
      BY <3>1 DEF TypeOK, WrittenFirst, TemporaryOf
  <2> QED
    BY <2>1 DEF TypeOK, WrittenFirst, InTree
<1>4. (SharedIsWhole /\ ServedFindsBinary)'
  BY DEF TypeOK, SharedIsWhole, ServedFindsBinary, File, WrittenFirst
<1> QED
  BY <1>1, <1>2, <1>3, <1>4

\* A failed build leaves the files as they are.
LEMMA BuildFailsKeeps == ASSUME IInv, NEW t \in Thread, BuildFails(t) PROVE IInv'
<1> USE CacheAssumption DEF BuildFails, Goto, locks, files, IInv
<1>1. TypeOK'
  BY DEF TypeOK, File, TemporaryOf
<1>2. LocksAreHeld'
  BY DEF TypeOK, LocksAreHeld, HoldsBinary, InTree
<1>3. WrittenFirst'
  BY DEF TypeOK, WrittenFirst, InTree, TemporaryOf, File, SharedIsWhole
<1>4. (SharedIsWhole /\ ServedFindsBinary)'
  BY DEF TypeOK, SharedIsWhole, ServedFindsBinary, File, WrittenFirst
<1> QED
  BY <1>1, <1>2, <1>3, <1>4

\* What the builder wrote is whole.
LEMMA WriteKeeps == ASSUME IInv, NEW t \in Thread, Write(t) PROVE IInv'
<1> USE CacheAssumption DEF Write, Goto, locks, files, IInv
<1>1. TypeOK'
  BY DEF TypeOK, File, TemporaryOf
<1>2. LocksAreHeld'
  BY DEF TypeOK, LocksAreHeld, HoldsBinary, InTree
<1>3. WrittenFirst'
  BY DEF TypeOK, WrittenFirst, InTree, TemporaryOf, File, SharedIsWhole
<1>4. (SharedIsWhole /\ ServedFindsBinary)'
  BY DEF TypeOK, SharedIsWhole, ServedFindsBinary, File, WrittenFirst
<1> QED
  BY <1>1, <1>2, <1>3, <1>4

\* The rename publishes a whole file, of a binary nobody else is building.
LEMMA PublishKeeps == ASSUME IInv, NEW t \in Thread, Publish(t) PROVE IInv'
<1> USE CacheAssumption DEF Publish, Goto, locks, files, IInv
<1>1. TypeOK'
  BY DEF TypeOK, File, TemporaryOf
<1>2. LocksAreHeld'
  BY DEF TypeOK, LocksAreHeld, HoldsBinary, InTree
<1>3. WrittenFirst'
  <2>1. /\ temporary[TemporaryOf(t)] = "whole"
        /\ shared' = [shared EXCEPT ![wants[t]] = "whole"]
    BY DEF WrittenFirst
  <2>2. ASSUME NEW u \in Thread, u # t, pc[u] \in {"poll"} \cup InTree
        PROVE  wants[u] # wants[t]
    BY <2>2, OneHolder DEF TypeOK, HoldsBinary, InTree
  <2>3. ASSUME NEW u \in Thread, pc'[u] = "publish"
        PROVE  (temporary[TemporaryOf(u)])' = "whole"
    <3>1. u # t /\ pc[u] = "publish" /\ wants[t] # wants[u]
      BY <2>3, <2>2 DEF TypeOK, InTree
    <3> QED
      BY <3>1 DEF TypeOK, WrittenFirst, TemporaryOf
  <2>4. ASSUME NEW u \in Thread, pc'[u] \in {"poll"} \cup InTree
        PROVE  shared'[wants'[u]] = "none"
    <3>1. u # t /\ pc[u] \in {"poll"} \cup InTree /\ wants[t] # wants[u]
      BY <2>4, <2>2 DEF TypeOK, InTree
    <3> QED
      BY <3>1, <2>1 DEF TypeOK, WrittenFirst
  <2>5. ASSUME NEW u \in Thread, pc'[u] = "leave" PROVE shared'[wants'[u]] = "whole"
    BY <2>1, <2>5 DEF TypeOK, WrittenFirst
  <2> QED
    BY <2>3, <2>4, <2>5 DEF WrittenFirst
<1>4. (SharedIsWhole /\ ServedFindsBinary)'
  BY DEF TypeOK, SharedIsWhole, ServedFindsBinary, File, WrittenFirst
<1> QED
  BY <1>1, <1>2, <1>3, <1>4

\* A thread that leaves its tree was the holder of it.
LEMMA LeaveTreeKeeps == ASSUME IInv, NEW t \in Thread, LeaveTree(t) PROVE IInv'
<1> USE CacheAssumption DEF LeaveTree, FreedTrees, Goto, locks, files, IInv
<1>1. TypeOK'
  BY DEF TypeOK, File, TemporaryOf
<1>2. LocksAreHeld'
  BY DEF TypeOK, LocksAreHeld, HoldsBinary, InTree
<1>3. WrittenFirst'
  BY DEF TypeOK, WrittenFirst, InTree, TemporaryOf, File, SharedIsWhole
<1>4. (SharedIsWhole /\ ServedFindsBinary)'
  BY DEF TypeOK, SharedIsWhole, ServedFindsBinary, File, WrittenFirst
<1> QED
  BY <1>1, <1>2, <1>3, <1>4

\* Who leaves the binary's lock after a build finds it published.
LEMMA LeaveBinaryKeeps == ASSUME IInv, NEW t \in Thread, LeaveBinary(t) PROVE IInv'
<1> USE CacheAssumption DEF LeaveBinary, Goto, locks, files, IInv
<1>1. TypeOK'
  BY DEF TypeOK, File, TemporaryOf
<1>2. LocksAreHeld'
  BY DEF TypeOK, LocksAreHeld, HoldsBinary, InTree
<1>3. WrittenFirst'
  BY DEF TypeOK, WrittenFirst, InTree, TemporaryOf, File, SharedIsWhole
<1>4. (SharedIsWhole /\ ServedFindsBinary)'
  BY DEF TypeOK, SharedIsWhole, ServedFindsBinary, File, WrittenFirst
<1> QED
  BY <1>1, <1>2, <1>3, <1>4

\* A death frees the locks of its threads and those only.
LEMMA CrashKeeps == ASSUME IInv, NEW p \in Process, Crash(p) PROVE IInv'
<1> USE CacheAssumption DEF Crash, AfterDeath, Goto, locks, files, IInv
<1>1. TypeOK'
  BY DEF TypeOK, File, TemporaryOf
<1>2. LocksAreHeld'
  BY DEF TypeOK, LocksAreHeld, HoldsBinary, InTree
<1>3. WrittenFirst'
  BY DEF TypeOK, WrittenFirst, InTree, TemporaryOf, File, SharedIsWhole
<1>4. (SharedIsWhole /\ ServedFindsBinary)'
  BY DEF TypeOK, SharedIsWhole, ServedFindsBinary, File, WrittenFirst
<1> QED
  BY <1>1, <1>2, <1>3, <1>4

-----------------------------------------------------------------------------
\* One step of anybody keeps the invariant (simulate.py:build_binary).
LEMMA StepKeeps == IInv /\ [Next]_vars => IInv'
<1> SUFFICES ASSUME IInv, [Next]_vars PROVE IInv'
  OBVIOUS
<1>1. CASE UNCHANGED vars
  BY <1>1 DEF vars, IInv, TypeOK, LocksAreHeld, WrittenFirst, SharedIsWhole,
       ServedFindsBinary, TemporaryOf
<1>2. ASSUME NEW t \in Thread, ThreadStep(t) PROVE IInv'
  <2>1. CASE PollAgain(t)
    BY <2>1, <1>1 DEF PollAgain
  <2> QED
    BY <2>1, <1>2, LookKeeps, LockBinaryKeeps, LookAgainKeeps, TakeTreeKeeps, LookInTreeKeeps,
       BuildSucceedsKeeps, BuildFailsKeeps, WriteKeeps, PublishKeeps, LeaveTreeKeeps,
       LeaveBinaryKeeps DEF ThreadStep
<1>3. CASE AllFinished
  BY <1>3, <1>1 DEF AllFinished
<1> QED
  BY <1>1, <1>2, <1>3, CrashKeeps DEF Next

\* The inductive invariant holds whatever the interleaving and the deaths.
THEOREM Invariance == Spec => []IInv
BY InvInit, StepKeeps, PTL DEF Spec

\* Two builds never run in one source tree (simulate.py:247).
THEOREM TreesAreExclusive == Spec => []OneBuildPerTree
<1>1. IInv => OneBuildPerTree
  BY CacheAssumption DEF IInv, OneBuildPerTree, LocksAreHeld, InTree
<1> QED
  BY <1>1, Invariance, PTL

\* Two threads never build one binary, so a temporary name has one writer
\* (simulate.py:230-231 and 275).
THEOREM BuildersAreExclusive == Spec => []OneBuilderPerBinary
<1>1. IInv => OneBuilderPerBinary
  BY OneHolder DEF IInv, OneBuilderPerBinary, HoldsBinary
<1> QED
  BY <1>1, Invariance, PTL

\* A shared name never holds part of a binary (simulate.py:275-279).
THEOREM NothingHalfWritten == Spec => []SharedIsWhole
BY Invariance, PTL DEF IInv

\* Who was given the path finds the binary there (simulate.py:226, 244, 268).
THEOREM AnswersAreThere == Spec => []ServedFindsBinary
BY Invariance, PTL DEF IInv

\* A published binary is never built again (simulate.py:214-215).
THEOREM BuiltOnce == Spec => NeverRebuilt
<1> DEFINE Fresh == \A t \in Thread :
               (pc[t] # "build" /\ pc'[t] = "build") => shared[wants[t]] = "none"
<1>1. ASSUME IInv, [Next]_vars PROVE Fresh
  <2> SUFFICES ASSUME NEW t \in Thread, pc[t] # "build", pc'[t] = "build"
               PROVE  pc[t] = "lookInTree"
    BY <1>1 DEF IInv, WrittenFirst, InTree
  <2>1. pc = [u \in Thread |-> pc[u]]
    BY <1>1 DEF IInv, TypeOK
  <2>2. CASE UNCHANGED vars
    BY <2>2 DEF vars
  <2>3. ASSUME NEW u \in Thread, ThreadStep(u) PROVE pc[t] = "lookInTree"
    <3>1. CASE LookInTree(u)
      BY <3>1, <2>1 DEF LookInTree, Goto
    <3> QED
      BY <3>1, <2>1, <2>3 DEF ThreadStep, Look, LockBinary, LookAgain, TakeTree, PollAgain,
           BuildSucceeds, BuildFails, Write, Publish, LeaveTree, LeaveBinary, Goto, vars
  <2>4. ASSUME NEW p \in Process, Crash(p) PROVE FALSE
    BY <2>4, <2>1 DEF Crash
  <2>5. CASE AllFinished
    BY <2>5, <2>2 DEF AllFinished
  <2> QED
    BY <1>1, <2>2, <2>3, <2>4, <2>5 DEF Next
<1>2. ASSUME IInv, [Next]_vars PROVE [Fresh]_vars
  BY <1>1, <1>2
<1> HIDE DEF Fresh
<1>3. Spec => [][Fresh]_vars
  BY <1>2, Invariance, PTL DEF Spec
<1> QED
  BY <1>3 DEF NeverRebuilt, Fresh

-----------------------------------------------------------------------------
(***************************************************************************)
(* The step simulation of BinaryStore.                                     *)
(***************************************************************************)

answerNow ==
  [t \in Thread |-> IF pc[t] = "served" THEN "binary"
                    ELSE IF pc[t] = "refused" THEN "error" ELSE "none"]
storedNow == {b \in Binary : shared[b] = "whole"}

\* A step that neither publishes nor ends a request is a stutter of the store.
LEMMA Silent ==
  ASSUME IInv, NEW t \in Thread, NEW place,
         wants' = wants, shared' = shared,
         pc' = [pc EXCEPT ![t] = place],
         pc[t] \notin Finished, place \notin Finished
  PROVE  UNCHANGED <<wants, storedNow, answerNow>>
BY DEF IInv, TypeOK, storedNow, answerNow, Finished

\* An answer is the store's, given to one thread.
LEMMA Answered ==
  ASSUME IInv, NEW t \in Thread, NEW place \in Finished,
         wants' = wants, shared' = shared,
         pc' = [pc EXCEPT ![t] = place],
         pc[t] \notin Finished,
         place = "served" => shared[wants[t]] = "whole"
  PROVE  Store!Serve(t) \/ Store!Refuse(t)
<1>1. storedNow' = storedNow /\ answerNow[t] = "none"
  BY DEF IInv, TypeOK, storedNow, answerNow, Finished
<1>2. answerNow' = [answerNow EXCEPT ![t] = IF place = "served" THEN "binary" ELSE "error"]
  BY DEF IInv, TypeOK, answerNow, Finished
<1>3. place = "served" => wants[t] \in storedNow
  BY DEF IInv, TypeOK, storedNow
<1>4. CASE place = "served"
  BY <1>1, <1>2, <1>3, <1>4 DEF Store!Serve, storedNow, answerNow
<1>5. CASE place # "served"
  BY <1>1, <1>2, <1>5 DEF Store!Refuse, storedNow, answerNow
<1> QED
  BY <1>4, <1>5

\* The rename stores the binary.
LEMMA PublishStores ==
  ASSUME IInv, NEW t \in Thread, Publish(t) PROVE Store!StoreOne
<1> USE DEF Publish, Goto, TemporaryOf
<1>1. wants[t] \notin storedNow /\ storedNow' = storedNow \cup {wants[t]}
  BY DEF IInv, TypeOK, WrittenFirst, InTree, storedNow, TemporaryOf
<1>2. answerNow' = answerNow /\ answerNow[t] = "none"
  BY DEF IInv, TypeOK, answerNow
<1> QED
  BY <1>1, <1>2 DEF Store!StoreOne, storedNow, answerNow

\* Each step of a thread is a step of the store or a stutter.
LEMMA ThreadSimulates ==
  ASSUME IInv, NEW t \in Thread, ThreadStep(t)
  PROVE  Store!Next \/ UNCHANGED <<wants, storedNow, answerNow>>
<1> USE DEF Goto, locks, files, Finished
<1>1. CASE Look(t) \/ LookAgain(t)
  <2>1. Published(wants[t]) => shared[wants[t]] = "whole"
    BY DEF IInv, TypeOK, SharedIsWhole, Published, File
  <2>2. CASE pc' = [pc EXCEPT ![t] = "served"] /\ Published(wants[t])
    BY <1>1, <2>1, <2>2, Answered DEF Look, LookAgain, Store!Next
  <2>3. CASE pc' = [pc EXCEPT ![t] = "queue"] \/ pc' = [pc EXCEPT ![t] = "poll"]
    BY <1>1, <2>3, Silent DEF Look, LookAgain
  <2> QED
    BY <1>1, <2>2, <2>3 DEF Look, LookAgain, BuiltBefore
<1>2. CASE LockBinary(t) \/ (\E r \in Tree : TakeTree(t, r))
  BY <1>2, Silent DEF LockBinary, TakeTree
<1>3. CASE LookInTree(t)
  <2>1. pc' = [pc EXCEPT ![t] = "leave"] \/ pc' = [pc EXCEPT ![t] = "build"]
    BY <1>3 DEF LookInTree
  <2> QED
    BY <1>3, <2>1, Silent DEF LookInTree
<1>4. CASE BuildSucceeds(t) \/ BuildFails(t) \/ Write(t)
  BY <1>4, Silent DEF BuildSucceeds, BuildFails, Write
<1>5. CASE Publish(t)
  BY <1>5, PublishStores DEF Store!Next
<1>6. CASE LeaveTree(t) \/ PollAgain(t)
  BY <1>6 DEF LeaveTree, PollAgain, vars, storedNow, answerNow
<1>7. CASE LeaveBinary(t)
  <2>1. pc[t] = "leave" => shared[wants[t]] = "whole"
    BY DEF IInv, WrittenFirst
  <2>2. CASE pc[t] = "leave"
    BY <1>7, <2>1, <2>2, Answered DEF LeaveBinary, Store!Next
  <2>3. CASE pc[t] = "fail"
    BY <1>7, <2>3, Answered DEF LeaveBinary, Store!Next
  <2> QED
    BY <1>7, <2>2, <2>3 DEF LeaveBinary
<1> QED
  BY <1>1, <1>2, <1>3, <1>4, <1>5, <1>6, <1>7 DEF ThreadStep

\* A death is the store's loss of one process's answers.
LEMMA CrashSimulates ==
  ASSUME IInv, NEW p \in Process, Crash(p) PROVE Store!StartOver(p)
<1>1. storedNow' = storedNow /\ wants' = wants
  BY DEF Crash, files, storedNow
<1>2. answerNow' = [t \in Thread |-> IF ProcessOf[t] = p THEN "none" ELSE answerNow[t]]
  BY DEF Crash, answerNow, IInv, TypeOK
<1> QED
  BY <1>1, <1>2 DEF Store!StartOver, storedNow, answerNow

\* The locks, the temporary files and the rename implement a store of binaries,
\* deaths included (simulate.py:build_binary).
THEOREM Refinement == Spec => ImplementsBinaryStore
<1>1. Init => Store!Init
  BY DEF Init, Store!Init
<1>2. ASSUME IInv, [Next]_vars PROVE [Store!Next]_(Store!vars)
  <2>1. CASE UNCHANGED vars \/ AllFinished
    BY <2>1 DEF vars, AllFinished, Store!vars
  <2>2. CASE \E t \in Thread : ThreadStep(t)
    BY <1>2, <2>2, ThreadSimulates DEF Store!vars, storedNow, answerNow
  <2>3. CASE \E p \in Process : Crash(p)
    BY <1>2, <2>3, CrashSimulates DEF Store!Next
  <2> QED
    BY <1>2, <2>1, <2>2, <2>3 DEF Next
<1> QED
  BY <1>1, <1>2, Invariance, PTL DEF Spec, ImplementsBinaryStore, Store!Spec

-------------------------------------------------------------------------------
(***************************************************************************)
(* A call on a suite of workloads (SuiteBatch), for any suite, batch,      *)
(* simulator and other runs: a design that is kept has a row on every      *)
(* workload, one dropped for a crash is no candidate again, and the call   *)
(* implements MeasureBatch.                                                *)
(***************************************************************************)

\* The workloads and the designs of the call, by position.
LEMMA SuiteIsListed ==
  /\ Len(Suite) \in Nat \ {0} /\ DOMAIN Suite = 1..Len(Suite)
  /\ \A h \in DOMAIN Suite : Suite[h] \in Workload
  /\ \A w \in Workload : \E h \in DOMAIN Suite : w = Suite[h]
  /\ \A g, h \in DOMAIN Suite : Suite[g] = Suite[h] => g = h
  /\ Len(Wanted) \in Nat \ {0} /\ DOMAIN Wanted = 1..Len(Wanted)
  /\ \A i \in DOMAIN Wanted : Wanted[i] \in Design
  /\ \A i, j \in DOMAIN Wanted : Wanted[i] = Wanted[j] => i = j
<1>1. /\ Suite \in Seq(Workload) /\ Suite # <<>>
      /\ Wanted \in Seq(Design) /\ Wanted # <<>>
      /\ \A g, h \in DOMAIN Suite : Suite[g] = Suite[h] => g = h
      /\ \A i, j \in DOMAIN Wanted : Wanted[i] = Wanted[j] => i = j
  BY SuiteAssumption
<1>2. \A w \in Workload : \E h \in DOMAIN Suite : w = Suite[h]
  BY DEF Workload
<1>3. Len(Suite) # 0 /\ Len(Wanted) # 0
  BY <1>1
<1> HIDE DEF Workload
<1> QED  BY <1>1, <1>2, <1>3

\* What one evaluate_many is asked for.
LEMMA AskedIs ==
  ASSUME SuiteTypeOK
  PROVE  /\ stage \in {"batch", "retry"} /\ at \in DOMAIN Wanted /\ AtDesign \in Design
         /\ stage = "batch" => Asked = Wanted
         /\ stage = "retry" => /\ DOMAIN Asked = {1} /\ Len(Asked) = 1
                               /\ Asked[1] = AtDesign
         /\ Len(Asked) \in Nat /\ DOMAIN Asked = 1..Len(Asked)
         /\ \A i \in DOMAIN Asked : Asked[i] \in Design
         /\ holder \in DOMAIN Suite /\ AtWorkload \in Workload
<1>1. stage \in {"batch", "retry"} /\ at \in DOMAIN Wanted /\ holder \in DOMAIN Suite
  BY DEF SuiteTypeOK, Stage
<1>2. AtDesign \in Design /\ AtWorkload \in Workload
  BY <1>1, SuiteIsListed DEF AtDesign, AtWorkload
<1>3. stage = "batch" => Asked = Wanted
  BY DEF Asked
<1>4. stage = "retry" => Asked = <<AtDesign>>
  BY DEF Asked, AtDesign
<1>5. CASE stage = "batch"
  BY <1>1, <1>2, <1>3, <1>5, SuiteIsListed
<1>6. CASE stage = "retry"
  <2>1. Asked = <<AtDesign>>
    BY <1>4, <1>6
  <2>2. Len(Asked) = 1 /\ Asked[1] = AtDesign /\ DOMAIN Asked = {1} /\ {1} = 1..1
    BY <2>1
  <2> QED  BY <1>1, <1>2, <1>6, <2>2
<1> QED  BY <1>1, <1>5, <1>6

\* Nothing is kept or dropped before the first table is loaded.
LEMMA SuiteStarts == ASSUME SuiteInit PROVE SuiteInv
<1> USE DEF SuiteInit
<1>1. SuiteTypeOK
  <2>1. 1 \in DOMAIN Wanted /\ 1 \in DOMAIN Suite
    BY SuiteIsListed
  <2>2. file \in [Workload -> [Design -> Row]]
    BY DEF Row
  <2> QED  BY <2>1, <2>2 DEF SuiteTypeOK, Stage
<1>2. TablesAreTrue
  BY DEF TablesAreTrue, Job
<1>3. AskedAreCovered
  BY SuiteIsListed DEF AskedAreCovered
<1>4. PastIsSettled
  <2>1. {i \in DOMAIN Wanted : i < 1} = {}
    BY SuiteIsListed
  <2> QED  BY <2>1 DEF PastIsSettled
<1>5. KeptIsMeasuredEverywhere /\ CrashAnywhereIsKnown
  BY DEF KeptIsMeasuredEverywhere, CrashAnywhereIsKnown
<1> QED  BY <1>1, <1>2, <1>3, <1>4, <1>5 DEF SuiteInv

\* The rows a step leaves as they are: those of this simulator.
RowsStay ==
  \A d \in Design, w \in Workload :
    /\ known[w][d] \in {"row", "null"} => known'[w][d] = known[w][d]
    /\ file[w][d] \in {"row", "null"} => file'[w][d] = file[w][d]

\* No job is forgotten.
JobsStay == \A d \in Design, w \in Workload, s \in Stage : job'[<<d, w, s>>] = "none" => job[<<d, w, s>>] = "none"

\* What was kept and dropped stays measured and known.
LEMMA KeptStays ==
  ASSUME SuiteTypeOK, KeptIsMeasuredEverywhere, RowsStay, NEW d \in kept
  PROVE  \A w \in Workload : known'[w][d] = "row" /\ file'[w][d] = "row"
BY DEF RowsStay, KeptIsMeasuredEverywhere, SuiteTypeOK

\* A crash that was marked stays marked.
LEMMA DroppedStays ==
  ASSUME SuiteTypeOK, CrashAnywhereIsKnown, RowsStay, simulating, NEW d \in dropped \ Killable
  PROVE  \E w \in Workload : known'[w][d] = "null"
BY DEF RowsStay, CrashAnywhereIsKnown, IsCandidate, SuiteTypeOK

\* A design asked for before is still covered.
LEMMA CoveredStays ==
  ASSUME SuiteTypeOK, RowsStay, JobsStay, NEW w \in Workload, Covered(w),
         NEW i \in DOMAIN Asked, job'[<<Asked[i], w, stage>>] = "none"
  PROVE  known'[w][Asked[i]] = "row"
<1>1. Asked[i] \in Design /\ stage \in Stage
  BY AskedIs DEF SuiteTypeOK
<1>2. job[<<Asked[i], w, stage>>] = "none"
  BY <1>1 DEF JobsStay
<1>3. known[w][Asked[i]] = "row"
  BY <1>2 DEF Covered
<1> QED  BY <1>1, <1>3 DEF RowsStay

\* The kept and the dropped of the next state, put back together.
LEMMA KeptAgain ==
  ASSUME \A d \in kept' : \A w \in Workload : known'[w][d] = "row" /\ file'[w][d] = "row", SuiteTypeOK'
  PROVE  KeptIsMeasuredEverywhere'
<1>1. \A d \in kept' : d \in Design
  BY DEF SuiteTypeOK
<1> QED  BY <1>1 DEF KeptIsMeasuredEverywhere, MeasuredDesigns, Workload

\* The dropped are no candidates when each has a null row.
LEMMA DroppedAgain ==
  ASSUME simulating' => \A d \in dropped' \ Killable : \E w \in Workload : known'[w][d] = "null"
  PROVE  CrashAnywhereIsKnown'
BY DEF CrashAnywhereIsKnown, IsCandidate, Workload

\* A step of which the call takes no notice.
LEMMA BesidesTheCall ==
  ASSUME SuiteInv, RowsStay, JobsStay, TablesAreTrue', SuiteTypeOK',
         UNCHANGED <<simulating, phase, stage, at, holder, kept, dropped>>
  PROVE  SuiteInv'
<1> USE DEF SuiteInv
<1>1. \A w \in Workload : Covered(w) =>
        \A i \in DOMAIN Asked : job'[<<Asked[i], w, stage>>] = "none" => known'[w][Asked[i]] = "row"
  BY CoveredStays
<1>2. Asked' = Asked /\ AtDesign' = AtDesign
  BY DEF Asked, AtDesign
<1>3. AskedAreCovered'
  <2>1. phase = "ask" => \A h \in DOMAIN Suite : h < holder => Covered(Suite[h])'
    BY <1>1, <1>2, SuiteIsListed DEF AskedAreCovered, Covered
  <2>2. phase = "wait" => \A w \in Workload : Covered(w)'
    BY <1>1, <1>2 DEF AskedAreCovered, Covered
  <2>3. phase = "wait" => \A h \in DOMAIN Suite : h < holder => known'[Suite[h]][AtDesign] = "row"
    BY AskedIs, SuiteIsListed DEF AskedAreCovered, RowsStay
  <2> QED  BY <1>2, <2>1, <2>2, <2>3 DEF AskedAreCovered, Workload
<1>4. PastIsSettled'
  BY DEF PastIsSettled
<1>5. KeptIsMeasuredEverywhere' /\ CrashAnywhereIsKnown'
  BY KeptStays, KeptAgain, DroppedStays, DroppedAgain
<1> QED  BY <1>3, <1>4, <1>5

\* A failure leaves nothing to be covered: the call asks anew, or it is over.
LEMMA FailedSettles ==
  ASSUME SuiteTypeOK, PastIsSettled, phase # "done", Failed
  PROVE  /\ phase' \in {"ask", "done"} /\ stage' \in Stage
         /\ at' \in DOMAIN Wanted /\ holder' \in DOMAIN Suite
         /\ kept' \subseteq kept
         /\ dropped' = dropped \/ (stage = "retry" /\ dropped' = dropped \cup {AtDesign})
         /\ AskedAreCovered' /\ PastIsSettled'
<1> DEFINE past == {i \in DOMAIN Wanted : i < at}
<1>1. /\ kept \cap dropped = {} /\ kept \cup dropped = {Wanted[i] : i \in past}
      /\ stage = "batch" => dropped = {}
  BY DEF PastIsSettled
<1>2. holder' = 1 /\ 1 \in DOMAIN Suite /\ 1 \in DOMAIN Wanted /\ phase' \in {"ask", "done"}
  BY SuiteIsListed DEF Failed, NextOne
<1>3. AskedAreCovered'
  <2>1. \A h \in DOMAIN Suite : ~(h < 1)
    BY SuiteIsListed
  <2> QED  BY <1>2, <2>1 DEF AskedAreCovered
<1>4. CASE stage = "batch"
  <2>1. stage' = "retry" /\ kept' = {} /\ at' = 1 /\ phase' = "ask" /\ dropped' = dropped
    BY <1>4 DEF Failed
  <2>2. {i \in DOMAIN Wanted : i < 1} = {}
    BY SuiteIsListed
  <2>3. PastIsSettled'
    BY <1>1, <1>4, <2>1, <2>2 DEF PastIsSettled
  <2> QED  BY <1>2, <1>3, <2>1, <2>3 DEF Stage
<1>5. CASE stage = "retry"
  <2>1. /\ stage' = stage /\ kept' = kept /\ dropped' = dropped \cup {AtDesign}
        /\ IF at = Len(Wanted) THEN phase' = "done" /\ at' = at ELSE phase' = "ask" /\ at' = at + 1
    BY <1>5 DEF Failed, NextOne
  <2>2. at \in DOMAIN Wanted /\ at \in Nat /\ AtDesign = Wanted[at]
    BY SuiteIsListed DEF SuiteTypeOK, AtDesign
  <2>3. AtDesign \notin kept
    BY <1>1, <2>2, SuiteIsListed
  <2>4. at' \in DOMAIN Wanted
    BY <2>1, <2>2, SuiteIsListed
  <2>5. kept' \cup dropped' = {Wanted[i] : i \in past \cup {at}} /\ kept' \cap dropped' = {}
    BY <1>1, <2>1, <2>2, <2>3
  <2>6. CASE at = Len(Wanted)
    <3>1. past \cup {at} = DOMAIN Wanted
      BY <2>2, <2>6, SuiteIsListed
    <3> QED  BY <1>2, <1>3, <1>5, <2>1, <2>4, <2>5, <2>6, <3>1 DEF PastIsSettled, Stage
  <2>7. CASE at # Len(Wanted)
    <3>1. past \cup {at} = {i \in DOMAIN Wanted : i < at + 1}
      BY <2>2, SuiteIsListed
    <3>2. at' = at + 1 /\ phase' = "ask" /\ stage' = "retry"
      BY <1>5, <2>1, <2>7
    <3>3. PastIsSettled'
      BY <2>5, <3>1, <3>2 DEF PastIsSettled
    <3> QED  BY <1>2, <1>3, <1>5, <2>1, <2>4, <3>2, <3>3 DEF Stage
  <2> QED  BY <2>6, <2>7
<1> QED  BY <1>4, <1>5, AskedIs

\* A pair is answered: the next workload's, the next design's, or the end.
LEMMA AnsweredSettles ==
  ASSUME SuiteInv, phase = "wait", PairAnswered, RowsStay, JobsStay,
         known'[AtWorkload][AtDesign] = "row", UNCHANGED simulating
  PROVE  /\ phase' \in {"ask", "wait", "done"} /\ stage' = stage
         /\ at' \in DOMAIN Wanted /\ holder' \in DOMAIN Suite
         /\ kept' \in {kept, kept \cup {AtDesign}} /\ dropped' = dropped
         /\ AskedAreCovered' /\ PastIsSettled'
         /\ kept' # kept => \A w \in Workload : known'[w][AtDesign] = "row"
<1> DEFINE past == {i \in DOMAIN Wanted : i < at}
<1> USE DEF SuiteInv
<1>1. /\ kept \cap dropped = {} /\ kept \cup dropped = {Wanted[i] : i \in past}
      /\ stage = "batch" => dropped = {}
  BY DEF PastIsSettled
<1>2. /\ stage' = stage /\ dropped' = dropped
      /\ at \in DOMAIN Wanted /\ at \in Nat /\ AtDesign = Wanted[at] /\ AtDesign \in Design
      /\ holder \in DOMAIN Suite /\ holder \in Nat /\ AtWorkload = Suite[holder]
      /\ 1 \in DOMAIN Suite
  BY AskedIs, SuiteIsListed DEF PairAnswered, AtDesign, AtWorkload
<1>3. \A h \in DOMAIN Suite : h <= holder => known'[Suite[h]][AtDesign] = "row"
  <2> SUFFICES ASSUME NEW h \in DOMAIN Suite, h <= holder PROVE known'[Suite[h]][AtDesign] = "row"
    OBVIOUS
  <2>1. CASE h < holder
    <3>1. known[Suite[h]][AtDesign] = "row" /\ Suite[h] \in Workload
      BY <2>1, SuiteIsListed DEF AskedAreCovered
    <3> QED  BY <1>2, <3>1 DEF RowsStay
  <2>2. CASE h = holder
    BY <1>2, <2>2
  <2> QED  BY <1>2, <2>1, <2>2, SuiteIsListed
<1>4. ASSUME Asked' = Asked
      PROVE  \A w \in Workload : Covered(w)'
  BY <1>2, <1>4, CoveredStays DEF AskedAreCovered, Covered
<1>5. CASE ~EveryWorkloadAnswered
  <2>1. holder' = holder + 1 /\ phase' = "wait" /\ at' = at /\ kept' = kept /\ holder # Len(Suite)
    BY <1>5 DEF PairAnswered, EveryWorkloadAnswered
  <2>2. holder' \in DOMAIN Suite
    BY <1>2, <2>1, SuiteIsListed
  <2>3. Asked' = Asked /\ AtDesign' = AtDesign
    BY <1>2, <2>1 DEF Asked, AtDesign
  <2>4. \A h \in DOMAIN Suite : h < holder + 1 => known'[Suite[h]][AtDesign] = "row"
    BY <1>2, <1>3, SuiteIsListed
  <2>5. AskedAreCovered'
    BY <1>4, <2>1, <2>3, <2>4 DEF AskedAreCovered, Workload
  <2>6. PastIsSettled'
    BY <1>2, <2>1 DEF PastIsSettled
  <2> QED  BY <1>2, <2>1, <2>2, <2>5, <2>6
<1>6. CASE EveryWorkloadAnswered
  <2>1. /\ kept' = kept \cup {AtDesign} /\ holder = Len(Suite)
        /\ \/ stage = "batch" /\ at < Len(Wanted) /\ holder' = 1 /\ at' = at + 1 /\ phase' = "wait"
           \/ at = Len(Wanted) /\ phase' = "done" /\ at' = at /\ holder' \in {1, holder}
           \/ stage = "retry" /\ at # Len(Wanted) /\ holder' = 1 /\ phase' = "ask" /\ at' = at + 1
    <3>1. at = Len(Wanted) \/ at < Len(Wanted)
      BY <1>2, SuiteIsListed
    <3> QED  BY <1>6, <3>1, AskedIs DEF PairAnswered, EveryWorkloadAnswered, NextOne
  <2>2. \A w \in Workload : known'[w][AtDesign] = "row"
    BY <1>3, <2>1, SuiteIsListed
  <2>3. at' \in DOMAIN Wanted /\ holder' \in DOMAIN Suite
    BY <1>2, <2>1, SuiteIsListed
  <2>4. AskedAreCovered'
    <3>1. \A h \in DOMAIN Suite : ~(h < 1)
      BY SuiteIsListed
    <3>2. stage = "batch" => Asked' = Asked
      BY <1>2 DEF Asked
    <3> QED  BY <1>4, <2>1, <3>1, <3>2 DEF AskedAreCovered, Workload
  <2>5. PastIsSettled'
    <3>1. AtDesign \notin dropped
      BY <1>1, <1>2, SuiteIsListed
    <3>2. kept' \cup dropped' = {Wanted[i] : i \in past \cup {at}} /\ kept' \cap dropped' = {}
      BY <1>1, <1>2, <2>1, <3>1
    <3>3. CASE phase' = "done"
      <4>1. past \cup {at} = DOMAIN Wanted
        BY <1>2, <2>1, <3>3, SuiteIsListed
      <4> QED  BY <1>1, <1>2, <3>2, <3>3, <4>1 DEF PastIsSettled
    <3>4. CASE phase' # "done"
      <4>1. at' = at + 1 /\ past \cup {at} = {i \in DOMAIN Wanted : i < at + 1}
        BY <1>2, <2>1, <3>4, SuiteIsListed
      <4> QED  BY <1>1, <1>2, <3>2, <3>4, <4>1 DEF PastIsSettled
    <3> QED  BY <3>3, <3>4
  <2> QED  BY <1>2, <2>1, <2>2, <2>3, <2>4, <2>5
<1> QED  BY <1>5, <1>6

\* A failure keeps the invariant, when the design it drops has a null row.
LEMMA FailureKeeps ==
  ASSUME SuiteInv, phase # "done", Failed, RowsStay,
         UNCHANGED <<simulating, runs>>, TablesAreTrue',
         file' \in [Workload -> [Design -> Row]], known' \in [Workload -> [Design -> Row]],
         job' \in [Job -> {"none", "running", "measured", "crashed", "interrupted"}],
         simulating /\ stage = "retry" /\ AtDesign \notin Killable =>
           \E w \in Workload : known'[w][AtDesign] = "null"
  PROVE  SuiteInv'
<1> USE DEF SuiteInv
<1>1. /\ phase' \in {"ask", "done"} /\ stage' \in Stage
      /\ at' \in DOMAIN Wanted /\ holder' \in DOMAIN Suite
      /\ kept' \subseteq kept
      /\ dropped' = dropped \/ (stage = "retry" /\ dropped' = dropped \cup {AtDesign})
      /\ AskedAreCovered' /\ PastIsSettled'
  BY FailedSettles
<1>2. SuiteTypeOK'
  BY <1>1, AskedIs DEF SuiteTypeOK, Workload, Row, Job, Stage
<1>3. KeptIsMeasuredEverywhere'
  BY <1>1, <1>2, KeptStays, KeptAgain
<1>4. CrashAnywhereIsKnown'
  BY <1>1, DroppedStays, DroppedAgain
<1> QED  BY <1>1, <1>2, <1>3, <1>4

\* So does an answer, when its row is on disk.
LEMMA AnswerKeeps ==
  ASSUME SuiteInv, phase = "wait", PairAnswered, RowsStay, JobsStay,
         UNCHANGED <<simulating, runs>>, TablesAreTrue',
         file' \in [Workload -> [Design -> Row]], known' \in [Workload -> [Design -> Row]],
         job' \in [Job -> {"none", "running", "measured", "crashed", "interrupted"}],
         known'[AtWorkload][AtDesign] = "row"
  PROVE  SuiteInv'
<1> USE DEF SuiteInv
<1>1. /\ phase' \in {"ask", "wait", "done"} /\ stage' = stage
      /\ at' \in DOMAIN Wanted /\ holder' \in DOMAIN Suite
      /\ kept' \in {kept, kept \cup {AtDesign}} /\ dropped' = dropped
      /\ AskedAreCovered' /\ PastIsSettled'
      /\ kept' # kept => \A w \in Workload : known'[w][AtDesign] = "row"
  BY AnsweredSettles
<1>2. SuiteTypeOK'
  BY <1>1, AskedIs DEF SuiteTypeOK, Workload, Row, Job, Stage
<1>3. KeptIsMeasuredEverywhere'
  <2>1. ASSUME kept' # kept PROVE \A w \in Workload : file'[w][AtDesign] = "row"
    BY <1>1, <2>1, AskedIs DEF TablesAreTrue, Workload
  <2>2. \A d \in kept' : \A w \in Workload : known'[w][d] = "row" /\ file'[w][d] = "row"
    BY <1>1, <2>1, KeptStays
  <2> QED  BY <1>2, <2>2, KeptAgain
<1>4. CrashAnywhereIsKnown'
  BY <1>1, DroppedStays, DroppedAgain
<1> QED  BY <1>1, <1>2, <1>3, <1>4

\* A holder's table is loaded, and what it has no row of is started.
LEMMA SuiteAskKeeps == ASSUME SuiteInv, Ask PROVE SuiteInv'
<1> DEFINE w == AtWorkload
           NoErrorTo(i) == \A k \in 1..i : ~Refuses(w, Asked[k])
           submitted == {<<Asked[i], w, stage>> :
                           i \in {k \in DOMAIN Asked : NoErrorTo(k) /\ file[w][Asked[k]] # "row"}}
<1> USE DEF SuiteInv
<1>1. /\ phase = "ask" /\ known' = [known EXCEPT ![w] = file[w]] /\ UNCHANGED <<simulating, runs, file>>
      /\ job' = [j \in Job |-> IF j \in submitted THEN "running" ELSE job[j]]
  BY DEF Ask, given
<1>2. \/ ~NoErrorTo(Len(Asked)) /\ Failed
      \/ /\ NoErrorTo(Len(Asked))
         /\ IF holder < Len(Suite) THEN holder' = holder + 1 /\ phase' = phase ELSE holder' = 1 /\ phase' = "wait"
         /\ UNCHANGED <<stage, at, kept, dropped>>
  BY DEF Ask
<1>3. /\ w \in Workload /\ known \in [Workload -> [Design -> Row]]
      /\ file \in [Workload -> [Design -> Row]]
      /\ stage \in Stage /\ phase # "done"
  BY <1>1, AskedIs DEF SuiteTypeOK
<1>33. holder \in DOMAIN Suite
  BY AskedIs
<1> HIDE DEF w, submitted
<1>4. /\ \A v \in Workload : known'[v] = IF v = w THEN file[w] ELSE known[v]
      /\ known' \in [Workload -> [Design -> Row]]
      /\ job' \in [Job -> {"none", "running", "measured", "crashed", "interrupted"}]
  BY <1>1, <1>3 DEF SuiteTypeOK
<1>5. \A d \in Design, v \in Workload, s \in Stage : job'[<<d, v, s>>] \in {"running", job[<<d, v, s>>]}
  BY <1>1 DEF Job
<1>31. /\ \A d \in Design, v \in Workload :
           /\ known[v][d] \in {"row", "null"} => file[v][d] = known[v][d]
           /\ file[v][d] = "row" => <<d, v>> \in runs
           /\ file[v][d] = "null" => <<d, v>> \notin runs
      /\ \A d \in Design, v \in Workload, s \in Stage :
           /\ job[<<d, v, s>>] = "measured" => <<d, v>> \in runs
           /\ job[<<d, v, s>>] = "crashed" => known[v][d] = "null"
           /\ job[<<d, v, s>>] = "interrupted" => d \in Killable
  BY DEF TablesAreTrue
<1>32. ASSUME NEW d \in Design, NEW v \in Workload
       PROVE  known'[v][d] = file[v][d] \/ known'[v][d] = known[v][d]
  BY <1>4
<1>6. RowsStay
  <2> HIDE DEF SuiteInv
  <2> QED  BY <1>1, <1>31, <1>32 DEF RowsStay
<1>7. JobsStay
  BY <1>5 DEF JobsStay
<1>8. TablesAreTrue'
  <2>1. \A d \in Design, v \in Workload :
          /\ known'[v][d] \in {"row", "null"} => file[v][d] = known'[v][d]
          /\ file[v][d] = "row" => <<d, v>> \in runs
          /\ file[v][d] = "null" => <<d, v>> \notin runs
    <3> HIDE DEF SuiteInv
    <3> QED  BY <1>31, <1>32
  <2>2. \A d \in Design, v \in Workload, s \in Stage :
          /\ job'[<<d, v, s>>] = "measured" => <<d, v>> \in runs
          /\ job'[<<d, v, s>>] = "crashed" => known'[v][d] = "null"
          /\ job'[<<d, v, s>>] = "interrupted" => d \in Killable
    <3> HIDE DEF SuiteInv
    <3> SUFFICES ASSUME NEW d \in Design, NEW v \in Workload, NEW s \in Stage,
                        job'[<<d, v, s>>] # "running"
                 PROVE  /\ job'[<<d, v, s>>] = "measured" => <<d, v>> \in runs
                        /\ job'[<<d, v, s>>] = "crashed" => known'[v][d] = "null"
                        /\ job'[<<d, v, s>>] = "interrupted" => d \in Killable
      OBVIOUS
    <3>1. job'[<<d, v, s>>] = job[<<d, v, s>>]
      BY <1>5
    <3>2. known[v][d] = "null" => known'[v][d] = "null"
      BY <1>6 DEF RowsStay
    <3> QED  BY <1>31, <3>1, <3>2
  <2> HIDE DEF SuiteInv
  <2> QED  BY <1>1, <2>1, <2>2 DEF TablesAreTrue, Workload
<1>9. CASE ~NoErrorTo(Len(Asked)) /\ Failed
  <2>1. ASSUME simulating, stage = "retry" PROVE known'[w][AtDesign] = "null"
    <3>1. Refuses(w, AtDesign)
      BY <1>9, <2>1, AskedIs
    <3>2. file[w][AtDesign] = "null"
      BY <2>1, <3>1 DEF Refuses
    <3> QED  BY <1>3, <1>4, <3>2
  <2> QED  BY <1>1, <1>3, <1>4, <1>6, <1>8, <1>9, <2>1, FailureKeeps
<1>10. CASE /\ NoErrorTo(Len(Asked))
            /\ IF holder < Len(Suite) THEN holder' = holder + 1 /\ phase' = phase ELSE holder' = 1 /\ phase' = "wait"
            /\ UNCHANGED <<stage, at, kept, dropped>>
  <2>1. /\ IF holder < Len(Suite) THEN holder' = holder + 1 /\ phase' = "ask" ELSE holder' = 1 /\ phase' = "wait"
        /\ UNCHANGED <<stage, at, kept, dropped>>
    BY <1>1, <1>10
  <2>2. Asked' = Asked /\ AtDesign' = AtDesign
    BY <2>1 DEF Asked, AtDesign
  <2>3. ASSUME NEW i \in DOMAIN Asked, job'[<<Asked[i], w, stage>>] = "none"
        PROVE  known'[w][Asked[i]] = "row"
    <3>1. NoErrorTo(i) /\ Asked[i] \in Design
      <4>1. i \in 1..Len(Asked) /\ Len(Asked) \in Nat
        BY AskedIs
      <4>2. \A k \in 1..i : k \in 1..Len(Asked)
        BY <4>1
      <4> QED  BY <1>10, <4>2, AskedIs
    <3>2. <<Asked[i], w, stage>> \in Job
      BY <1>3, <3>1 DEF Job
    <3>3. <<Asked[i], w, stage>> \notin submitted
      BY <1>1, <2>3, <3>2
    <3>4. file[w][Asked[i]] = "row"
      BY <3>1, <3>3 DEF submitted
    <3> QED  BY <1>3, <1>4, <3>4
  <2> DEFINE Cover(v) == \A i \in DOMAIN Asked :
                           job'[<<Asked[i], v, stage>>] = "none" => known'[v][Asked[i]] = "row"
  <2>4. \A h \in DOMAIN Suite : h < holder + 1 => Cover(Suite[h])
    <3> SUFFICES ASSUME NEW h \in DOMAIN Suite, h < holder + 1 PROVE Cover(Suite[h])
      OBVIOUS
    <3>1. CASE h = holder
      BY <2>3, <3>1 DEF w, AtWorkload
    <3>2. CASE h # holder
      <4>1. h < holder /\ Suite[h] \in Workload
        BY <3>2, AskedIs, SuiteIsListed
      <4>2. Covered(Suite[h])
        BY <1>1, <4>1 DEF AskedAreCovered
      <4> QED  BY <1>6, <1>7, <4>1, <4>2, CoveredStays
    <3> QED  BY <3>1, <3>2
  <2>5. AskedAreCovered'
    <3> HIDE DEF SuiteInv
    <3>1. CASE holder < Len(Suite)
      BY <2>1, <2>2, <2>4, <3>1 DEF AskedAreCovered, Covered
    <3>2. CASE ~(holder < Len(Suite))
      <4>1. \A h \in DOMAIN Suite : h < holder + 1 /\ ~(h < 1)
        BY <1>33, <3>2, SuiteIsListed
      <4>2. \A v \in Workload : Cover(v)
        BY <2>4, <4>1, SuiteIsListed
      <4> QED  BY <2>1, <2>2, <3>2, <4>1, <4>2 DEF AskedAreCovered, Covered, Workload
    <3> QED  BY <3>1, <3>2
  <2>6. SuiteTypeOK'
    <3>1. holder' \in DOMAIN Suite
      BY <2>1, AskedIs, SuiteIsListed
    <3> QED  BY <1>1, <1>4, <2>1, <3>1 DEF SuiteTypeOK, Workload, Row, Job, Stage
  <2>7. PastIsSettled'
    BY <1>1, <2>1 DEF PastIsSettled
  <2>8. KeptIsMeasuredEverywhere' /\ CrashAnywhereIsKnown'
    BY <1>1, <1>6, <2>1, <2>6, KeptStays, KeptAgain, DroppedStays, DroppedAgain
  <2> QED  BY <1>8, <2>5, <2>6, <2>7, <2>8
<1> QED  BY <1>2, <1>9, <1>10

\* The row was complete when it was asked for.
LEMMA SuiteReadyKeeps == ASSUME SuiteInv, Ready PROVE SuiteInv'
<1> USE DEF SuiteInv, given, tables
<1>1. phase = "wait" /\ AtJob = "none" /\ PairAnswered /\ UNCHANGED <<simulating, runs, file, known, job>>
  BY DEF Ready
<1>2. known[AtWorkload][AtDesign] = "row"
  <2>1. Covered(AtWorkload)
    BY <1>1, AskedIs DEF AskedAreCovered
  <2>2. \E i \in DOMAIN Asked : Asked[i] = AtDesign
    BY AskedIs DEF AtDesign
  <2> QED  BY <1>1, <2>1, <2>2 DEF Covered, AtJob
<1>3. RowsStay /\ JobsStay
  BY <1>1 DEF RowsStay, JobsStay
<1>4. TablesAreTrue'
  BY <1>1 DEF TablesAreTrue, Workload
<1>5. /\ file \in [Workload -> [Design -> Row]] /\ known \in [Workload -> [Design -> Row]]
      /\ job \in [Job -> {"none", "running", "measured", "crashed", "interrupted"}]
  BY DEF SuiteTypeOK
<1> QED  BY <1>1, <1>2, <1>3, <1>4, <1>5, AnswerKeeps

\* Where the call waits.
LEMMA TheJobAtHand ==
  ASSUME SuiteInv
  PROVE  LET d == AtDesign
             w == AtWorkload
         IN  /\ AtJob = "measured" => <<d, w>> \in runs
             /\ AtJob = "crashed" => known[w][d] = "null"
             /\ AtJob = "interrupted" => d \in Killable
<1>1. AtDesign \in Design /\ AtWorkload \in Workload /\ stage \in Stage
  BY AskedIs DEF SuiteInv, SuiteTypeOK
<1> QED  BY <1>1 DEF SuiteInv, TablesAreTrue, AtJob

\* A measured row is stored.
LEMMA SuiteRememberKeeps == ASSUME SuiteInv, Remember PROVE SuiteInv'
<1> DEFINE w == AtWorkload
           d == AtDesign
<1> USE DEF given
<1>1. /\ phase = "wait" /\ AtJob = "measured" /\ PairAnswered /\ UNCHANGED <<simulating, runs, job>>
      /\ known' = [known EXCEPT ![w][d] = "row"] /\ file' = [file EXCEPT ![w][d] = "row"]
  BY DEF Remember, Stored
<1>2. /\ d \in Design /\ w \in Workload /\ <<d, w>> \in runs
      /\ known \in [Workload -> [Design -> Row]] /\ file \in [Workload -> [Design -> Row]]
      /\ job \in [Job -> {"none", "running", "measured", "crashed", "interrupted"}]
  BY <1>1, AskedIs, TheJobAtHand DEF SuiteInv, SuiteTypeOK
<1> HIDE DEF w, d
<1>3. /\ known' \in [Workload -> [Design -> Row]] /\ file' \in [Workload -> [Design -> Row]]
      /\ known'[w][d] = "row" /\ file'[w][d] = "row"
  BY <1>1, <1>2 DEF Row
<1>4. \A c \in Design, v \in Workload :
        <<c, v>> # <<d, w>> => known'[v][c] = known[v][c] /\ file'[v][c] = file[v][c]
  BY <1>1, <1>2
<1>5. /\ \A c \in Design, v \in Workload :
           /\ known[v][c] \in {"row", "null"} => file[v][c] = known[v][c]
           /\ file[v][c] = "row" => <<c, v>> \in runs
           /\ file[v][c] = "null" => <<c, v>> \notin runs
      /\ \A c \in Design, v \in Workload, s \in Stage :
           /\ job[<<c, v, s>>] = "measured" => <<c, v>> \in runs
           /\ job[<<c, v, s>>] = "crashed" => known[v][c] = "null"
           /\ job[<<c, v, s>>] = "interrupted" => c \in Killable
  BY DEF SuiteInv, TablesAreTrue
<1>6. RowsStay
  BY <1>2, <1>3, <1>4, <1>5 DEF RowsStay
<1>7. JobsStay
  BY <1>1 DEF JobsStay
<1>8. TablesAreTrue'
  <2>1. ASSUME NEW c \in Design, NEW v \in Workload
        PROVE  /\ known'[v][c] \in {"row", "null"} => file'[v][c] = known'[v][c]
               /\ file'[v][c] = "row" => <<c, v>> \in runs
               /\ file'[v][c] = "null" => <<c, v>> \notin runs
    <3>1. CASE c = d /\ v = w
      BY <1>2, <1>3, <3>1
    <3>2. CASE ~(c = d /\ v = w)
      BY <1>4, <1>5, <3>2
    <3> QED  BY <3>1, <3>2
  <2>2. \A c \in Design, v \in Workload, s \in Stage :
           job[<<c, v, s>>] = "crashed" => known'[v][c] = "null"
    BY <1>5, <1>6 DEF RowsStay
  <2> QED  BY <1>1, <1>5, <2>1, <2>2 DEF TablesAreTrue, Workload
<1> QED  BY <1>1, <1>2, <1>3, <1>6, <1>7, <1>8, AnswerKeeps DEF w, d

\* A job that crashed, or was interrupted, drops its design (search.py:196-209).
LEMMA SuiteWaitFailsKeeps == ASSUME SuiteInv, WaitFails PROVE SuiteInv'
<1> USE DEF given, tables
<1>1. /\ phase = "wait" /\ AtJob \in {"crashed", "interrupted"} /\ Failed
      /\ UNCHANGED <<simulating, runs, file, known, job>>
  BY DEF WaitFails
<1>2. AtDesign \notin Killable => known[AtWorkload][AtDesign] = "null"
  BY <1>1, TheJobAtHand
<1>3. AtWorkload \in Workload
  BY AskedIs DEF SuiteInv
<1>4. RowsStay
  BY <1>1 DEF RowsStay
<1>5. TablesAreTrue'
  BY <1>1 DEF SuiteInv, TablesAreTrue, Workload
<1>6. /\ file \in [Workload -> [Design -> Row]] /\ known \in [Workload -> [Design -> Row]]
      /\ job \in [Job -> {"none", "running", "measured", "crashed", "interrupted"}]
  BY DEF SuiteInv, SuiteTypeOK
<1> QED  BY <1>1, <1>2, <1>3, <1>4, <1>5, <1>6, FailureKeeps

\* A simulation ends; a crash puts a null row into the table and the copy.
LEMMA SimulatedKeeps ==
  ASSUME SuiteInv, NEW j \in Job, Simulated(j) PROVE SuiteInv'
<1> USE DEF given, call
<1>1. PICK d \in Design, w \in Workload, s \in Stage : j = <<d, w, s>>
  BY DEF Job
<1>2. PICK state \in {"measured", "crashed", "interrupted"} :
        /\ job' = [job EXCEPT ![j] = state]
        /\ state = "measured" => <<d, w>> \in runs
        /\ state = "interrupted" => d \in Killable
        /\ state = "crashed" => <<d, w>> \notin runs
        /\ IF state = "crashed"
             THEN known' = [known EXCEPT ![w][d] = "null"] /\ file' = [file EXCEPT ![w][d] = "null"]
             ELSE UNCHANGED <<file, known>>
  BY <1>1 DEF Simulated, Become
<1>3. job[j] = "running" /\ UNCHANGED <<simulating, runs, phase, stage, at, holder, kept, dropped>>
  BY DEF Simulated, Become
<1>4. /\ known \in [Workload -> [Design -> Row]] /\ file \in [Workload -> [Design -> Row]]
      /\ job \in [Job -> {"none", "running", "measured", "crashed", "interrupted"}]
  BY DEF SuiteInv, SuiteTypeOK
<1>5. /\ known' \in [Workload -> [Design -> Row]] /\ file' \in [Workload -> [Design -> Row]]
      /\ job' \in [Job -> {"none", "running", "measured", "crashed", "interrupted"}]
      /\ state = "crashed" => known'[w][d] = "null" /\ file'[w][d] = "null"
      /\ job'[j] = state
  <2>1. job' \in [Job -> {"none", "running", "measured", "crashed", "interrupted"}] /\ job'[j] = state
    BY <1>2, <1>4
  <2>2. CASE state = "crashed"
    <3>1. known' = [known EXCEPT ![w][d] = "null"] /\ file' = [file EXCEPT ![w][d] = "null"]
      BY <1>2, <2>2
    <3> QED  BY <1>4, <2>1, <3>1 DEF Row
  <2>3. CASE state # "crashed"
    BY <1>2, <1>4, <2>1, <2>3
  <2> QED  BY <2>2, <2>3
<1>6. /\ \A c \in Design, v \in Workload :
           ~(state = "crashed" /\ c = d /\ v = w) => known'[v][c] = known[v][c] /\ file'[v][c] = file[v][c]
      /\ \A i \in Job : i # j => job'[i] = job[i]
  BY <1>2, <1>4
<1>7. /\ \A c \in Design, v \in Workload :
           /\ known[v][c] \in {"row", "null"} => file[v][c] = known[v][c]
           /\ file[v][c] = "row" => <<c, v>> \in runs
           /\ file[v][c] = "null" => <<c, v>> \notin runs
      /\ \A c \in Design, v \in Workload, r \in Stage :
           /\ job[<<c, v, r>>] = "measured" => <<c, v>> \in runs
           /\ job[<<c, v, r>>] = "crashed" => known[v][c] = "null"
           /\ job[<<c, v, r>>] = "interrupted" => c \in Killable
  BY DEF SuiteInv, TablesAreTrue
<1>8. RowsStay
  <2> SUFFICES ASSUME NEW c \in Design, NEW v \in Workload
               PROVE  /\ known[v][c] \in {"row", "null"} => known'[v][c] = known[v][c]
                      /\ file[v][c] \in {"row", "null"} => file'[v][c] = file[v][c]
    BY DEF RowsStay
  <2>1. CASE state = "crashed" /\ c = d /\ v = w
    BY <1>2, <1>5, <1>7, <2>1
  <2>2. CASE ~(state = "crashed" /\ c = d /\ v = w)
    BY <1>6, <2>2
  <2> QED  BY <2>1, <2>2
<1>9. JobsStay
  <2>1. \A i \in Job : job'[i] = "none" => job[i] = "none"
    BY <1>5, <1>6
  <2> QED  BY <2>1 DEF JobsStay, Job
<1>10. TablesAreTrue'
  <2>1. ASSUME NEW c \in Design, NEW v \in Workload
        PROVE  /\ known'[v][c] \in {"row", "null"} => file'[v][c] = known'[v][c]
               /\ file'[v][c] = "row" => <<c, v>> \in runs
               /\ file'[v][c] = "null" => <<c, v>> \notin runs
    <3>1. CASE state = "crashed" /\ c = d /\ v = w
      BY <1>2, <1>5, <3>1
    <3>2. CASE ~(state = "crashed" /\ c = d /\ v = w)
      BY <1>6, <1>7, <3>2
    <3> QED  BY <3>1, <3>2
  <2>2. ASSUME NEW c \in Design, NEW v \in Workload, NEW r \in Stage
        PROVE  /\ job'[<<c, v, r>>] = "measured" => <<c, v>> \in runs
               /\ job'[<<c, v, r>>] = "crashed" => known'[v][c] = "null"
               /\ job'[<<c, v, r>>] = "interrupted" => c \in Killable
    <3>1. CASE <<c, v, r>> = j
      <4>1. c = d /\ v = w
        BY <1>1, <3>1
      <4> QED  BY <1>2, <1>5, <3>1, <4>1
    <3>2. CASE <<c, v, r>> # j
      <4>1. job'[<<c, v, r>>] = job[<<c, v, r>>]
        BY <1>6, <3>2 DEF Job
      <4>2. known[v][c] = "null" => known'[v][c] = "null"
        BY <1>8 DEF RowsStay
      <4> QED  BY <1>7, <4>1, <4>2
    <3> QED  BY <3>1, <3>2
  <2> QED  BY <1>3, <2>1, <2>2 DEF TablesAreTrue, Workload
<1>11. SuiteTypeOK'
  BY <1>3, <1>5 DEF SuiteInv, SuiteTypeOK, Workload, Row, Job, Stage
<1> QED  BY <1>3, <1>8, <1>9, <1>10, <1>11, BesidesTheCall

\* Another run stores a row where there was none.
LEMMA OtherRunKeeps ==
  ASSUME SuiteInv, NEW d \in Design, NEW w \in Workload, OtherRun(d, w)
  PROVE  SuiteInv'
<1> USE DEF given, call
<1> DEFINE row == IF <<d, w>> \in runs THEN "row" ELSE "null"
<1>1. /\ file[w][d] \notin {"row", "null"} /\ file' = [file EXCEPT ![w][d] = row]
      /\ UNCHANGED <<simulating, runs, known, job, phase, stage, at, holder, kept, dropped>>
  BY DEF OtherRun
<1>2. file \in [Workload -> [Design -> Row]] /\ row \in Row
  BY DEF SuiteInv, SuiteTypeOK, Row
<1>3. /\ row \in {"row", "null"} /\ row = "row" => <<d, w>> \in runs
      /\ row = "null" => <<d, w>> \notin runs
  OBVIOUS
<1> HIDE DEF row
<1>4. /\ file' \in [Workload -> [Design -> Row]] /\ file'[w][d] = row
      /\ \A c \in Design, v \in Workload : ~(c = d /\ v = w) => file'[v][c] = file[v][c]
  BY <1>1, <1>2
<1>5. /\ \A c \in Design, v \in Workload :
           /\ known[v][c] \in {"row", "null"} => file[v][c] = known[v][c]
           /\ file[v][c] = "row" => <<c, v>> \in runs
           /\ file[v][c] = "null" => <<c, v>> \notin runs
  BY DEF SuiteInv, TablesAreTrue
<1>6. RowsStay /\ JobsStay
  <2>1. ASSUME NEW c \in Design, NEW v \in Workload, file[v][c] \in {"row", "null"}
        PROVE  file'[v][c] = file[v][c]
    BY <1>1, <1>4, <2>1
  <2> QED  BY <1>1, <2>1 DEF RowsStay, JobsStay
<1>7. TablesAreTrue'
  <2>1. ASSUME NEW c \in Design, NEW v \in Workload
        PROVE  /\ known[v][c] \in {"row", "null"} => file'[v][c] = known[v][c]
               /\ file'[v][c] = "row" => <<c, v>> \in runs
               /\ file'[v][c] = "null" => <<c, v>> \notin runs
    <3>1. CASE c = d /\ v = w
      BY <1>1, <1>3, <1>4, <1>5, <3>1
    <3>2. CASE ~(c = d /\ v = w)
      BY <1>4, <1>5, <3>2
    <3> QED  BY <3>1, <3>2
  <2> QED  BY <1>1, <2>1 DEF SuiteInv, TablesAreTrue, Workload
<1>8. SuiteTypeOK'
  BY <1>1, <1>4 DEF SuiteInv, SuiteTypeOK, Workload, Row, Job, Stage
<1> QED  BY <1>1, <1>6, <1>7, <1>8, BesidesTheCall

\* What a call knows of its suite holds throughout.
THEOREM SuiteInvariance == SuiteSpec => []SuiteInv
<1>1. SuiteInit => SuiteInv
  BY SuiteStarts
<1>2. SuiteInv /\ [SuiteNext]_suiteVars => SuiteInv'
  <2> SUFFICES ASSUME SuiteInv, [SuiteNext]_suiteVars PROVE SuiteInv'
    OBVIOUS
  <2>1. CASE CallStep
    BY <2>1, SuiteAskKeeps, SuiteReadyKeeps, SuiteRememberKeeps, SuiteWaitFailsKeeps DEF CallStep
  <2>2. ASSUME NEW j \in Job, Simulated(j) PROVE SuiteInv'
    BY <2>2, SimulatedKeeps
  <2>3. ASSUME NEW d \in Design, NEW w \in Workload, OtherRun(d, w) PROVE SuiteInv'
    BY <2>3, OtherRunKeeps
  <2>4. CASE UNCHANGED suiteVars
    <3>1. UNCHANGED <<simulating, runs, file, known, job, phase, stage, at, holder, kept, dropped>>
      BY <2>4 DEF suiteVars
    <3>2. RowsStay /\ JobsStay
      BY <3>1 DEF RowsStay, JobsStay
    <3>3. SuiteTypeOK'
      BY <3>1 DEF SuiteInv, SuiteTypeOK, Workload, Row, Job, Stage
    <3>4. TablesAreTrue'
      BY <3>1 DEF SuiteInv, TablesAreTrue, Workload
    <3> QED  BY <3>1, <3>2, <3>3, <3>4, BesidesTheCall
  <2> QED  BY <2>1, <2>2, <2>3, <2>4 DEF SuiteNext, SuiteFinished
<1> QED  BY <1>1, <1>2, PTL DEF SuiteSpec

\* What a call on a suite kept was measured on every workload (suite.py:393).
THEOREM KeptOnEveryWorkload == SuiteSpec => []KeptIsMeasuredEverywhere
<1>1. SuiteInv => KeptIsMeasuredEverywhere
  BY DEF SuiteInv
<1> QED  BY <1>1, SuiteInvariance, PTL

\* A design dropped for a crash on one workload is no candidate any more
\* (suite.py:320).
THEOREM CrashesAreKnownAnywhere == SuiteSpec => []CrashAnywhereIsKnown
<1>1. SuiteInv => CrashAnywhereIsKnown
  BY DEF SuiteInv
<1> QED  BY <1>1, SuiteInvariance, PTL

\* What may run and what may fail never changes, and a call that is over stays so.
LEMMA TheCallReturnsOnce ==
  ASSUME [SuiteNext]_suiteVars
  PROVE  /\ UNCHANGED <<simulating, runs>>
         /\ phase = "done" => UNCHANGED <<phase, kept, dropped>>
<1>1. CASE CallStep
  BY <1>1 DEF CallStep, Ask, Ready, Remember, WaitFails, given
<1>2. ASSUME NEW j \in Job, Simulated(j)
      PROVE  UNCHANGED <<simulating, runs, phase, kept, dropped>>
  BY <1>2 DEF Simulated, given, call
<1>3. ASSUME NEW d \in Design, NEW w \in Workload, OtherRun(d, w)
      PROVE  UNCHANGED <<simulating, runs, phase, kept, dropped>>
  BY <1>3 DEF OtherRun, given, call
<1>4. CASE UNCHANGED suiteVars
  BY <1>4 DEF suiteVars
<1> QED  BY <1>1, <1>2, <1>3, <1>4 DEF SuiteNext, SuiteFinished

\* A call on a suite returns what measure_batch promises.
THEOREM SuiteRefinement == SuiteSpec => ImplementsMeasureBatch
<1>1. SuiteInit => Promise!Init
  BY DEF SuiteInit, Promise!Init, Promise!Pending
<1>2. ASSUME SuiteInv, SuiteInv', [SuiteNext]_suiteVars
      PROVE  [Promise!Next]_(Promise!vars)
  <2>1. /\ UNCHANGED <<simulating, runs>>
        /\ phase = "done" => UNCHANGED <<phase, kept, dropped>>
    BY <1>2, TheCallReturnsOnce
  <2>2. \A d : Fails(d)' <=> Fails(d)
    BY <2>1 DEF Fails, Workload
  <2>3. CASE phase # "done" /\ phase' = "done"
    <3> DEFINE batch == {Wanted[i] : i \in DOMAIN Wanted}
    <3>1. kept' \cup dropped' = batch /\ kept' \cap dropped' = {} /\ batch \subseteq Design
      BY <1>2, <2>3, SuiteIsListed DEF SuiteInv, PastIsSettled
    <3>2. ASSUME NEW d \in kept' PROVE ~Fails(d)
      <4>1. d \in Design /\ \A w \in Workload : file'[w][d] = "row"
        BY <1>2, <3>1 DEF SuiteInv, KeptIsMeasuredEverywhere, Workload
      <4>2. \A w \in Workload : <<d, w>> \in runs'
        BY <1>2, <4>1 DEF SuiteInv, TablesAreTrue, Workload
      <4> QED  BY <2>1, <4>2 DEF Fails
    <3>3. ASSUME NEW d \in dropped', simulating, d \notin Killable PROVE Fails(d)
      <4>1. PICK w \in Workload : known'[w][d] = "null"
        BY <1>2, <2>1, <3>3 DEF SuiteInv, CrashAnywhereIsKnown, IsCandidate, Workload
      <4>2. <<d, w>> \notin runs'
        BY <1>2, <3>1, <4>1 DEF SuiteInv, TablesAreTrue, Workload
      <4> QED  BY <2>1, <4>2 DEF Fails
    <3>4. /\ kept' \in SUBSET (batch \cap {d \in Design : ~Fails(d)})
          /\ batch \ kept' \subseteq {d \in Design : ~simulating \/ d \in Killable \/ Fails(d)}
          /\ batch \ kept' = dropped'
      BY <3>1, <3>2, <3>3
    <3>5. Promise!Return("call")
      <4> DEFINE before == [c \in {"call"} |-> IF phase = "done" THEN [returned |-> TRUE, kept |-> kept, dropped |-> dropped]
                                              ELSE [returned |-> FALSE, kept |-> {}, dropped |-> {}]]
                 may == [c \in {"call"} |-> {d \in Design : ~Fails(d)}]
                 fault == [c \in {"call"} |-> {d \in Design : ~simulating \/ d \in Killable \/ Fails(d)}]
      <4>1. may' = may /\ fault' = fault
        BY <2>1, <2>2
      <4>2. before["call"] = [returned |-> FALSE, kept |-> {}, dropped |-> {}]
        BY <2>3
      <4>3. before' = [before EXCEPT !["call"] = [returned |-> TRUE, kept |-> kept', dropped |-> batch \ kept']]
        BY <2>3, <3>4
      <4>4. kept' \in SUBSET (batch \cap may["call"]) /\ batch \ kept' \subseteq fault["call"]
        BY <3>4
      <4> QED
        BY <4>1, <4>2, <4>3, <4>4 DEF Promise!Return, Promise!Pending
    <3> QED  BY <3>5 DEF Promise!Next
  <2>4. CASE ~(phase # "done" /\ phase' = "done")
    BY <2>1, <2>2, <2>4 DEF Promise!vars
  <2> QED  BY <2>3, <2>4
<1> QED
  BY <1>1, <1>2, SuiteInvariance, PTL DEF SuiteSpec, ImplementsMeasureBatch, Promise!Spec
=============================================================================
