------------------------------ MODULE BuildCache ------------------------------
(***************************************************************************)
(* The binary cache, council_loop/simulate.py:build_binary.  Threads of    *)
(* several processes ask for binaries; a missing one is built by the one   *)
(* thread that holds the binary's lock, in a source tree it holds the lock *)
(* of, written under a temporary name of its process and published by a    *)
(* rename.  The locks are the kernel's: a process that dies lets go of     *)
(* them, and its temporary files stay.                                     *)
(*                                                                         *)
(* The remote build itself (CHIA, config.sh and make) is external: it ends *)
(* with the binary's bytes or without, and a build whose caller died does  *)
(* not go on in the tree.                                                  *)
(***************************************************************************)
EXTENDS Integers, FiniteSets

CONSTANTS
  Thread,         \* the simulation threads, one request each
  Process,        \* the processes they run in
  ProcessOf,      \* ProcessOf[t]: the process of thread t
  Binary,         \* the executable names
  Tree,           \* the source trees a build may hold
  MaxCrashes,     \* how many processes may die, at most
  NoOne           \* the holder of a free lock, the tree of who holds none

ASSUME CacheAssumption ==
  /\ ProcessOf \in [Thread -> Process]
  /\ NoOne \notin Thread \cup Tree
  /\ MaxCrashes \in Nat

VARIABLES
  wants,          \* wants[t]: the binary thread t asks for
  pc,             \* where thread t is in build_binary
  treeOf,         \* treeOf[t]: the tree thread t builds in
  binaryLock,     \* who holds the lock beside each binary
  treeLock,       \* who holds each tree's .build.lock
  shared,         \* what each file of champsim_bin holds
  temporary,      \* what each process's temporary file of a binary holds
  crashes

vars == <<wants, pc, treeOf, binaryLock, treeLock, shared, temporary, crashes>>
locks == <<binaryLock, treeLock>>
files == <<shared, temporary>>

File == {"none", "partial", "whole"}

\* Faulty variant: a temporary file passes for the binary.
AnyFileOf(b) == shared[b] # "none" \/ \E p \in Process : temporary[<<b, p>>] # "none"

Published(b) == shared[b] # "none"

Init ==
  /\ wants \in [Thread -> Binary]
  /\ pc = [t \in Thread |-> "look"]
  /\ treeOf = [t \in Thread |-> NoOne]
  /\ binaryLock = [b \in Binary |-> NoOne]
  /\ treeLock = [r \in Tree |-> NoOne]
  /\ shared = [b \in Binary |-> "none"]
  /\ temporary = [f \in Binary \X Process |-> "none"]
  /\ crashes = 0

Goto(t, place) == pc' = [pc EXCEPT ![t] = place]

TemporaryOf(t) == <<wants[t], ProcessOf[t]>>

-----------------------------------------------------------------------------
(***************************************************************************)
(* Finding the binary, or the right to build it.                           *)
(***************************************************************************)

\* The file is looked for before any lock is taken.
Look(t) ==
  /\ pc[t] = "look"
  /\ Goto(t, IF Published(wants[t]) THEN "served" ELSE "queue")
  /\ UNCHANGED <<wants, treeOf, locks, files, crashes>>

MayLock(t) == binaryLock[wants[t]] = NoOne

\* The threads that ask for one binary queue on its lock.
LockBinary(t) ==
  /\ pc[t] = "queue"
  /\ MayLock(t)
  /\ binaryLock' = [binaryLock EXCEPT ![wants[t]] = t]
  /\ Goto(t, "lookAgain")
  /\ UNCHANGED <<wants, treeOf, treeLock, files, crashes>>

\* Faulty variant: under the locks nobody looks again.
NeverBuilt(t) == FALSE

BuiltBefore(t) == Published(wants[t])

\* Whoever held the lock before may have built it.
LookAgain(t) ==
  /\ pc[t] = "lookAgain"
  /\ IF BuiltBefore(t)
       THEN /\ binaryLock' = [binaryLock EXCEPT ![wants[t]] = NoOne]
            /\ Goto(t, "served")
       ELSE /\ Goto(t, "poll")
            /\ UNCHANGED binaryLock
  /\ UNCHANGED <<wants, treeOf, treeLock, files, crashes>>

\* Faulty variant: a tree is taken whoever builds in it.
AnyTree(r) == TRUE

FreeTree(r) == treeLock[r] = NoOne

\* The trees are tried in turn without blocking; the others move meanwhile, so
\* any free one may be the one found.
TakeTree(t, r) ==
  /\ pc[t] = "poll"
  /\ FreeTree(r)
  /\ treeLock' = [treeLock EXCEPT ![r] = t]
  /\ treeOf' = [treeOf EXCEPT ![t] = r]
  /\ Goto(t, "lookInTree")
  /\ UNCHANGED <<wants, binaryLock, files, crashes>>

\* With every tree held the thread sleeps and tries again.
PollAgain(t) ==
  /\ pc[t] = "poll"
  /\ \A r \in Tree : ~FreeTree(r)
  /\ UNCHANGED vars

\* It is looked for once more, and built.
LookInTree(t) ==
  /\ pc[t] = "lookInTree"
  /\ Goto(t, IF BuiltBefore(t) THEN "leave" ELSE "build")
  /\ UNCHANGED <<wants, treeOf, locks, files, crashes>>

-----------------------------------------------------------------------------
(***************************************************************************)
(* Building, publishing, leaving.                                          *)
(***************************************************************************)

\* The remote build returns the binary; the temporary file is opened for it.
BuildSucceeds(t) ==
  /\ pc[t] = "build"
  /\ temporary' = [temporary EXCEPT ![TemporaryOf(t)] = "partial"]
  /\ Goto(t, "write")
  /\ UNCHANGED <<wants, treeOf, locks, shared, crashes>>

\* The build failed or ran out of time: an error, through both finally clauses.
BuildFails(t) ==
  /\ pc[t] = "build"
  /\ Goto(t, "fail")
  /\ UNCHANGED <<wants, treeOf, locks, files, crashes>>

\* The bytes are written and the file made executable.
Write(t) ==
  /\ pc[t] = "write"
  /\ temporary' = [temporary EXCEPT ![TemporaryOf(t)] = "whole"]
  /\ Goto(t, "publish")
  /\ UNCHANGED <<wants, treeOf, locks, shared, crashes>>

\* One rename publishes it.
Publish(t) ==
  /\ pc[t] = "publish"
  /\ shared' = [shared EXCEPT ![wants[t]] = temporary[TemporaryOf(t)]]
  /\ temporary' = [temporary EXCEPT ![TemporaryOf(t)] = "none"]
  /\ Goto(t, "leave")
  /\ UNCHANGED <<wants, treeOf, locks, crashes>>

\* Faulty variant: a build that failed keeps its tree.
KeepTree(t) ==
  IF pc[t] = "fail" THEN treeLock ELSE [treeLock EXCEPT ![treeOf[t]] = NoOne]

FreedTrees(t) == [treeLock EXCEPT ![treeOf[t]] = NoOne]

\* The inner finally lets the tree go, with an answer or with an error.
LeaveTree(t) ==
  /\ pc[t] \in {"leave", "fail"}
  /\ treeOf[t] # NoOne
  /\ treeLock' = FreedTrees(t)
  /\ treeOf' = [treeOf EXCEPT ![t] = NoOne]
  /\ UNCHANGED <<wants, pc, binaryLock, files, crashes>>

\* Then the outer finally lets the binary go.
LeaveBinary(t) ==
  /\ pc[t] \in {"leave", "fail"}
  /\ treeOf[t] = NoOne
  /\ binaryLock' = [binaryLock EXCEPT ![wants[t]] = NoOne]
  /\ Goto(t, IF pc[t] = "leave" THEN "served" ELSE "refused")
  /\ UNCHANGED <<wants, treeOf, treeLock, files, crashes>>

-----------------------------------------------------------------------------
Finished == {"served", "refused"}

\* What the kernel leaves of a lock when process p dies.
AfterDeath(p, holder) == IF holder # NoOne /\ ProcessOf[holder] = p THEN NoOne ELSE holder

\* A process dies between any two steps of its threads: the kernel drops its
\* locks, its temporary files stay, and its run is started over.
Crash(p) ==
  /\ crashes < MaxCrashes
  /\ \E t \in Thread : ProcessOf[t] = p /\ pc[t] \notin Finished
  /\ crashes' = crashes + 1
  /\ binaryLock' = [b \in Binary |-> AfterDeath(p, binaryLock[b])]
  /\ treeLock' = [r \in Tree |-> AfterDeath(p, treeLock[r])]
  /\ treeOf' = [t \in Thread |-> IF ProcessOf[t] = p THEN NoOne ELSE treeOf[t]]
  /\ pc' = [t \in Thread |-> IF ProcessOf[t] = p THEN "look" ELSE pc[t]]
  /\ UNCHANGED <<wants, files>>

ThreadStep(t) ==
  \/ Look(t) \/ LockBinary(t) \/ LookAgain(t)
  \/ (\E r \in Tree : TakeTree(t, r)) \/ PollAgain(t) \/ LookInTree(t)
  \/ BuildSucceeds(t) \/ BuildFails(t) \/ Write(t) \/ Publish(t)
  \/ LeaveTree(t) \/ LeaveBinary(t)

AllFinished ==
  /\ \A t \in Thread : pc[t] \in Finished
  /\ UNCHANGED vars

Next ==
  \/ \E t \in Thread : ThreadStep(t)
  \/ \E p \in Process : Crash(p)
  \/ AllFinished

Spec == Init /\ [][Next]_vars

\* Every thread is scheduled.  A request is made once and again only after one
\* of the few crashes, so a lock's holders are finitely many and weak fairness
\* is enough for who waits for it.
FairSpec == Spec /\ \A t \in Thread : WF_vars(ThreadStep(t))
=============================================================================
