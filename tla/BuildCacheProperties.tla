------------------------- MODULE BuildCacheProperties -------------------------
(***************************************************************************)
(* What the binary cache must keep to, stated over BuildCache.             *)
(***************************************************************************)
EXTENDS BuildCache

\* Every variable has its type (simulate.py:build_binary and its locks).
TypeOK ==
  /\ wants \in [Thread -> Binary]
  /\ pc \in [Thread -> {"look", "queue", "lookAgain", "poll", "lookInTree", "build", "write",
                        "publish", "leave", "fail", "served", "refused"}]
  /\ treeOf \in [Thread -> Tree \cup {NoOne}]
  /\ binaryLock \in [Binary -> Thread \cup {NoOne}]
  /\ treeLock \in [Tree -> Thread \cup {NoOne}]
  /\ shared \in [Binary -> File]
  /\ temporary \in [Binary \X Process -> File]
  /\ crashes \in 0..MaxCrashes

InTree == {"lookInTree", "build", "write", "publish"}
HoldsBinary == {"lookAgain", "poll", "leave", "fail"} \cup InTree

\* Two builds never run in one source tree at once, a build that failed or a
\* process that died included (simulate.py:247).
OneBuildPerTree ==
  \A t, u \in Thread :
    (t # u /\ pc[t] \in InTree /\ pc[u] \in InTree) => treeOf[t] # treeOf[u]

\* The threads of one process share the temporary name of a binary, so no two
\* threads may be building the same one.
OneBuilderPerBinary ==
  \A t, u \in Thread :
    (t # u /\ pc[t] \in InTree /\ pc[u] \in InTree) => wants[t] # wants[u]

\* A reader never finds part of a binary under the shared name, whatever died.
SharedIsWhole == \A b \in Binary : shared[b] # "partial"

\* Who was served finds its binary there.
ServedFindsBinary == \A t \in Thread : pc[t] = "served" => shared[wants[t]] = "whole"

\* A design built once is never built again, whichever tree is free
\* (simulate.py:214-215): no build starts for a binary that is published.
NeverRebuilt ==
  [][\A t \in Thread :
       (pc[t] # "build" /\ pc'[t] = "build") => shared[wants[t]] = "none"]_vars

\* Every request ends, with the binary or with the build's error.
EveryRequestEnds == \A t \in Thread : <>[](pc[t] \in Finished)

-----------------------------------------------------------------------------
(***************************************************************************)
(* What the cache promises, without its locks: a store of binaries.        *)
(***************************************************************************)

Store == INSTANCE BinaryStore WITH
           request <- wants,
           stored <- {b \in Binary : shared[b] = "whole"},
           answer <- [t \in Thread |-> IF pc[t] = "served" THEN "binary"
                                       ELSE IF pc[t] = "refused" THEN "error" ELSE "none"]

\* The protocol of locks and renames implements the store.
ImplementsBinaryStore == Store!Spec

-----------------------------------------------------------------------------
(***************************************************************************)
(* The inductive invariant of BuildCacheProofs: a thread inside a critical *)
(* section is the holder its locks name.                                   *)
(***************************************************************************)

LocksAreHeld ==
  \A t \in Thread :
    /\ pc[t] \in HoldsBinary => binaryLock[wants[t]] = t
    /\ pc[t] \in InTree => treeOf[t] \in Tree
    /\ treeOf[t] # NoOne => treeLock[treeOf[t]] = t

\* What the builder is about to publish is whole; nobody else writes it.
WrittenFirst ==
  \A t \in Thread :
    /\ pc[t] = "publish" => temporary[TemporaryOf(t)] = "whole"
    /\ pc[t] \in {"poll"} \cup InTree => shared[wants[t]] = "none"
    /\ pc[t] = "leave" => shared[wants[t]] = "whole"

IInv == TypeOK /\ LocksAreHeld /\ WrittenFirst /\ SharedIsWhole /\ ServedFindsBinary
=============================================================================
