----------------------------- MODULE MeasureBatch -----------------------------
(***************************************************************************)
(* What search.py:measure_batch promises the arms that call it: a call     *)
(* returns once, every design of its batch is then kept or dropped, a      *)
(* design that is kept ran, and one that is dropped failed.  ResultTable   *)
(* and SuiteBatch implement it; RandomSearch and CouncilSearch rely on it. *)
(***************************************************************************)
CONSTANTS Call,         \* the calls, one of each run
          Batch         \* Batch[c]: the designs of call c

VARIABLES mayRun,       \* mayRun[c]: the designs that may produce a measurement, fixed
          mayFail,      \* mayFail[c]: the designs whose measuring may fail, fixed
          result        \* result[c]: what c returned, when it has

vars == <<mayRun, mayFail, result>>

Pending == [returned |-> FALSE, kept |-> {}, dropped |-> {}]

Init == result = [c \in Call |-> Pending]

Return(c) ==
  /\ result[c] = Pending
  /\ \E kept \in SUBSET (Batch[c] \cap mayRun[c]) :
       /\ Batch[c] \ kept \subseteq mayFail[c]
       /\ result' = [result EXCEPT ![c] = [returned |-> TRUE, kept |-> kept, dropped |-> Batch[c] \ kept]]
  /\ UNCHANGED <<mayRun, mayFail>>

Next == \E c \in Call : Return(c)

Spec == Init /\ [][Next]_vars
=============================================================================
