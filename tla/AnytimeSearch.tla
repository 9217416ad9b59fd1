---------------------------- MODULE AnytimeSearch ----------------------------
(***************************************************************************)
(* What a search arm promises the cell that runs it, whatever its strategy *)
(* is: the designs it reports were each evaluated once, a result once      *)
(* reported never changes, no more than Limit designs are reported beyond  *)
(* the stock, and the run ends.  CouncilSearch and RandomSearch implement  *)
(* it.                                                                     *)
(***************************************************************************)
EXTENDS Integers

CONSTANTS Design,       \* the designs an arm may report
          Result,       \* what a measurement says of a design
          Limit         \* the designs reported beyond the stock, at most

VARIABLES results,      \* the <<design, result>> pairs reported so far
          count,        \* how many rows the report holds
          ended         \* the arm has returned

vars == <<results, count, ended>>

Reported == {pair[1] : pair \in results}

Init == results = {} /\ count = 0 /\ ended = FALSE

\* One more design is reported: one that was not, with the result it measured.
Report ==
  /\ ~ended
  /\ count <= Limit
  /\ count' = count + 1
  /\ \E d \in Design, r \in Result :
        /\ d \notin Reported
        /\ results' = results \cup {<<d, r>>}
  /\ UNCHANGED ended

\* The arm returns; at least the stock has been reported.
Return ==
  /\ ~ended
  /\ count > 0
  /\ ended' = TRUE
  /\ UNCHANGED <<results, count>>

Next == Report \/ Return

Spec == Init /\ [][Next]_vars
=============================================================================
