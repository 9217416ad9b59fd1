------------------------------ MODULE MCSpendCap ------------------------------
(***************************************************************************)
(* Three processes, calls of one or two units against a cap that is        *)
(* reached in the middle of the run.                                       *)
(***************************************************************************)
EXTENDS SpendCap

CONSTANTS p1, p2, p3

MCThree == {p1, p2, p3}
=============================================================================
