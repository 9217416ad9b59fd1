---------------------------- MODULE MCResultTable ----------------------------
(***************************************************************************)
(* Two runs that want d1, one of them after d2; two threads in each pool.  *)
(* A simulation of d1 may be killed, an attempt at d2 may fail for a       *)
(* reason of its own.                                                      *)
(***************************************************************************)
EXTENDS ResultTableProperties

CONSTANTS p1, p2, d1, d2

MCProcess == {p1, p2}
MCDesign == {d1, d2}
MCWanted == [p \in MCProcess |-> IF p = p1 THEN <<d2, d1>> ELSE <<d1>>]
MCKillable == {d1}
MCUnlucky == {d2}
=============================================================================
