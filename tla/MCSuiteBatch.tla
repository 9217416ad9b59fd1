---------------------------- MODULE MCSuiteBatch ----------------------------
(***************************************************************************)
(* Two designs on two workloads, one of them killed at times and one with  *)
(* an old row on the second workload.                                      *)
(***************************************************************************)
EXTENDS SuiteBatch

CONSTANTS d1, d2, w1, w2

MCDesign == {d1, d2}
MCSuite == <<w1, w2>>
MCWanted == <<d1, d2>>
MCOld == {<<d2, w2>>}
MCKillable == {d1}
=============================================================================
