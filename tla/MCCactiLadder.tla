---------------------------- MODULE MCCactiLadder ----------------------------
(***************************************************************************)
(* Two threads of one process and one of another ask for three shapes of a *)
(* ladder that may hold rows of two fields, or nothing.  Two of the shapes *)
(* lie between two arrays each, and CACTI refuses one array.               *)
(***************************************************************************)
EXTENDS CactiLadderProperties

CONSTANTS t1, t2, t3, p1, p2, k1, k2, k3

MCThread == {t1, t2, t3}
MCProcess == {p1, p2}
MCProcessOf == [t \in MCThread |-> IF t = t3 THEN p2 ELSE p1]
MCRequests == [t \in MCThread |-> 1]
MCKey == {k1, k2, k3}
MCArray == 1..3
MCArraysOf == [k \in MCKey |-> CASE k = k1 -> {1} [] k = k2 -> {1, 2} [] OTHER -> {2, 3}]
MCRefused == {3}
MCFilesBefore == {NoRows, [NoRows EXCEPT ![k1] = "old", ![k3] = "old"]}
=============================================================================
