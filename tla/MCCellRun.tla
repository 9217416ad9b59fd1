------------------------------ MODULE MCCellRun ------------------------------
(***************************************************************************)
(* Three runs in a pool of two, on a chip whose last level has to shrink.  *)
(* Of the five rungs the first takes too much silicon, the second draws    *)
(* too much, the third fits, the fourth crashes and the last has no        *)
(* numbers.  What an older simulator makes of the second and third is      *)
(* wrong, and of the fourth, which it could run, too much.                 *)
(***************************************************************************)
EXTENDS CellRunProperties, DesignSpace

CONSTANTS j1, j2, j3

MCRun == {j1, j2, j3}
MCOrder == <<j1, j2, j3>>

\* The chip: a first and a second level of one block each in front of the last.
MCShip == [l \in Level |-> IF l = "LLC" THEN <<4, 3>> ELSE <<1, 1>>]
MCWaysMenu == {1, 2}
MCNoNumbers == [l \in Level |-> IF l = "LLC" THEN {<<1, 1>>} ELSE {}]
MCArea == [l \in Level |-> [s \in CandidateShapes(l) |-> Blocks(s)]]
MCLeakage == [l \in Level |-> [s \in CandidateShapes(l) |-> Blocks(s) \div 4]]
MCLatency == [l \in Level |-> [s \in CandidateShapes(l) |-> IF l = "LLC" THEN 2 ELSE 1]]

MCStockShape == <<4, 3>>
MCSets == {1, 2, 4, 8}
MCWays == {1, 2, 3}
MCCharacterised == {<<4, 3>>, <<2, 3>>, <<1, 3>>, <<1, 2>>}
MCFitting == {<<2, 3>>, <<1, 3>>, <<1, 2>>}

\* These are what the space of this chip makes of its last level.
Rung(s) == [Ship EXCEPT !["LLC"] = s]

ASSUME MCSets = UsableSets("LLC") /\ MCWays = UsableWays("LLC")
ASSUME MCStockShape = Ship["LLC"]
ASSUME MCCharacterised = {r \in Rungs : \A l \in Level : Rung(r)[l] \notin NoNumbers[l]}
ASSUME MCFitting = {r \in MCCharacterised : WithinBudget(Rung(r))}

MCDraw == [r \in Rungs |-> IF r = <<2, 3>> THEN 3 ELSE 2]
MCOldDraw == [r \in Rungs |-> IF r = <<2, 3>> THEN 2 ELSE 3]
MCBroken == {<<1, 2>>}

Fine(v) == [value |-> v, refused |-> FALSE]
Bad(v) == [value |-> v, refused |-> TRUE]
MCHistory == {<<Fine(2), Fine(4)>>, <<Fine(2), Bad(4), Fine(3), Fine(3)>>}
=============================================================================
