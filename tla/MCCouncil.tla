------------------------------ MODULE MCCouncil ------------------------------
(***************************************************************************)
(* Small chips for the council's search.  Two knobs: the sets of the L2    *)
(* (two values) and of the LLC (four).  An L2 step costs two units of      *)
(* silicon, an LLC step one, and the cap is three, so growing both levels  *)
(* does not fit: six of the eight designs are buildable.                   *)
(***************************************************************************)
EXTENDS CouncilProperties

MCKnob == {"l2", "llc"}
MCSearchSpace == [k \in MCKnob |-> IF k = "l2" THEN 0..1 ELSE 0..3]
MCLevelOf == [k \in MCKnob |-> k]
MCOrder == <<"geometry", "concurrency">>
MCConcernKnobs == [c \in {"geometry", "concurrency"} |->
                      IF c = "geometry" THEN {"llc"} ELSE {"l2"}]

Chip(a, b) == [k \in MCKnob |-> IF k = "l2" THEN a ELSE b]
MCDesign == {Chip(a, b) : a \in 0..1, b \in 0..3}
MCBuildable == {d \in MCDesign : 2 * d["l2"] + d["llc"] <= 3}
MCStock == Chip(0, 0)
MCPool == {Chip(0, 3), Chip(1, 1)}
MCRandom == {Chip(0, 1), Chip(1, 0)}
MCSheet == {Chip(1, 1)}
MCInterruptible == {Chip(1, 0)}
MCNone == {}

\* Power: the largest LLC is the fastest design and the cap refuses it.  Crash:
\* the best buildable design does not run.  Flat: two designs tie.
Says(score, broken, runs) == [score |-> score, broken |-> broken, runs |-> runs]
PowerLandscape ==
  [d \in MCDesign |->
     IF d["llc"] = 3 THEN Says(9, "power", TRUE)
     ELSE Says(2 + 2 * d["l2"] + d["llc"], "none", TRUE)]
CrashLandscape ==
  [d \in MCDesign |->
     IF d = Chip(1, 1) THEN Says(0, "none", FALSE)
     ELSE IF d = Chip(0, 2) THEN Says(8, "floor", TRUE)
     ELSE Says(2 + d["l2"] + d["llc"], "none", TRUE)]
FlatLandscape ==
  [d \in MCDesign |-> Says(IF d = MCStock THEN 2 ELSE 3, "none", d # Chip(0, 3))]

AllLandscapes == {PowerLandscape, CrashLandscape, FlatLandscape}
=============================================================================
