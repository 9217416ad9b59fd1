----------------------------- MODULE DesignSpace -----------------------------
(***************************************************************************)
(* The hierarchies a chip may be given, council_loop/space.py: a ladder of *)
(* shapes around the one each level ships with, and the budget a whole     *)
(* design must keep.  A shape is a pair of sets and ways, a hierarchy a    *)
(* shape of each level.  Areas, leakages and watts are in whole units.     *)
(*                                                                         *)
(* What chip.py says of a shape is a constant (CactiLadder says where it   *)
(* comes from).  The knobs that shape nothing are left out.                *)
(***************************************************************************)
EXTENDS Integers, FiniteSets

Level == {"L1D", "L2C", "LLC"}

CONSTANTS
  Ship,           \* Ship[l]: the shape level l of the chip ships with
  LADDER_DOWN, LADDER_UP, WAYS_MENU,
  NoNumbers,      \* NoNumbers[l]: the shapes of level l CACTI does not characterise
  Area, Leakage, Latency,  \* Area[l][s] and so on: those of shape s at level l
  AreaBudget,     \* in silicon, or NoCap
  AreaBudgetKb,   \* in blocks of the L2 and the LLC, where silicon is not capped
  PowerBudget,    \* or NoCap
  NoCap

Blocks(s) == s[1] * s[2]

-----------------------------------------------------------------------------
(***************************************************************************)
(* The space.                                                              *)
(***************************************************************************)

\* A level that breaks a cap on its own is no part of a legal design.
LevelIsBuildable(l, s) ==
  /\ s \notin NoNumbers[l]
  /\ AreaBudget # NoCap => Area[l][s] <= AreaBudget
  /\ PowerBudget # NoCap => Leakage[l][s] <= PowerBudget

FewestCandidates(l) ==
  LET down == Ship[l][1] \div LADDER_DOWN IN IF down > 1 THEN down ELSE 1

\* Doubling from a fraction of the shipped sets up to a multiple of them.
CandidateSets(l) ==
  {n \in 1..(LADDER_UP * Ship[l][1]) : \E k \in 0..n : n = FewestCandidates(l) * 2 ^ k}

CandidateWays(l) == WAYS_MENU \cup {Ship[l][2]}

CandidateShapes(l) == CandidateSets(l) \X CandidateWays(l)

\* shape_ladder: what some buildable shape of the level uses.  A pair of the two
\* need not be buildable itself.
UsableSets(l) == {s[1] : s \in {c \in CandidateShapes(l) : LevelIsBuildable(l, c)}}
UsableWays(l) == {s[2] : s \in {c \in CandidateShapes(l) : LevelIsBuildable(l, c)}}

InSpace(h) == \A l \in Level : h[l][1] \in UsableSets(l) /\ h[l][2] \in UsableWays(l)

\* stock_design: the chip as it ships is in the space, or no run begins.
StockIsInSpace == InSpace(Ship)

-----------------------------------------------------------------------------
(***************************************************************************)
(* The budget of a hierarchy whose shapes have numbers.                    *)
(***************************************************************************)

CacheAreaKb(h) == Blocks(h["L2C"]) + Blocks(h["LLC"])

SiliconMm2(h) == Area["L1D"][h["L1D"]] + Area["L2C"][h["L2C"]] + Area["LLC"][h["LLC"]]

LeakageW(h) == Leakage["L1D"][h["L1D"]] + Leakage["L2C"][h["L2C"]] + Leakage["LLC"][h["LLC"]]

\* The outer level holds no less than the inner one and answers no faster.
Backs(outer, inner, h) ==
  /\ Blocks(h[outer]) >= Blocks(h[inner])
  /\ Latency[outer][h[outer]] >= Latency[inner][h[inner]]

HierarchyIsOrdered(h) == Backs("L2C", "L1D", h) /\ Backs("LLC", "L2C", h)

OverPower(watts) == PowerBudget # NoCap /\ watts > PowerBudget

WithinBudget(h) ==
  /\ ~OverPower(LeakageW(h))
  /\ HierarchyIsOrdered(h)
  /\ IF AreaBudget # NoCap THEN SiliconMm2(h) <= AreaBudget ELSE CacheAreaKb(h) <= AreaBudgetKb

ASSUME SpaceAssumption ==
  /\ Ship \in [Level -> (Nat \ {0}) \X (Nat \ {0})]
  /\ LADDER_DOWN \in Nat \ {0} /\ LADDER_UP \in Nat \ {0}
  /\ WAYS_MENU \subseteq Nat \ {0} /\ IsFiniteSet(WAYS_MENU)
  /\ \A l \in Level : \A s \in CandidateShapes(l) :
       Area[l][s] \in Nat /\ Leakage[l][s] \in Nat /\ Latency[l][s] \in Nat
  /\ AreaBudget \in Nat \cup {NoCap} /\ PowerBudget \in Nat \cup {NoCap} /\ AreaBudgetKb \in Nat
  /\ NoCap \notin Nat

ASSUME StockIsInSpace
=============================================================================
