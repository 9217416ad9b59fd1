------------------------------ MODULE MCRandom ------------------------------
(***************************************************************************)
(* A small space for the random arm: six designs, the stock among them, of *)
(* which three, four or five are feasible; a budget of two and two designs *)
(* to spare.  Up to three of the designs do not run, one may be killed.    *)
(***************************************************************************)
EXTENDS RandomSearch

CONSTANTS stock, d1, d2, d3, d4, d5

MCDesign == {stock, d1, d2, d3, d4, d5}
MCChips == {{stock, d1, d2}, {stock, d1, d2, d3}, {d1, d2, d3, d4}, {stock, d1, d2, d3, d4}}
MCRuns == {good \in SUBSET MCDesign : {stock, d5} \subseteq good}
MCKilled == {d1}
=============================================================================
