---------------------------- MODULE MCLedgerNode ----------------------------
(***************************************************************************)
(* Two workers record two rows each.                                       *)
(***************************************************************************)
EXTENDS LedgerNode

CONSTANTS w1, w2

MCWorker == {w1, w2}
=============================================================================
