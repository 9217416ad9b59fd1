---------------------------- MODULE MCCirctAssess ----------------------------
(***************************************************************************)
(* A pass over three issues, gated or plain; a prompt is waited for twice. *)
(***************************************************************************)
EXTENDS CirctAssess

CONSTANTS i1, i2, i3

MCIssues == <<i1, i2, i3>>
=============================================================================
