---------------------------- MODULE MCModelAccess ----------------------------
(***************************************************************************)
(* Two specialists of one run and the analyst of another ask for one       *)
(* prompt each; an answer is asked for twice at most.                      *)
(***************************************************************************)
EXTENDS ModelAccessProperties

CONSTANTS t1, t2, t3, p1, p2

MCThread == {t1, t2, t3}
MCProcess == {p1, p2}
MCProcessOf == [t \in MCThread |-> IF t = t3 THEN p2 ELSE p1]
=============================================================================
