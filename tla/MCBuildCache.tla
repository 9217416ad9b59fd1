----------------------------- MODULE MCBuildCache -----------------------------
(***************************************************************************)
(* Three threads of two processes, two binaries and fewer trees than       *)
(* builders: every thread may want the same binary or another one.         *)
(***************************************************************************)
EXTENDS BuildCacheProperties

CONSTANTS t1, t2, t3, p1, p2

MCThread == {t1, t2, t3}
MCProcess == {p1, p2}
MCProcessOf == [t \in MCThread |-> IF t = t3 THEN p2 ELSE p1]
=============================================================================
