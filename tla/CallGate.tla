------------------------------- MODULE CallGate -------------------------------
(***************************************************************************)
(* The call gate, chia/models/call_gate.py: a decider rates each optional  *)
(* call, and a call rated under the threshold is not worth making.  A      *)
(* probability is what the threshold makes of it.                          *)
(***************************************************************************)

\* The decider's rating of a call: under the threshold, not under it, or no
\* rating at all.
Rating == {"low", "high", "missing"}

\* A call the decider says nothing of counts as certain to be worth making.
Probability(rating) == IF rating = "missing" THEN "high" ELSE rating

\* In shadow mode every call is made, in apply mode those not rated low.
Consult(mode, rating) == mode = "shadow" \/ Probability(rating) = "high"
=============================================================================
