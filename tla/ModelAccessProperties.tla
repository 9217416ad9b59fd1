------------------------ MODULE ModelAccessProperties ------------------------
(***************************************************************************)
(* What ModelAccess must keep to, and the inductive invariant of           *)
(* ModelAccessProofs.                                                      *)
(***************************************************************************)
EXTENDS ModelAccess

\* Every variable has its type (analyst.py:156-215).
TypeOK ==
  /\ pc \in [Thread -> {"idle", "gate", "call", "totals", "truncate", "fill", "gate row", "parse"}]
  /\ asked \in [Thread -> Nat]
  /\ gated \in [Thread -> {"none", "verdict"}]
  /\ attempt \in [Thread -> Nat] /\ gateRows \in [Thread -> Nat]
  /\ usage \in [Thread -> Thread \cup {NoOne}]
  /\ got \in [Thread -> {"none", "answer", "malformed", "no call", "wasted"}]
  /\ lastUsage \in [Process -> Thread \cup {NoOne}]
  /\ rows \in Nat /\ total \in Nat /\ orphans \in Nat
  /\ content \in {"missing", "torn", "whole"}
  /\ lock \in Thread \cup {NoOne}
  /\ read \in [Thread -> Nat]
  /\ crashes \in Nat

\* "Append one row for this call ... and add it to the running totals"
\* (analyst.py:187-190): whenever the totals can be read they count every row
\* of the call log, but for the calls being booked and those that a death or an
\* unreadable file kept from the totals.
TotalsCountTheRows ==
  content # "torn" =>
    rows = total + orphans + Cardinality(Booking)

\* The totals are left unreadable, and an answer that was paid for thrown away,
\* only after a process died (analyst.py:213).
WastedOnlyAfterDeath ==
  \A t \in Thread : got[t] = "wasted" => crashes > 0

\* "One row per gated call" (analyst.py:122): when a prompt is answered the
\* gate log holds a row of each call it cost, the malformed ones included, and
\* none when the gate failed.
OneRowPerGatedCall ==
  \A t \in Thread :
    got[t] \in {"answer", "malformed"} =>
      gateRows[t] = IF gated[t] # "none" THEN attempt[t] ELSE 0

\* "The gate's estimate and verdict ... and the decider's own usage"
\* (analyst.py:122, context_gate.py:160-162): the usage in a gate row is that of
\* the question about the row's own prompt.  It need not be: README, section 6.
UsageIsOwn == \A t \in Thread : gateRows[t] > 0 => usage[t] = t

\* Every prompt is answered or fails, whoever holds the lock or died with it.
EveryPromptEnds == \A t \in Thread : <>[]HasStopped(t)

-----------------------------------------------------------------------------
(***************************************************************************)
(* The inductive invariant of ModelAccessProofs: who is between its load   *)
(* and its fill holds the lock and knows the total, and the file is torn   *)
(* only while someone fills it or after a death.                           *)
(***************************************************************************)

BookingHoldsTheLock ==
  \A t \in Thread :
    /\ pc[t] \in {"truncate", "fill"} => lock = t /\ read[t] = total
    /\ pc[t] = "truncate" => content # "torn"

TornWhileFilled ==
  (content = "torn" /\ crashes = 0) => lock # NoOne /\ pc[lock] = "fill"

GateRowsSoFar ==
  \A t \in Thread :
    /\ pc[t] # "idle" => got[t] = "none"
    /\ pc[t] = "gate" => gated[t] = "none" /\ attempt[t] = 0 /\ gateRows[t] = 0
    /\ pc[t] \in {"call", "parse"} => gateRows[t] = IF gated[t] # "none" THEN attempt[t] ELSE 0
    /\ pc[t] \in {"totals", "truncate", "fill"} =>
         attempt[t] > 0 /\ gateRows[t] = IF gated[t] # "none" THEN attempt[t] - 1 ELSE 0
    /\ pc[t] = "gate row" => gated[t] # "none" /\ attempt[t] > 0 /\ gateRows[t] = attempt[t] - 1

CallsAddUp == rows = total + orphans + Cardinality(Booking)

IInv ==
  /\ TypeOK /\ CallsAddUp /\ BookingHoldsTheLock /\ TornWhileFilled /\ GateRowsSoFar
  /\ WastedOnlyAfterDeath /\ OneRowPerGatedCall
=============================================================================
