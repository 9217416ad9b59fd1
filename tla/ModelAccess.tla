----------------------------- MODULE ModelAccess -----------------------------
(***************************************************************************)
(* How the council reaches its model, council_loop/analyst.py:ask: a gate  *)
(* asks the process's one decider about the prompt, the node calls the     *)
(* model, every call is written to the shared logs, and an answer that is  *)
(* not JSON is asked for again.  The threads are the analyst and the       *)
(* specialists of several runs.                                            *)
(*                                                                         *)
(* A call log row is appended by one write, without a lock.  The running   *)
(* totals are read, then truncated, then written, under a lock.  Rows are  *)
(* counted; tokens and money are one call of one unit.                     *)
(***************************************************************************)
EXTENDS Integers, FiniteSets

CONSTANTS
  Thread,         \* the threads that ask
  Process,        \* the processes they run in
  ProcessOf,      \* ProcessOf[t]: the process of thread t
  Asks,           \* how many prompts a thread asks, at most
  Attempts,       \* how often a malformed answer is asked for (5 in the code)
  MaxCrashes,     \* how many processes may die, at most
  NoOne           \* no thread

ASSUME AccessAssumption ==
  /\ ProcessOf \in [Thread -> Process]
  /\ IsFiniteSet(Thread)
  /\ Asks \in Nat /\ Attempts \in Nat \ {0} /\ MaxCrashes \in Nat
  /\ NoOne \notin Thread

VARIABLES
  pc,             \* where thread t is
  asked,          \* asked[t]: the prompts it has asked
  gated,          \* gated[t]: what the gate said of this prompt, if anything
  attempt,        \* attempt[t]: the calls this prompt has cost
  gateRows,       \* gateRows[t]: its rows in the gate log
  usage,          \* usage[t]: whose question its last gate row reports
  got,            \* got[t]: what came of its last prompt
  lastUsage,      \* lastUsage[p]: whose question p's decider answered last
  rows,           \* how many rows the call log holds
  total,          \* the calls the totals count
  content,        \* of the totals: missing, torn (truncated) or whole
  lock,           \* who holds the lock beside the totals
  read,           \* read[t]: the total t has read and not yet written
  orphans,        \* rows whose call never reached the totals
  crashes

vars == <<pc, asked, gated, attempt, gateRows, usage, got, lastUsage, rows, total, content,
          lock, read, orphans, crashes>>
prompt == <<asked, gated, attempt, gateRows, usage, got>>
totals == <<total, content, lock, read>>

Init ==
  /\ pc = [t \in Thread |-> "idle"]
  /\ asked = [t \in Thread |-> 0]
  /\ gated = [t \in Thread |-> "none"]
  /\ attempt = [t \in Thread |-> 0]
  /\ gateRows = [t \in Thread |-> 0]
  /\ usage = [t \in Thread |-> NoOne]
  /\ got = [t \in Thread |-> "none"]
  /\ lastUsage = [p \in Process |-> NoOne]
  /\ rows = 0 /\ total = 0 /\ content = "missing"
  /\ lock = NoOne
  /\ read = [t \in Thread |-> 0]
  /\ orphans = 0 /\ crashes = 0

Goto(t, place) == pc' = [pc EXCEPT ![t] = place]

\* The prompt ends: with an answer, or with an exception its caller catches.
End(t, how) == Goto(t, "idle") /\ got' = [got EXCEPT ![t] = how]

-----------------------------------------------------------------------------
(***************************************************************************)
(* The prompt and its gate.                                                *)
(***************************************************************************)

Ask(t) ==
  /\ pc[t] = "idle"
  /\ asked[t] < Asks
  /\ asked' = [asked EXCEPT ![t] = @ + 1]
  /\ gated' = [gated EXCEPT ![t] = "none"]
  /\ attempt' = [attempt EXCEPT ![t] = 0]
  /\ gateRows' = [gateRows EXCEPT ![t] = 0]
  /\ usage' = [usage EXCEPT ![t] = NoOne]
  /\ got' = [got EXCEPT ![t] = "none"]
  /\ Goto(t, "gate")
  /\ UNCHANGED <<lastUsage, rows, orphans, crashes>>
  /\ UNCHANGED totals

\* The decider keeps the usage of the question it answered last.
UsageOf(t) == [lastUsage EXCEPT ![ProcessOf[t]] = t]

Gate(t) ==
  /\ pc[t] = "gate"
  /\ gated' = [gated EXCEPT ![t] = "verdict"]
  /\ lastUsage' = UsageOf(t)
  /\ Goto(t, "call")
  /\ UNCHANGED <<asked, attempt, gateRows, usage, got, rows, orphans, crashes>>
  /\ UNCHANGED totals

\* The decider does not answer, or answers what the gate cannot read; the
\* prompt goes ungated.
GateFails(t) ==
  /\ pc[t] = "gate"
  /\ lastUsage' \in {lastUsage, UsageOf(t)}
  /\ Goto(t, "call")
  /\ UNCHANGED <<rows, orphans, crashes>>
  /\ UNCHANGED prompt
  /\ UNCHANGED totals

-----------------------------------------------------------------------------
(***************************************************************************)
(* The call, and the rows it leaves.                                       *)
(***************************************************************************)

\* The model answered; log_cost appends the call's row.
Call(t) ==
  /\ pc[t] = "call"
  /\ attempt' = [attempt EXCEPT ![t] = @ + 1]
  /\ rows' = rows + 1
  /\ Goto(t, "totals")
  /\ UNCHANGED <<asked, gated, gateRows, usage, got, lastUsage, orphans, crashes>>
  /\ UNCHANGED totals

\* The node gave up after its own retries: no answer, no row.
CallFails(t) ==
  /\ pc[t] = "call"
  /\ End(t, "no call")
  /\ UNCHANGED <<asked, gated, attempt, gateRows, usage, lastUsage, rows, orphans, crashes>>
  /\ UNCHANGED totals

\* Faulty variant: nobody waits for the lock.
NoLock == TRUE

LockIsFree == lock = NoOne

\* The totals are read under the lock.
Load(t) ==
  /\ pc[t] = "totals"
  /\ LockIsFree
  /\ content # "torn"
  /\ lock' = t
  /\ read' = [read EXCEPT ![t] = total]
  /\ Goto(t, "truncate")
  /\ UNCHANGED <<lastUsage, rows, total, content, orphans, crashes>>
  /\ UNCHANGED prompt

\* A file that was left empty cannot be read: ask raises, its answer is lost.
LoadFails(t) ==
  /\ pc[t] = "totals"
  /\ LockIsFree
  /\ content = "torn"
  /\ orphans' = orphans + 1
  /\ End(t, "wasted")
  /\ UNCHANGED <<asked, gated, attempt, gateRows, usage, lastUsage, rows, crashes>>
  /\ UNCHANGED totals

WaitForLock(t) == pc[t] = "totals" /\ ~LockIsFree /\ UNCHANGED vars

\* Faulty variant: the lock is let go before the file is filled again.
LetGo == NoOne

StillHeld == lock

Truncate(t) ==
  /\ pc[t] = "truncate"
  /\ content' = "torn"
  /\ lock' = StillHeld
  /\ Goto(t, "fill")
  /\ UNCHANGED <<lastUsage, rows, total, read, orphans, crashes>>
  /\ UNCHANGED prompt

\* Faulty variant: the lock is kept.
KeepLock == lock

Released == NoOne

LogsGate(t) == gated[t] # "none"

Fill(t) ==
  /\ pc[t] = "fill"
  /\ total' = read[t] + 1
  /\ content' = "whole"
  /\ lock' = Released
  /\ read' = [read EXCEPT ![t] = 0]
  /\ Goto(t, IF LogsGate(t) THEN "gate row" ELSE "parse")
  /\ UNCHANGED <<lastUsage, rows, orphans, crashes>>
  /\ UNCHANGED prompt

\* log_gate: the row takes the usage the decider holds now.  It is appended
\* under a lock of its own, which is free again before anything else happens.
LogGate(t) ==
  /\ pc[t] = "gate row"
  /\ gateRows' = [gateRows EXCEPT ![t] = @ + 1]
  /\ usage' = [usage EXCEPT ![t] = lastUsage[ProcessOf[t]]]
  /\ Goto(t, "parse")
  /\ UNCHANGED <<asked, gated, attempt, got, lastUsage, rows, orphans, crashes>>
  /\ UNCHANGED totals

-----------------------------------------------------------------------------
Answer(t) ==
  /\ pc[t] = "parse"
  /\ End(t, "answer")
  /\ UNCHANGED <<asked, gated, attempt, gateRows, usage, lastUsage, rows, orphans, crashes>>
  /\ UNCHANGED totals

MayTryAgain(t) == attempt[t] < Attempts

\* Not JSON: another call, of its own cost; after the last one ask raises.
Malformed(t) ==
  /\ pc[t] = "parse"
  /\ \/ MayTryAgain(t) /\ Goto(t, "call") /\ UNCHANGED got
     \/ ~MayTryAgain(t) /\ End(t, "malformed")
  /\ UNCHANGED <<asked, gated, attempt, gateRows, usage, lastUsage, rows, orphans, crashes>>
  /\ UNCHANGED totals

HasStopped(t) == pc[t] = "idle" /\ asked[t] = Asks

\* Whose row is written and whose totals are not.
Booking == {t \in Thread : pc[t] \in {"totals", "truncate", "fill"}}

\* A process dies: the kernel drops its lock, the files stay as they are, its
\* decider is gone.  The run is started over with the prompts it has left.
Crash(p) ==
  /\ crashes < MaxCrashes
  /\ \E t \in Thread : ProcessOf[t] = p /\ ~HasStopped(t)
  /\ crashes' = crashes + 1
  /\ orphans' = orphans + Cardinality({t \in Booking : ProcessOf[t] = p})
  /\ LET clean(f, v) == [t \in Thread |-> IF ProcessOf[t] = p THEN v ELSE f[t]]
     IN  /\ pc' = clean(pc, "idle")
         /\ got' = clean(got, "none")
         /\ read' = clean(read, 0)
  /\ lastUsage' = [lastUsage EXCEPT ![p] = NoOne]
  /\ lock' = IF lock # NoOne /\ ProcessOf[lock] = p THEN NoOne ELSE lock
  /\ UNCHANGED <<asked, gated, attempt, gateRows, usage, rows, total, content>>

ThreadStep(t) ==
  \/ Ask(t) \/ Gate(t) \/ GateFails(t)
  \/ Call(t) \/ CallFails(t)
  \/ Load(t) \/ LoadFails(t) \/ WaitForLock(t) \/ Truncate(t) \/ Fill(t)
  \/ LogGate(t) \/ Answer(t) \/ Malformed(t)

Finished == (\A t \in Thread : HasStopped(t)) /\ UNCHANGED vars

Next ==
  \/ \E t \in Thread : ThreadStep(t)
  \/ \E p \in Process : Crash(p)
  \/ Finished

Spec == Init /\ [][Next]_vars

\* Every thread is scheduled; the node's call ends because it runs under a
\* timeout and a bounded number of retries.
FairSpec == Spec /\ \A t \in Thread : WF_vars(ThreadStep(t))
=============================================================================
