------------------------------- MODULE SpendCap -------------------------------
(***************************************************************************)
(* The loop-wide cap on model spend, chia/trace/spend.py:LLMSpend: a JSON  *)
(* file of totals that the processes of a run share.  A process constructs *)
(* the object, which creates the file when there is none, then makes model *)
(* calls and charges each after it was made.  A charge works under an      *)
(* exclusive lock; the creation does not, and a write truncates the file   *)
(* before it fills it.                                                     *)
(***************************************************************************)
EXTENDS Integers, FiniteSets, FiniteSetsExt

CONSTANTS
  Process,
  Cost,          \* what one call may cost, a positive number of units
  Cap,           \* the cap, in the same units
  Calls,         \* how many calls one process makes, at most
  MaxCrashes,    \* how many processes may die, at most
  NoOne          \* the holder of a free lock

ASSUME SpendAssumption ==
  /\ IsFiniteSet(Process) /\ NoOne \notin Process
  /\ Cost \subseteq Nat \ {0}
  /\ \E dearest \in Cost : \A cost \in Cost : cost <= dearest   \* answers have a length limit
  /\ Cap \in Nat /\ Calls \in Nat /\ MaxCrashes \in Nat

VARIABLES
  existed,       \* whether the file was there before the run, fixed
  content,       \* what the file is: "missing", "torn" or "whole"
  total,         \* the total it holds when it is whole
  lock,          \* who holds the lock beside it
  pc,            \* where a process is
  call,          \* the cost of a process's call, from the call to its charge
  read,          \* the total a process read under the lock
  made,          \* how many calls a process made
  billed,        \* all that was spent at the provider
  charged,       \* all that was charged, refused charges not counted
  crashes

vars == <<existed, content, total, lock, pc, call, read, made, billed, charged, crashes>>
disk == <<existed, content, total>>
spent == <<billed, charged>>

Init ==
  /\ existed \in BOOLEAN
  /\ content = IF existed THEN "whole" ELSE "missing"
  /\ total = 0
  /\ lock = NoOne
  /\ pc = [p \in Process |-> "new"]
  /\ call = [p \in Process |-> 0]
  /\ read = [p \in Process |-> 0]
  /\ made = [p \in Process |-> 0]
  /\ billed = 0 /\ charged = 0
  /\ crashes = 0

Goto(p, place) == pc' = [pc EXCEPT ![p] = place]

-----------------------------------------------------------------------------
(***************************************************************************)
(* The object is made: the file is looked for, opened, filled.  No lock.   *)
(***************************************************************************)

Construct(p) ==
  /\ pc[p] = "new"
  /\ Goto(p, IF content = "missing" THEN "create" ELSE "ready")
  /\ UNCHANGED <<disk, lock, call, read, made, spent, crashes>>

\* Opening for writing empties the file, one made meanwhile too.
Create(p) ==
  /\ pc[p] = "create"
  /\ content' = "torn"
  /\ Goto(p, "fill")
  /\ UNCHANGED <<existed, total, lock, call, read, made, spent, crashes>>

Fill(p) ==
  /\ pc[p] = "fill"
  /\ content' = "whole"
  /\ total' = 0
  /\ Goto(p, "ready")
  /\ UNCHANGED <<existed, lock, call, read, made, spent, crashes>>

-----------------------------------------------------------------------------
(***************************************************************************)
(* A model call, and its charge.                                           *)
(***************************************************************************)

\* The provider bills the call when it is made.
ModelCall(p) ==
  /\ pc[p] = "ready"
  /\ made[p] < Calls
  /\ \E cost \in Cost : /\ call' = [call EXCEPT ![p] = cost]
                        /\ billed' = billed + cost
  /\ made' = [made EXCEPT ![p] = @ + 1]
  /\ Goto(p, "charge")
  /\ UNCHANGED <<disk, lock, read, charged, crashes>>

\* Faulty variant: charges are not serialised.
NoLock == TRUE

LockIsFree == lock = NoOne

\* The lock is taken and the file read; a file that is torn or missing is an
\* error, which lets the lock go and ends the loop.
Read(p) ==
  /\ pc[p] = "charge"
  /\ LockIsFree
  /\ IF content = "whole"
       THEN /\ lock' = p
            /\ read' = [read EXCEPT ![p] = total]
            /\ Goto(p, "decide")
            /\ UNCHANGED call
       ELSE /\ call' = [call EXCEPT ![p] = 0]
            /\ Goto(p, "failed")
            /\ UNCHANGED <<lock, read>>
  /\ UNCHANGED <<disk, made, spent, crashes>>

\* Faulty variant: the cap is compared without the call being charged.
OverBefore(p) == read[p] > Cap

Over(p) == read[p] + call[p] > Cap

\* The charge that would pass the cap is refused and not recorded; its call was
\* made.  SpendExhausted ends the loop.
Refuse(p) ==
  /\ pc[p] = "decide"
  /\ Over(p)
  /\ lock' = NoOne
  /\ call' = [call EXCEPT ![p] = 0]
  /\ read' = [read EXCEPT ![p] = 0]
  /\ Goto(p, "exhausted")
  /\ UNCHANGED <<disk, made, spent, crashes>>

\* The file is opened for the new total, which empties it.
Truncate(p) ==
  /\ pc[p] = "decide"
  /\ ~Over(p)
  /\ content' = "torn"
  /\ Goto(p, "write")
  /\ UNCHANGED <<existed, total, lock, call, read, made, spent, crashes>>

\* Faulty variant: a charge keeps the lock.
KeepLock == lock

Released == NoOne

Write(p) ==
  /\ pc[p] = "write"
  /\ content' = "whole"
  /\ total' = read[p] + call[p]
  /\ charged' = charged + call[p]
  /\ lock' = Released
  /\ call' = [call EXCEPT ![p] = 0]
  /\ read' = [read EXCEPT ![p] = 0]
  /\ Goto(p, "ready")
  /\ UNCHANGED <<existed, made, billed, crashes>>

\* A waiting charge tries the lock again.
WaitForLock(p) ==
  /\ pc[p] = "charge"
  /\ ~LockIsFree
  /\ UNCHANGED vars

-----------------------------------------------------------------------------
Stopped == {"exhausted", "failed"}

\* A process dies: the kernel drops its lock, the file stays as it is, a call it
\* had not charged is lost, and the run is started over.
Crash(p) ==
  /\ crashes < MaxCrashes
  /\ pc[p] \notin Stopped
  /\ crashes' = crashes + 1
  /\ call' = [call EXCEPT ![p] = 0]
  /\ read' = [read EXCEPT ![p] = 0]
  /\ lock' = IF lock = p THEN NoOne ELSE lock
  /\ Goto(p, "new")
  /\ UNCHANGED <<disk, made, spent>>

ProcessStep(p) ==
  \/ Construct(p) \/ Create(p) \/ Fill(p)
  \/ ModelCall(p) \/ Read(p) \/ WaitForLock(p) \/ Refuse(p) \/ Truncate(p) \/ Write(p)

HasStopped(p) == pc[p] \in Stopped \/ (pc[p] = "ready" /\ made[p] = Calls)

Finished == (\A p \in Process : HasStopped(p)) /\ UNCHANGED vars

Next ==
  \/ \E p \in Process : ProcessStep(p) \/ Crash(p)
  \/ Finished

Spec == Init /\ [][Next]_vars

\* Every process is scheduled; each charges finitely often, so the lock comes
\* round.
FairSpec == Spec /\ \A p \in Process : WF_vars(ProcessStep(p))

-----------------------------------------------------------------------------
(***************************************************************************)
(* What the cap must keep to.                                              *)
(***************************************************************************)

\* Every variable has its type (spend.py:LLMSpend).
TypeOK ==
  /\ existed \in BOOLEAN
  /\ content \in {"missing", "torn", "whole"}
  /\ total \in Nat /\ billed \in Nat /\ charged \in Nat
  /\ lock \in Process \cup {NoOne}
  /\ pc \in [Process -> {"new", "create", "fill", "ready", "charge", "decide", "write",
                         "exhausted", "failed"}]
  /\ call \in [Process -> {0} \cup Cost]
  /\ read \in [Process -> Nat]
  /\ made \in [Process -> 0..Calls]
  /\ crashes \in 0..MaxCrashes

\* No charge is lost: with the file there before the run, a whole file holds
\* all that was charged, by whichever process (spend.py:168-170).
NoChargeLost == (existed /\ content = "whole") => total = charged

\* "The processes of one run share one cap" (spend.py:169), also the processes that
\* find no file: it fails, see NoChargeLost.
OneCapForAll == content = "whole" => total = charged

\* What is charged then never passes the cap (spend.py:196-199).
ChargedWithinCap == existed => charged <= Cap

\* The provider bills at most the cap, one refused or pending call of each
\* process and one lost call of each death: the most a run can overspend.
OverspendBounded ==
  existed => billed <= Cap + (Cardinality(Process) + MaxCrashes) * Max(Cost)

\* Every process ends its calls or is stopped, whether the file was there or
\* not, whole or torn.
EveryLoopStops == \A p \in Process : <>[]HasStopped(p)

-----------------------------------------------------------------------------
(***************************************************************************)
(* The inductive invariant of SpendCapProofs.  When the file was there     *)
(* before the run, whoever is between its read and its write holds the     *)
(* lock and knows the total.                                               *)
(***************************************************************************)

ChargesAreSerial ==
  /\ \A p \in Process : /\ pc[p] \notin {"create", "fill"}
                        /\ pc[p] \in {"decide", "write"} => lock = p /\ read[p] = total
                        /\ pc[p] = "write" => ~Over(p)
  /\ content # "missing"

SerialInv == TypeOK /\ ChargesAreSerial /\ total = charged /\ charged <= Cap

IInv == TypeOK /\ (existed => SerialInv)

-----------------------------------------------------------------------------
(***************************************************************************)
(* The accounts behind OverspendBounded: what was billed and not charged   *)
(* is owed by a process, for a call it has yet to charge or was refused,   *)
(* or was lost with one that died.                                         *)
(***************************************************************************)

\* sums[S] is what the processes of S owe together.
AddsUp(sums, owed) ==
  /\ sums \in [SUBSET Process -> Nat]
  /\ sums[{}] = 0
  /\ \A S \in SUBSET Process : \A p \in Process \ S : sums[S \cup {p}] = sums[S] + owed[p]

\* A process owes the call it is charging, nothing between its calls, and at
\* most one call after it stopped; each death lost at most one.
Account(owed, lost) ==
  /\ owed \in [Process -> 0..Max(Cost)]
  /\ \A p \in Process :
       /\ pc[p] \in {"charge", "decide", "write"} => owed[p] = call[p]
       /\ pc[p] \in {"new", "create", "fill", "ready"} => owed[p] = 0
  /\ lost \in Nat /\ lost <= crashes * Max(Cost)

BilledIsAccounted ==
  \E owed, lost, sums : /\ Account(owed, lost) /\ AddsUp(sums, owed)
                       /\ billed = charged + sums[Process] + lost
=============================================================================
