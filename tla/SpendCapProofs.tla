---------------------------- MODULE SpendCapProofs ----------------------------
(***************************************************************************)
(* Proofs about the spend cap, for any processes, costs, cap and deaths,   *)
(* when the file is there before the run: no charge is lost, the charges   *)
(* stay within the cap, and what was billed goes past it by at most one    *)
(* call of each process and one of each death.                             *)
(*                                                                         *)
(* At the end, for another program that pays for prompts: a pass of the    *)
(* assessment replica, whose module shares no name with this one.          *)
(***************************************************************************)
EXTENDS SpendCap, CirctAssess, FiniteSetTheorems, WellFoundedInduction, TLAPS

\* The file there is holds a total of nothing.
LEMMA InvInit == Init => IInv
BY SpendAssumption DEF Init, IInv, SerialInv, TypeOK, ChargesAreSerial, Over

\* A step outside the charge leaves the file alone.
LEMMA OutsideKeeps ==
  ASSUME SerialInv, NEW p \in Process,
         Construct(p) \/ ModelCall(p) \/ Crash(p)
  PROVE  SerialInv'
<1> USE SpendAssumption
    DEF SerialInv, Construct, ModelCall, Crash, Goto, disk, spent, Stopped
<1>1. ASSUME Construct(p) PROVE SerialInv'
  BY <1>1 DEF TypeOK, ChargesAreSerial, Over
<1>2. ASSUME ModelCall(p) PROVE SerialInv'
  <2>1. TypeOK'
    BY <1>2 DEF TypeOK
  <2>2. ChargesAreSerial'
    BY <1>2 DEF TypeOK, ChargesAreSerial, Over
  <2> QED
    BY <1>2, <2>1, <2>2
<1>3. ASSUME Crash(p) PROVE SerialInv'
  <2>1. TypeOK'
    BY <1>3 DEF TypeOK
  <2>2. ChargesAreSerial'
    BY <1>3 DEF TypeOK, ChargesAreSerial, Over
  <2> QED
    BY <1>3, <2>1, <2>2
<1> QED  BY <1>1, <1>2, <1>3

\* Nobody creates a file that is there.
LEMMA NobodyCreates ==
  ASSUME SerialInv, NEW p \in Process PROVE ~Create(p) /\ ~Fill(p)
BY DEF SerialInv, ChargesAreSerial, Create, Fill

\* The lock is taken by one process, which then knows the total.
LEMMA ReadKeeps == ASSUME SerialInv, NEW p \in Process, Read(p) PROVE SerialInv'
<1> USE SpendAssumption DEF SerialInv, Read, LockIsFree, Goto, disk, spent
<1>1. TypeOK'
  BY DEF TypeOK
<1>2. ChargesAreSerial'
  BY DEF TypeOK, ChargesAreSerial, Over
<1> QED
  BY <1>1, <1>2

\* A refusal changes no total.
LEMMA RefuseKeeps == ASSUME SerialInv, NEW p \in Process, Refuse(p) PROVE SerialInv'
<1> USE SpendAssumption DEF SerialInv, Refuse, Goto, disk, spent
<1>1. TypeOK'
  BY DEF TypeOK
<1>2. ChargesAreSerial'
  BY DEF TypeOK, ChargesAreSerial, Over
<1> QED
  BY <1>1, <1>2

\* The file is emptied only for a charge within the cap.
LEMMA TruncateKeeps == ASSUME SerialInv, NEW p \in Process, Truncate(p) PROVE SerialInv'
<1> USE SpendAssumption DEF SerialInv, Truncate, Goto, spent
<1>1. TypeOK'
  BY DEF TypeOK
<1>2. ChargesAreSerial'
  BY DEF TypeOK, ChargesAreSerial, Over
<1> QED
  BY <1>1, <1>2

\* The total written is the one read, and still the file's, plus the call.
LEMMA WriteKeeps == ASSUME SerialInv, NEW p \in Process, Write(p) PROVE SerialInv'
<1> USE SpendAssumption DEF SerialInv, Write, Released, Goto
<1>1. read[p] = total /\ lock = p /\ ~(read[p] + call[p] > Cap) /\ read[p] \in Nat /\ call[p] \in Nat
  <2>1. read[p] = total /\ lock = p /\ ~(read[p] + call[p] > Cap)
    BY DEF ChargesAreSerial, Over
  <2>2. read[p] \in Nat /\ call[p] \in Nat
    <3>1. /\ read \in [Process -> Nat] /\ call \in [Process -> {0} \cup Cost]
      BY DEF TypeOK
    <3>2. \A c \in {0} \cup Cost : c \in Nat
      BY SpendAssumption
    <3> HIDE DEF SerialInv, Write, Goto
    <3> QED
      BY <3>1, <3>2
  <2> QED  BY <2>1, <2>2
<1>2. TypeOK'
  BY <1>1 DEF TypeOK
<1>3. ChargesAreSerial'
  BY <1>1 DEF TypeOK, ChargesAreSerial, Over
<1>4. (total = charged)' /\ (charged <= Cap)'
  BY <1>1, <1>2 DEF TypeOK
<1> QED
  BY <1>2, <1>3, <1>4

\* With the file there, a step keeps the charges serial.
LEMMA SerialStep == SerialInv /\ [Next]_vars => SerialInv'
<1> SUFFICES ASSUME SerialInv, [Next]_vars PROVE SerialInv'
  OBVIOUS
<1>1. CASE UNCHANGED vars
  BY <1>1 DEF vars, SerialInv, TypeOK, ChargesAreSerial, Over
<1>2. ASSUME NEW p \in Process, ProcessStep(p) \/ Crash(p) PROVE SerialInv'
  <2>1. CASE WaitForLock(p)
    BY <2>1, <1>1 DEF WaitForLock
  <2> QED
    BY <1>2, <2>1, OutsideKeeps, NobodyCreates, ReadKeeps, RefuseKeeps, TruncateKeeps, WriteKeeps
       DEF ProcessStep
<1> QED
  BY <1>1, <1>2 DEF Next, Finished

\* Whether or not the file was there, a step keeps the types.
LEMMA TypeStep == TypeOK /\ [Next]_vars => TypeOK' /\ existed' = existed
<1> SUFFICES ASSUME TypeOK, [Next]_vars PROVE TypeOK' /\ existed' = existed
  OBVIOUS
<1> USE SpendAssumption DEF TypeOK, Goto, disk, spent
<1>1. CASE UNCHANGED vars
  BY <1>1 DEF vars
<1>2. ASSUME NEW p \in Process, ProcessStep(p) \/ Crash(p) PROVE TypeOK' /\ existed' = existed
  <2>1. CASE Construct(p) \/ Create(p) \/ Fill(p)
    BY <2>1 DEF Construct, Create, Fill
  <2>2. CASE ModelCall(p)
    BY <2>2 DEF ModelCall
  <2>3. CASE Read(p) \/ Refuse(p)
    BY <2>3 DEF Read, Refuse, LockIsFree
  <2>4. CASE Truncate(p)
    BY <2>4 DEF Truncate
  <2>5. CASE Write(p)
    <3>1. read[p] \in Nat /\ call[p] \in Nat
      <4>1. \A c \in {0} \cup Cost : c \in Nat
        BY SpendAssumption
      <4> QED  BY <4>1
    <3> QED
      BY <2>5, <3>1 DEF Write, Released
  <2>6. CASE WaitForLock(p)
    BY <1>1, <2>6 DEF WaitForLock
  <2>7. CASE Crash(p)
    BY <2>7 DEF Crash, Stopped
  <2> QED
    BY <1>2, <2>1, <2>2, <2>3, <2>4, <2>5, <2>6, <2>7 DEF ProcessStep
<1> QED
  BY <1>1, <1>2 DEF Next, Finished

\* The inductive invariant holds of every run.
THEOREM Invariance == Spec => []IInv
<1>1. IInv /\ [Next]_vars => IInv'
  BY SerialStep, TypeStep DEF IInv
<1> QED  BY <1>1, InvInit, PTL DEF Spec

\* No process overwrites another's charge (spend.py:193-210).
THEOREM ChargesAddUp == Spec => []NoChargeLost
<1>1. IInv => NoChargeLost
  BY DEF IInv, SerialInv, NoChargeLost
<1> QED  BY <1>1, Invariance, PTL

\* What is charged stays within the cap (spend.py:196-200).
THEOREM CapIsKept == Spec => []ChargedWithinCap
<1>1. IInv => ChargedWithinCap
  BY DEF IInv, SerialInv, ChargedWithinCap
<1> QED  BY <1>1, Invariance, PTL
-----------------------------------------------------------------------------
(***************************************************************************)
(* What a run can overspend.  The accounts of the processes add up to what *)
(* was billed and not charged, and no account passes the dearest call.     *)
(***************************************************************************)

\* The dearest call is a cost, and no call costs more.
LEMMA DearestCall ==
  /\ Max(Cost) \in Cost /\ Max(Cost) \in Nat
  /\ \A cost \in Cost : cost <= Max(Cost)
<1>1. PICK dearest \in Cost : \A cost \in Cost : cost <= dearest
  BY SpendAssumption
<1>2. \A cost \in Cost : dearest >= cost
  BY <1>1, SpendAssumption
<1>3. Max(Cost) \in Cost /\ \A cost \in Cost : Max(Cost) >= cost
  BY <1>1, <1>2 DEF Max
<1> QED  BY <1>3, SpendAssumption

\* A set of natural numbers that has a member has a least one.
LEMMA LeastNatural ==
  ASSUME NEW T \in SUBSET Nat, T # {}
  PROVE  \E n \in T : \A m \in T : n <= m
<1>1. PICK n \in T : \A m \in T : ~(<<m, n>> \in OpToRel(<, Nat))
  BY NatLessThanWellFounded, WFMin
<1>2. \A m, k \in Nat : m < k => <<m, k>> \in OpToRel(<, Nat)
  BY DEF OpToRel
<1>3. \A m \in T : ~(m < n)
  BY <1>1, <1>2
<1> QED  BY <1>3

\* The sums follow when one account changes.
LEMMA OneAccountChanges ==
  ASSUME NEW owed \in [Process -> Nat], NEW sums, AddsUp(sums, owed),
         NEW p \in Process, NEW v \in Nat
  PROVE  \E after : /\ AddsUp(after, [owed EXCEPT ![p] = v])
                    /\ after[Process] + owed[p] = sums[Process] + v
<1> DEFINE after == [S \in SUBSET Process |-> IF p \in S THEN sums[S \ {p}] + v ELSE sums[S]]
           now == [owed EXCEPT ![p] = v]
<1>1. \A S \in SUBSET Process : sums[S] \in Nat /\ S \ {p} \in SUBSET Process
  BY DEF AddsUp
<1>2. after \in [SUBSET Process -> Nat] /\ after[{}] = 0
  BY <1>1 DEF AddsUp
<1>3. ASSUME NEW S \in SUBSET Process, NEW q \in Process \ S
      PROVE  after[S \cup {q}] = after[S] + now[q]
  <2>1. CASE q = p
    <3>1. (S \cup {q}) \ {p} = S
      BY <2>1
    <3> QED  BY <2>1, <3>1
  <2>2. CASE q # p /\ p \in S
    <3>1. (S \cup {q}) \ {p} = (S \ {p}) \cup {q} /\ q \notin S \ {p}
      BY <2>2
    <3>2. sums[(S \ {p}) \cup {q}] = sums[S \ {p}] + owed[q]
      BY <1>1, <3>1 DEF AddsUp
    <3>3. after[S \cup {q}] = sums[(S \ {p}) \cup {q}] + v /\ after[S] = sums[S \ {p}] + v
      BY <2>2, <3>1
    <3>4. now[q] = owed[q] /\ owed[q] \in Nat /\ sums[S \ {p}] \in Nat
      BY <1>1, <2>2
    <3> HIDE DEF after, now
    <3> QED  BY <3>2, <3>3, <3>4
  <2>3. CASE q # p /\ p \notin S
    <3>1. sums[S \cup {q}] = sums[S] + owed[q]
      BY DEF AddsUp
    <3> QED  BY <2>3, <3>1
  <2> QED  BY <2>1, <2>2, <2>3
<1>4. after[Process] = sums[Process \ {p}] + v /\ sums[Process] = sums[Process \ {p}] + owed[p]
  <2>1. Process = (Process \ {p}) \cup {p} /\ p \notin Process \ {p}
    OBVIOUS
  <2>2. sums[(Process \ {p}) \cup {p}] = sums[Process \ {p}] + owed[p]
    BY <1>1, <2>1 DEF AddsUp
  <2> QED  BY <2>1, <2>2
<1>5. AddsUp(after, now)
  <2> HIDE DEF after, now
  <2> QED  BY <1>2, <1>3 DEF AddsUp
<1>6. after[Process] + owed[p] = sums[Process] + v
  <2>1. owed[p] \in Nat /\ sums[Process \ {p}] \in Nat
    BY <1>1
  <2> HIDE DEF after
  <2> QED  BY <1>4, <2>1
<1> QED  BY <1>5, <1>6

\* When no account passes a bound, the processes owe at most the bound each: a
\* smallest set that owed more would, less one member, owe more too.
LEMMA EachOwesAtMost ==
  ASSUME NEW owed \in [Process -> Nat], NEW sums, AddsUp(sums, owed),
         NEW most \in Nat, \A p \in Process : owed[p] <= most
  PROVE  sums[Process] <= Cardinality(Process) * most
<1> DEFINE TooMuch == {S \in SUBSET Process : sums[S] > Cardinality(S) * most}
           Sizes == {Cardinality(S) : S \in TooMuch}
<1>1. \A S \in SUBSET Process :
         IsFiniteSet(S) /\ Cardinality(S) \in Nat /\ sums[S] \in Nat
  BY SpendAssumption, FS_Subset, FS_CardinalityType DEF AddsUp
<1>2. SUFFICES ASSUME TooMuch # {} PROVE FALSE
  <2>1. Cardinality(Process) * most \in Nat
    BY <1>1
  <2> QED  BY <1>1, <2>1
<1>3. Sizes \in SUBSET Nat /\ Sizes # {}
  BY <1>1, <1>2
<1>4. PICK S \in TooMuch : \A T \in TooMuch : Cardinality(S) <= Cardinality(T)
  <2>1. PICK n \in Sizes : \A m \in Sizes : n <= m
    BY <1>3, LeastNatural
  <2> QED  BY <2>1
<1>5. S # {}
  BY <1>4, FS_EmptySet DEF AddsUp
<1>6. PICK p \in S : TRUE
  BY <1>5
<1> DEFINE rest == S \ {p}
<1>7. /\ rest \in SUBSET Process /\ p \in Process /\ p \notin rest /\ S = rest \cup {p}
      /\ Cardinality(rest) = Cardinality(S) - 1
  BY <1>1, <1>6, FS_RemoveElement
<1>8. sums[S] = sums[rest] + owed[p]
  BY <1>7 DEF AddsUp
<1>9. sums[rest] <= Cardinality(rest) * most
  <2>1. rest \notin TooMuch
    BY <1>1, <1>4, <1>7
  <2>2. Cardinality(rest) * most \in Nat
    BY <1>1, <1>7
  <2> QED  BY <1>1, <1>7, <2>1, <2>2
<1>10. Cardinality(S) * most = Cardinality(rest) * most + most
  <2>1. \A n \in Int : (n + 1) * most = n * most + most
    OBVIOUS
  <2>2. Cardinality(S) = Cardinality(rest) + 1 /\ Cardinality(rest) \in Int
    BY <1>1, <1>7
  <2> QED  BY <2>1, <2>2
<1>11. /\ Cardinality(rest) * most \in Nat /\ sums[rest] \in Nat
       /\ owed[p] \in Nat /\ owed[p] <= most
  BY <1>1, <1>7
<1> QED  BY <1>4, <1>8, <1>9, <1>10, <1>11

\* The accounts follow a step of one process: what it owes afterwards, and what
\* its death lost, make up for what was billed and what was charged.
LEMMA AccountsFollow ==
  ASSUME TypeOK, NEW owed, NEW lost, NEW sums,
         Account(owed, lost), AddsUp(sums, owed), billed = charged + sums[Process] + lost,
         NEW p \in Process, NEW v \in 0..Max(Cost), NEW more \in 0..Max(Cost),
         \A q \in Process \ {p} : pc'[q] = pc[q] /\ call'[q] = call[q],
         pc'[p] \in {"charge", "decide", "write"} => v = call'[p],
         pc'[p] \in {"new", "create", "fill", "ready"} => v = 0,
         (more = 0 /\ crashes' = crashes) \/ crashes' = crashes + 1,
         billed' \in Nat, charged' \in Nat,
         billed' + charged + owed[p] = billed + charged' + v + more
  PROVE  BilledIsAccounted'
<1> DEFINE now == [owed EXCEPT ![p] = v]
<1>1. /\ Max(Cost) \in Nat /\ v \in Nat /\ more \in Nat /\ lost \in Nat
      /\ owed \in [Process -> 0..Max(Cost)] /\ owed \in [Process -> Nat]
      /\ billed \in Nat /\ charged \in Nat /\ crashes \in Nat
  BY DearestCall DEF Account, TypeOK
<1>2. PICK after : AddsUp(after, now) /\ after[Process] + owed[p] = sums[Process] + v
  BY <1>1, OneAccountChanges
<1>3. after[Process] \in Nat /\ sums[Process] \in Nat /\ owed[p] \in Nat
  BY <1>1, <1>2 DEF AddsUp
<1>4. Account(now, lost + more)'
  <2>1. now \in [Process -> 0..Max(Cost)]
    BY <1>1
  <2>2. \A q \in Process : now[q] = IF q = p THEN v ELSE owed[q]
    BY <1>1
  <2>3. lost + more <= crashes' * Max(Cost)
    <3>1. \A n \in Nat : (n + 1) * Max(Cost) = n * Max(Cost) + Max(Cost)
      BY <1>1
    <3>2. lost <= crashes * Max(Cost) /\ crashes * Max(Cost) \in Nat
      BY <1>1 DEF Account
    <3>3. (crashes + 1) * Max(Cost) = crashes * Max(Cost) + Max(Cost)
      BY <1>1, <3>1
    <3>4. CASE more = 0 /\ crashes' = crashes
      BY <1>1, <3>2, <3>4
    <3>5. CASE crashes' = crashes + 1
      <4>1. crashes' * Max(Cost) = crashes * Max(Cost) + Max(Cost)
        BY <3>3, <3>5
      <4>2. more <= Max(Cost)
        OBVIOUS
      <4> QED  BY <1>1, <3>2, <4>1, <4>2
    <3> QED  BY <3>4, <3>5
  <2> HIDE DEF now
  <2> QED  BY <1>1, <2>1, <2>2, <2>3 DEF Account
<1>5. billed' = charged' + after[Process] + (lost + more)
  BY <1>1, <1>2, <1>3
<1>6. AddsUp(after, now)'
  BY <1>2 DEF AddsUp
<1> HIDE DEF now
<1> QED  BY <1>4, <1>5, <1>6 DEF BilledIsAccounted

\* Every step keeps the accounts.
LEMMA AccountStep == TypeOK /\ BilledIsAccounted /\ [Next]_vars => BilledIsAccounted'
<1> SUFFICES ASSUME TypeOK, BilledIsAccounted, [Next]_vars PROVE BilledIsAccounted'
  OBVIOUS
<1>1. CASE UNCHANGED vars
  <2>1. UNCHANGED <<pc, call, crashes, billed, charged>>
    BY <1>1 DEF vars
  <2>2. PICK owed, lost, sums : /\ Account(owed, lost) /\ AddsUp(sums, owed)
                                /\ billed = charged + sums[Process] + lost
    BY DEF BilledIsAccounted
  <2>3. Account(owed, lost)' /\ AddsUp(sums, owed)'
    BY <2>1, <2>2 DEF Account, AddsUp
  <2>4. billed' = charged' + sums[Process] + lost
    BY <2>1, <2>2
  <2> QED  BY <2>3, <2>4 DEF BilledIsAccounted
<1>2. ASSUME NEW p \in Process, ProcessStep(p) \/ Crash(p) PROVE BilledIsAccounted'
  <2>1. PICK owed, lost, sums : /\ Account(owed, lost) /\ AddsUp(sums, owed)
                                /\ billed = charged + sums[Process] + lost
    BY DEF BilledIsAccounted
  <2>2. /\ Max(Cost) \in Nat /\ \A cost \in Cost : cost \in 0..Max(Cost)
        /\ owed[p] \in 0..Max(Cost) /\ owed[p] \in Nat /\ 0 \in 0..Max(Cost)
        /\ billed \in Nat /\ charged \in Nat
        /\ pc \in [Process -> {"new", "create", "fill", "ready", "charge", "decide", "write",
                               "exhausted", "failed"}]
        /\ call \in [Process -> {0} \cup Cost]
        /\ pc[p] \in {"charge", "decide", "write"} => owed[p] = call[p]
        /\ pc[p] \in {"new", "create", "fill", "ready"} => owed[p] = 0
    BY <2>1, DearestCall, SpendAssumption DEF Account, TypeOK
  <2> USE DEF Goto, disk, spent
  <2>3. CASE Construct(p) \/ Create(p) \/ Fill(p) \/ Truncate(p)
    <3>1. /\ \A q \in Process \ {p} : pc'[q] = pc[q] /\ call'[q] = call[q]
          /\ pc'[p] \in {"charge", "decide", "write"} => owed[p] = call'[p]
          /\ pc'[p] \in {"new", "create", "fill", "ready"} => owed[p] = 0
          /\ UNCHANGED <<crashes, billed, charged>>
      BY <2>2, <2>3 DEF Construct, Create, Fill, Truncate
    <3> QED  BY <2>1, <2>2, <3>1, AccountsFollow
  <2>4. CASE ModelCall(p)
    <3>1. PICK cost \in Cost : /\ call' = [call EXCEPT ![p] = cost]
                               /\ billed' = billed + cost
      BY <2>4 DEF ModelCall
    <3>2. /\ \A q \in Process \ {p} : pc'[q] = pc[q] /\ call'[q] = call[q]
          /\ pc'[p] = "charge" /\ call'[p] = cost /\ owed[p] = 0
          /\ UNCHANGED <<crashes, charged>> /\ cost \in 0..Max(Cost)
      BY <2>2, <2>4, <3>1 DEF ModelCall
    <3>3. billed' + charged + owed[p] = billed + charged' + cost + 0 /\ billed' \in Nat
      BY <2>2, <3>1, <3>2
    <3> QED  BY <2>1, <2>2, <3>2, <3>3, AccountsFollow
  <2>5. CASE Read(p) \/ Refuse(p)
    <3>1. /\ \A q \in Process \ {p} : pc'[q] = pc[q] /\ call'[q] = call[q]
          /\ pc'[p] = "decide" => owed[p] = call'[p]
          /\ pc'[p] \in {"decide", "failed", "exhausted"}
          /\ UNCHANGED <<crashes, billed, charged>>
      BY <2>2, <2>5 DEF Read, Refuse
    <3> QED  BY <2>1, <2>2, <3>1, AccountsFollow
  <2>6. CASE Write(p)
    <3>1. /\ \A q \in Process \ {p} : pc'[q] = pc[q] /\ call'[q] = call[q]
          /\ pc'[p] = "ready" /\ charged' = charged + owed[p]
          /\ UNCHANGED <<crashes, billed>>
      BY <2>2, <2>6 DEF Write
    <3>2. billed' + charged + owed[p] = billed + charged' + 0 + 0 /\ charged' \in Nat
      BY <2>2, <3>1
    <3> QED  BY <2>1, <2>2, <3>1, <3>2, AccountsFollow
  <2>7. CASE Crash(p)
    <3>1. /\ \A q \in Process \ {p} : pc'[q] = pc[q] /\ call'[q] = call[q]
          /\ pc'[p] = "new" /\ crashes' = crashes + 1
          /\ UNCHANGED <<billed, charged>>
      BY <2>2, <2>7 DEF Crash
    <3> QED  BY <2>1, <2>2, <3>1, AccountsFollow
  <2>8. CASE WaitForLock(p)
    BY <1>1, <2>8 DEF WaitForLock
  <2> QED  BY <1>2, <2>3, <2>4, <2>5, <2>6, <2>7, <2>8 DEF ProcessStep
<1> QED  BY <1>1, <1>2 DEF Next, Finished

\* What was billed is charged, owed or lost, in every run.
LEMMA Accounting == Spec => []BilledIsAccounted
<1>1. Init => BilledIsAccounted
  <2> SUFFICES ASSUME Init PROVE BilledIsAccounted
    OBVIOUS
  <2> DEFINE owed == [p \in Process |-> 0]
             sums == [S \in SUBSET Process |-> 0]
  <2>1. /\ pc = [p \in Process |-> "new"] /\ billed = 0 /\ charged = 0 /\ crashes = 0
        /\ Max(Cost) \in Nat
    BY DearestCall DEF Init
  <2>2. Account(owed, 0)
    BY <2>1 DEF Account
  <2>3. AddsUp(sums, owed)
    BY DEF AddsUp
  <2>4. billed = charged + sums[Process] + 0
    BY <2>1
  <2> HIDE DEF owed, sums
  <2> QED  BY <2>2, <2>3, <2>4 DEF BilledIsAccounted
<1>2. IInv => TypeOK
  BY DEF IInv
<1> QED  BY <1>1, <1>2, AccountStep, Invariance, PTL DEF Spec

\* A run spends at most the cap, one refused or pending call of each process and
\* one lost call of each death (spend.py:196-200).
THEOREM OverspendIsBounded == Spec => []OverspendBounded
<1>1. IInv /\ BilledIsAccounted => OverspendBounded
  <2> SUFFICES ASSUME IInv, BilledIsAccounted, existed
               PROVE  billed <= Cap + (Cardinality(Process) + MaxCrashes) * Max(Cost)
    BY DEF OverspendBounded
  <2> DEFINE M == Max(Cost)
             n == Cardinality(Process)
  <2>1. PICK owed, lost, sums : /\ Account(owed, lost) /\ AddsUp(sums, owed)
                                /\ billed = charged + sums[Process] + lost
    BY DEF BilledIsAccounted
  <2>2. /\ charged <= Cap /\ charged \in Nat /\ Cap \in Nat
        /\ crashes \in Nat /\ MaxCrashes \in Nat /\ crashes <= MaxCrashes
        /\ n \in Nat /\ M \in Nat
        /\ lost \in Nat /\ lost <= crashes * M
        /\ sums[Process] \in Nat
    BY <2>1, SpendAssumption, DearestCall, FS_CardinalityType
       DEF IInv, SerialInv, TypeOK, Account, AddsUp
  <2>3. sums[Process] <= n * M
    <3>1. owed \in [Process -> Nat] /\ \A p \in Process : owed[p] <= M
      BY <2>1, <2>2 DEF Account
    <3> QED  BY <2>1, <2>2, <3>1, EachOwesAtMost
  <2> HIDE DEF M, n
  <2>4. \A a, b, c \in Nat : a <= b => /\ a * c <= b * c
    OBVIOUS
  <2>5. \A a, b, c \in Nat : (a + b) * c = a * c + b * c /\ a * c \in Nat
    OBVIOUS
  <2>6. /\ crashes * M <= MaxCrashes * M
        /\ (n + MaxCrashes) * M = n * M + MaxCrashes * M
        /\ n * M \in Nat /\ MaxCrashes * M \in Nat /\ crashes * M \in Nat
    BY <2>2, <2>4, <2>5
  <2>7. billed <= Cap + (n + MaxCrashes) * M
    BY <2>1, <2>2, <2>3, <2>6
  <2> QED  BY <2>7 DEF M, n
<1> QED  BY <1>1, Invariance, Accounting, PTL

-------------------------------------------------------------------------------
(***************************************************************************)
(* A pass of the assessment replica (CirctAssess), for any issues and      *)
(* waits: a verdict is of its own issue's answer, and the events of a pass *)
(* that ended are in the log.                                              *)
(***************************************************************************)

\* The issues of a pass, by position.
LEMMA IssuesAreListed ==
  /\ Len(Issues) \in Nat /\ DOMAIN Issues = 1..Len(Issues)
  /\ \A i \in DOMAIN Issues : Issues[i] \in Issue
  /\ \A n \in Issue : \E i \in DOMAIN Issues : n = Issues[i]
  /\ \A i, j \in DOMAIN Issues : Issues[i] = Issues[j] => i = j
  /\ Attempts \in Nat \ {0} /\ NoIssue \notin Issue
BY AssessAssumption DEF Issue

\* The first state: nothing was asked.
LEMMA PassStarts == ASSUME PassInit PROVE PassInv
<1> USE DEF PassInit
<1>1. PassTypeOK
  BY IssuesAreListed DEF PassTypeOK
<1>2. PromptsAreCounted /\ Asking /\ Collected
  BY IssuesAreListed DEF PromptsAreCounted, Asking, Collected
<1>3. Sent /\ VerdictIsOwn /\ EventsLand
  BY IssuesAreListed DEF Sent, VerdictIsOwn, EventsLand
<1> QED  BY <1>1, <1>2, <1>3 DEF PassInv

\* A prompt is submitted: it is counted.
LEMMA SubmitCounts ==
  ASSUME PassTypeOK, NEW n \in Issue, Submit(n)
  PROVE  /\ prompt' \in [Issue -> {"none", "running", "answered", "limited", "error"}]
         /\ calls' \in [Issue -> 0..Attempts + 1]
         /\ prompt'[n] = "running" /\ calls'[n] = IF calls[n] > Attempts THEN calls[n] ELSE calls[n] + 1
         /\ \A m \in Issue : m # n => calls'[m] = calls[m] /\ prompt'[m] = prompt[m]
<1>1. /\ calls \in [Issue -> 0..Attempts + 1] /\ Attempts \in Nat
      /\ prompt \in [Issue -> {"none", "running", "answered", "limited", "error"}]
  BY IssuesAreListed DEF PassTypeOK
<1>2. (IF calls[n] > Attempts THEN calls[n] ELSE calls[n] + 1) \in 0..Attempts + 1
  BY <1>1
<1> QED
  BY <1>1, <1>2 DEF Submit

\* The driver raises: what it knows of the issues no longer matters.
LEMMA PassFails == ASSUME PassInv, Fail PROVE PassInv'
<1> USE DEF Fail, PassInv, events
<1>1. PassTypeOK'
  BY DEF PassTypeOK
<1>2. PromptsAreCounted' /\ Asking' /\ Collected' /\ Sent'
  BY DEF PromptsAreCounted, Asking, Collected, Sent, Issue
<1>3. VerdictIsOwn' /\ EventsLand'
  BY DEF VerdictIsOwn, EventsLand, Issue
<1> QED  BY <1>1, <1>2, <1>3

\* An issue is considered: it gets its prompt or its skip.
LEMMA ConsiderKeeps ==
  ASSUME PassInv, Consider PROVE PassInv'
<1> DEFINE n == Issues[at]
<1> USE DEF PassInv
<1>1. /\ phase = "ask" /\ at \in DOMAIN Issues /\ n \in Issue /\ at \in Nat
      /\ at' = at + 1 /\ UNCHANGED <<gated, phase, attempt, answer, verdict, log>>
  BY IssuesAreListed DEF Consider
<1>2. \/ Submit(n) /\ ~gated /\ inFlight' = inFlight
      \/ Submit(n) /\ gated /\ inFlight' = inFlight \cup {<<"gate", n>>}
      \/ gated /\ inFlight' = inFlight \cup {<<"gate", n>>, <<"outcome", n>>} /\ UNCHANGED <<prompt, calls>>
  BY DEF Consider
<1>3. calls[n] = 0
  BY <1>1, IssuesAreListed DEF Asking, PassTypeOK
<1>4. /\ prompt' \in [Issue -> {"none", "running", "answered", "limited", "error"}]
      /\ calls' \in [Issue -> 0..Attempts + 1]
      /\ \A m \in Issue : m # n => calls'[m] = calls[m] /\ prompt'[m] = prompt[m]
      /\ \/ calls'[n] = 1 /\ prompt'[n] = "running"
         \/ calls'[n] = 0 /\ prompt'[n] = prompt[n] /\ gated /\ inFlight' = inFlight \cup {<<"gate", n>>, <<"outcome", n>>}
  <2>1. CASE Submit(n)
    <3>1. Attempts \in Nat
      BY IssuesAreListed
    <3> QED  BY <1>1, <1>3, <2>1, <3>1, SubmitCounts
  <2>2. CASE ~Submit(n)
    BY <1>2, <1>3, <2>2 DEF PassTypeOK
  <2> QED  BY <2>1, <2>2
<1>5. PassTypeOK'
  <2>1. at' \in 1..Len(Issues) + 1
    BY <1>1, IssuesAreListed
  <2>2. inFlight' \cup log' \subseteq {"gate", "outcome"} \X Issue
    BY <1>1, <1>2 DEF PassTypeOK
  <2> QED  BY <1>1, <1>4, <2>1, <2>2 DEF PassTypeOK, Issue
<1>6. PromptsAreCounted'
  <2>1. \A m \in Issue : (calls[m] = 0) = (prompt[m] = "none")
    BY DEF PromptsAreCounted
  <2>2. ASSUME NEW m \in Issue PROVE (calls'[m] = 0) = (prompt'[m] = "none")
    <3> HIDE DEF n, PassInv
    <3>1. CASE m = n
      BY <1>1, <1>3, <1>4, <2>1, <3>1
    <3>2. CASE m # n
      BY <1>4, <2>1, <3>2
    <3> QED  BY <3>1, <3>2
  <2> QED  BY <2>2 DEF PromptsAreCounted, Issue
<1>7. Asking' /\ Collected'
  <2>1. \A i \in DOMAIN Issues : calls'[Issues[i]] <= IF i < at + 1 THEN 1 ELSE 0
    <3> SUFFICES ASSUME NEW i \in DOMAIN Issues PROVE calls'[Issues[i]] <= IF i < at + 1 THEN 1 ELSE 0
      OBVIOUS
    <3>1. i \in Nat /\ Issues[i] \in Issue /\ (i # at => Issues[i] # n)
      BY <1>1, IssuesAreListed
    <3>2. calls[Issues[i]] <= IF i < at THEN 1 ELSE 0
      BY <1>1 DEF Asking
    <3> QED  BY <1>1, <1>4, <3>1, <3>2
  <2> QED  BY <1>1, <2>1 DEF Asking, Collected, Issue
<1>8. Sent'
  <2> SUFFICES ASSUME NEW i \in DOMAIN Issues
               PROVE  LET m == Issues[i]
                      IN  /\ (<<"gate", m>> \in inFlight' \cup log) = (gated /\ i < at + 1)
                          /\ (<<"outcome", m>> \in inFlight' \cup log) = (gated /\ i < at + 1 /\ calls'[m] = 0)
                          /\ ~gated /\ i < at + 1 => calls'[m] > 0
    BY <1>1 DEF Sent
  <2>1. LET m == Issues[i]
        IN  /\ (<<"gate", m>> \in inFlight \cup log) = (gated /\ i < at)
            /\ (<<"outcome", m>> \in inFlight \cup log) = (gated /\ i < at /\ calls[m] = 0)
            /\ ~gated /\ i < at => calls[m] > 0
    BY <1>1 DEF Sent, PassTypeOK
  <2>2. i \in Nat /\ Issues[i] \in Issue /\ (i # at => Issues[i] # n)
    BY <1>1, IssuesAreListed
  <2>3. CASE i = at
    <3>1. /\ <<"gate", n>> \notin inFlight \cup log /\ <<"outcome", n>> \notin inFlight \cup log
          /\ <<"gate", n>> # <<"outcome", n>> /\ at < at + 1
      BY <1>1, <2>1, <2>3
    <3>2. CASE Submit(n)
      <4>1. calls'[n] = 1 /\ inFlight' = IF gated THEN inFlight \cup {<<"gate", n>>} ELSE inFlight
        BY <1>1, <1>2, <1>3, <3>2, SubmitCounts, IssuesAreListed
      <4> QED  BY <1>1, <2>3, <3>1, <4>1 DEF PassTypeOK
    <3>3. CASE ~Submit(n)
      <4>1. calls'[n] = 0 /\ gated /\ inFlight' = inFlight \cup {<<"gate", n>>, <<"outcome", n>>}
        BY <1>2, <1>3, <3>3
      <4> QED  BY <1>1, <2>3, <3>1, <4>1
    <3> QED  BY <3>2, <3>3
  <2>4. CASE i # at
    BY <1>1, <1>2, <1>4, <2>1, <2>2, <2>4
  <2> QED  BY <2>3, <2>4
<1>9. VerdictIsOwn' /\ EventsLand'
  <2>1. \A m \in Issue : verdict'[m] = NoIssue /\ phase' = "ask"
    BY <1>1 DEF Asking
  <2>2. phase' # "done"
    BY <1>1
  <2> QED  BY <2>1, <2>2 DEF VerdictIsOwn, EventsLand, Issue
<1> QED  BY <1>5, <1>6, <1>7, <1>8, <1>9

\* The driver goes from asking to collecting.
LEMMA AllAskedKeeps ==
  ASSUME PassInv, AllAsked PROVE PassInv'
<1> USE DEF PassInv, AllAsked, events
<1>1. PassTypeOK'
  BY IssuesAreListed DEF PassTypeOK
<1>2. PromptsAreCounted' /\ Asking'
  BY DEF PromptsAreCounted, Asking, Issue
<1>3. \A i \in DOMAIN Issues : i < at /\ i \in Nat /\ i >= 1
  BY IssuesAreListed DEF PassTypeOK
<1>4. Collected'
  BY <1>3, IssuesAreListed DEF Asking, Collected, PassTypeOK
<1>5. Sent'
  BY <1>3 DEF Sent
<1>6. VerdictIsOwn' /\ EventsLand'
  BY DEF VerdictIsOwn, EventsLand, Asking, Issue
<1> QED  BY <1>1, <1>2, <1>4, <1>5, <1>6

\* The driver moves on past the issue it is at, of which there is a verdict or
\* no prompt, and nothing changes but for that issue.
LEMMA SettledKeeps ==
  ASSUME PassInv, phase = "collect", at \in DOMAIN Issues,
         at' = at + 1, attempt' = 0, UNCHANGED <<gated, phase, log>>, PassTypeOK',
         LET n == Issues[at]
         IN  /\ \A m \in Issue : m # n => calls'[m] = calls[m] /\ prompt'[m] = prompt[m] /\ verdict'[m] = verdict[m]
             /\ (calls'[n] = 0) = (prompt'[n] = "none") /\ (calls'[n] = 0) = (calls[n] = 0)
             /\ calls'[n] > 0 => verdict'[n] # NoIssue
             /\ verdict'[n] \notin {n, NoIssue} => calls'[n] = Attempts + 1
             /\ inFlight' = IF gated /\ calls[n] # 0 THEN inFlight \cup {<<"outcome", n>>} ELSE inFlight
  PROVE  PassInv'
<1> DEFINE n == Issues[at]
<1> USE DEF PassInv
<1>1. n \in Issue /\ at \in Nat /\ \A i \in DOMAIN Issues : i \in Nat /\ Issues[i] \in Issue /\ (i # at => Issues[i] # n)
  BY IssuesAreListed
<1>2. \A m \in Issue : calls[m] \in Nat /\ calls'[m] \in Nat
  BY IssuesAreListed DEF PassTypeOK, Issue
<1>3. PromptsAreCounted'
  BY <1>1 DEF PromptsAreCounted, Issue
<1>4. Asking' /\ EventsLand'
  BY DEF Asking, EventsLand
<1>5. Collected'
  <2> SUFFICES ASSUME NEW i \in DOMAIN Issues
               PROVE  LET m == Issues[i]
                      IN  /\ i < at + 1 /\ calls'[m] > 0 => verdict'[m] # NoIssue
                          /\ i >= at + 1 => verdict'[m] = NoIssue
                          /\ i = at + 1 => calls'[m] \in {0, 1}
                          /\ i > at + 1 => calls'[m] <= 1
    BY DEF Collected
  <2>1. LET m == Issues[i]
        IN  /\ i < at /\ calls[m] > 0 => verdict[m] # NoIssue
            /\ i >= at => verdict[m] = NoIssue
            /\ i > at => calls[m] <= 1
    BY DEF Collected
  <2>2. CASE i = at
    BY <1>1, <2>2
  <2>3. CASE i # at
    <3>1. LET m == Issues[i] IN calls'[m] = calls[m] /\ verdict'[m] = verdict[m] /\ calls[m] \in Nat
      BY <1>1, <1>2, <2>3
    <3> QED  BY <1>1, <2>1, <2>3, <3>1
  <2> QED  BY <2>2, <2>3
<1>6. Sent'
  <2> SUFFICES ASSUME NEW i \in DOMAIN Issues
               PROVE  LET m == Issues[i]
                      IN  /\ (<<"gate", m>> \in inFlight' \cup log) = gated
                          /\ (<<"outcome", m>> \in inFlight' \cup log) = (gated /\ (calls'[m] = 0 \/ i < at + 1))
                          /\ ~gated => calls'[m] > 0
    BY DEF Sent
  <2>1. LET m == Issues[i]
        IN  /\ (<<"gate", m>> \in inFlight \cup log) = gated
            /\ (<<"outcome", m>> \in inFlight \cup log) = (gated /\ (calls[m] = 0 \/ i < at))
            /\ ~gated => calls[m] > 0
    BY DEF Sent, PassTypeOK
  <2>2. CASE i = at
    BY <1>1, <1>2, <2>1, <2>2
  <2>3. CASE i # at
    BY <1>1, <1>2, <2>1, <2>3
  <2> QED  BY <2>2, <2>3
<1>7. VerdictIsOwn'
  BY <1>1 DEF VerdictIsOwn, Issue
<1> QED  BY <1>3, <1>4, <1>5, <1>6, <1>7

\* A skipped issue is passed over, and one that was answered is settled.
LEMMA NotPendingKeeps ==
  ASSUME PassInv, NEW n \in Issue, NotPending(n)
  PROVE  PassInv'
<1> USE DEF PassInv, NotPending, Collecting, events
<1>1. phase = "collect" /\ at \in DOMAIN Issues /\ n = Issues[at] /\ prompt[n] = "none"
  OBVIOUS
<1>2. calls[n] = 0 /\ attempt = 0
  BY <1>1 DEF PromptsAreCounted, Collected
<1>3. PassTypeOK'
  BY <1>1, IssuesAreListed DEF PassTypeOK
<1>4. verdict[n] = NoIssue
  BY <1>1, IssuesAreListed DEF Collected
<1> QED  BY <1>1, <1>2, <1>3, <1>4, SettledKeeps

LEMMA AnsweredKeeps ==
  ASSUME PassInv, NEW n \in Issue, Answered(n)
  PROVE  PassInv'
<1> USE DEF PassInv, Answered, Settle, Collecting, NoneFailed
<1>1. phase = "collect" /\ at \in DOMAIN Issues /\ n = Issues[at] /\ prompt[n] = "answered"
  OBVIOUS
<1>2. calls[n] # 0
  BY <1>1 DEF PromptsAreCounted
<1>3. PassTypeOK'
  BY <1>1, IssuesAreListed DEF PassTypeOK
<1>4. verdict' = [verdict EXCEPT ![n] = n] /\ verdict'[n] = n /\ n # NoIssue
      /\ \A m \in Issue : m # n => verdict'[m] = verdict[m]
  BY IssuesAreListed DEF PassTypeOK
<1>5. inFlight' = IF gated /\ calls[n] # 0 THEN inFlight \cup {<<"outcome", n>>} ELSE inFlight
  BY <1>2 DEF PassTypeOK
<1>6. \A m \in Issue : (calls[m] = 0) = (prompt[m] = "none")
  BY DEF PromptsAreCounted
<1> QED  BY <1>1, <1>2, <1>3, <1>4, <1>5, <1>6, SettledKeeps

\* A prompt that was rate-limited is asked again: one more wait, one more call.
LEMMA AskAgainKeeps ==
  ASSUME PassInv, NEW n \in Issue, AskAgain(n)
  PROVE  PassInv'
<1> USE DEF PassInv, AskAgain, Collecting, LastAttempt, OneMoreFailed,
        events
<1>1. /\ phase = "collect" /\ at \in DOMAIN Issues /\ n = Issues[at] /\ prompt[n] = "limited"
      /\ Submit(n) /\ attempt' = attempt + 1 /\ attempt + 1 # Attempts
      /\ UNCHANGED <<gated, phase, at, answer, verdict, inFlight, log>>
  OBVIOUS
<1>2. attempt \in 0..Attempts - 1 /\ Attempts \in Nat
  BY IssuesAreListed DEF PassTypeOK
<1>3. calls[n] = attempt + 1
  BY <1>1 DEF PromptsAreCounted, Collected
<1>4. /\ prompt' \in [Issue -> {"none", "running", "answered", "limited", "error"}]
      /\ calls' \in [Issue -> 0..Attempts + 1]
      /\ prompt'[n] = "running" /\ calls'[n] = attempt + 2
      /\ \A m \in Issue : m # n => calls'[m] = calls[m] /\ prompt'[m] = prompt[m]
  <2>1. calls'[n] = calls[n] + 1
    BY <1>1, <1>2, <1>3, SubmitCounts
  <2> QED  BY <1>1, <1>2, <1>3, <2>1, SubmitCounts
<1>5. PassTypeOK'
  <2>1. attempt' \in 0..Attempts - 1
    BY <1>1, <1>2
  <2> QED  BY <1>1, <1>4, <2>1 DEF PassTypeOK, Issue
<1>6. \A i \in DOMAIN Issues : i \in Nat /\ Issues[i] \in Issue /\ (i # at => Issues[i] # n)
  BY <1>1, IssuesAreListed
<1>7. PromptsAreCounted'
  <2>1. \A m \in Issue : (calls[m] = 0) = (prompt[m] = "none")
    BY DEF PromptsAreCounted
  <2>2. \A m \in Issue : (calls'[m] = 0) = (prompt'[m] = "none")
    BY <1>2, <1>4, <2>1
  <2> QED  BY <2>2 DEF PromptsAreCounted, Issue
<1>8. Asking' /\ EventsLand'
  BY <1>1 DEF Asking, EventsLand
<1>9. Collected'
  <2> SUFFICES ASSUME NEW i \in DOMAIN Issues
               PROVE  LET m == Issues[i]
                      IN  /\ i < at /\ calls'[m] > 0 => verdict[m] # NoIssue
                          /\ i >= at => verdict[m] = NoIssue
                          /\ i = at => calls'[m] = attempt + 2
                          /\ i > at => calls'[m] <= 1
    <3>1. attempt + 2 = (attempt + 1) + 1 /\ attempt + 2 # 0
      BY <1>2
    <3> QED  BY <1>1, <3>1 DEF Collected
  <2>1. LET m == Issues[i]
        IN  /\ i < at /\ calls[m] > 0 => verdict[m] # NoIssue
            /\ i >= at => verdict[m] = NoIssue
            /\ i > at => calls[m] <= 1
    BY <1>1 DEF Collected
  <2> QED  BY <1>1, <1>4, <1>6, <2>1
<1>10. Sent'
  <2>1. ASSUME NEW m \in Issue
        PROVE  (calls'[m] = 0) = (calls[m] = 0) /\ (calls[m] > 0 => calls'[m] > 0)
    <3>1. calls'[n] > 0 /\ calls[n] > 0 /\ calls'[n] # 0 /\ calls[n] # 0
      BY <1>2, <1>3, <1>4
    <3>2. CASE m = n
      BY <3>1, <3>2
    <3>3. CASE m # n
      BY <1>4, <3>3
    <3> QED  BY <3>2, <3>3
  <2>2. inFlight' \cup log' = inFlight \cup log
    BY <1>1
  <2> QED  BY <1>1, <1>6, <2>1, <2>2 DEF Sent
<1>11. VerdictIsOwn'
  <2>1. verdict[n] = NoIssue
    BY <1>1, <1>6 DEF Collected
  <2> QED  BY <1>1, <1>4, <2>1 DEF VerdictIsOwn, Issue
<1> QED  BY <1>5, <1>7, <1>8, <1>9, <1>10, <1>11

\* The last wait ended in a rate limit: the issue has cost every call it may.
LEMMA GoOnKeeps ==
  ASSUME PassInv, NEW n \in Issue, GoOnWithTheLast(n)
  PROVE  PassInv'
<1> USE DEF PassInv, GoOnWithTheLast, Settle, Collecting, NoneFailed,
        LastAttempt
<1>1. /\ phase = "collect" /\ at \in DOMAIN Issues /\ n = Issues[at] /\ prompt[n] = "limited"
      /\ Submit(n) /\ attempt + 1 = Attempts /\ answer # NoIssue /\ at' = at + 1 /\ attempt' = 0
      /\ verdict' = [verdict EXCEPT ![n] = answer]
      /\ UNCHANGED <<gated, phase, answer, log>>
  OBVIOUS
<1>2. Attempts \in Nat \ {0} /\ attempt \in Nat /\ at + 1 \in 1..Len(Issues) + 1
  BY <1>1, IssuesAreListed DEF PassTypeOK
<1>3. calls[n] = attempt + 1
  BY <1>1 DEF PromptsAreCounted, Collected
<1>4. /\ prompt' \in [Issue -> {"none", "running", "answered", "limited", "error"}]
      /\ calls' \in [Issue -> 0..Attempts + 1]
      /\ prompt'[n] = "running" /\ calls'[n] = Attempts + 1
      /\ \A m \in Issue : m # n => calls'[m] = calls[m] /\ prompt'[m] = prompt[m]
  <2>1. calls'[n] = calls[n] + 1
    BY <1>1, <1>2, <1>3, SubmitCounts
  <2> QED  BY <1>1, <1>2, <1>3, <2>1, SubmitCounts
<1>5. inFlight' = IF gated THEN inFlight \cup {<<"outcome", n>>} ELSE inFlight
  OBVIOUS
<1>6. /\ verdict' \in [Issue -> Issue \cup {NoIssue}] /\ verdict'[n] = answer
      /\ \A m \in Issue : m # n => verdict'[m] = verdict[m]
  BY <1>1 DEF PassTypeOK
<1>7. PassTypeOK'
  <2>1. inFlight' \cup log' \subseteq {"gate", "outcome"} \X Issue
    BY <1>1, <1>5 DEF PassTypeOK
  <2>2. 0 \in 0..Attempts - 1
    BY <1>2
  <2> QED  BY <1>1, <1>2, <1>4, <1>6, <2>1, <2>2 DEF PassTypeOK, Issue
<1>8. calls[n] # 0 /\ calls'[n] # 0 /\ prompt'[n] # "none"
  BY <1>2, <1>3, <1>4
<1>9. inFlight' = IF gated /\ calls[n] # 0 THEN inFlight \cup {<<"outcome", n>>} ELSE inFlight
  BY <1>5, <1>8
<1> QED  BY <1>1, <1>4, <1>6, <1>7, <1>8, <1>9, SettledKeeps

\* The pass ends behind every event it sent.
LEMMA FinishKeeps ==
  ASSUME PassInv, Finish PROVE PassInv'
<1> USE DEF PassInv, Finish, Flushed
<1>1. PassTypeOK'
  BY DEF PassTypeOK
<1>2. PromptsAreCounted' /\ Asking' /\ Collected' /\ Sent'
  BY DEF PromptsAreCounted, Asking, Collected, Sent, Issue
<1>3. \A i \in DOMAIN Issues : i < at /\ i \in Nat
  BY IssuesAreListed DEF PassTypeOK
<1>4. VerdictIsOwn'
  <2>1. \A n \in Issue : calls[n] > 0 => verdict[n] # NoIssue
    BY <1>3, IssuesAreListed DEF Collected
  <2> QED  BY <2>1 DEF VerdictIsOwn, Issue
<1>5. EventsLand'
  <2>1. \A n \in Issue : (<<"gate", n>> \in log) = gated /\ (<<"outcome", n>> \in log) = gated
    <3> SUFFICES ASSUME NEW i \in DOMAIN Issues
                 PROVE  (<<"gate", Issues[i]>> \in log) = gated /\ (<<"outcome", Issues[i]>> \in log) = gated
      BY IssuesAreListed
    <3>1. inFlight \cup log = log
      OBVIOUS
    <3> QED  BY <1>3, <3>1 DEF Sent, PassTypeOK
  <2>2. log \subseteq {"gate", "outcome"} \X Issue /\ gated \in BOOLEAN
    BY DEF PassTypeOK
  <2>3. log = IF gated THEN {"gate", "outcome"} \X Issue ELSE {}
    <3>1. ASSUME NEW e \in {"gate", "outcome"} \X Issue PROVE (e \in log) = gated
      <4>1. PICK n \in Issue : e = <<"gate", n>> \/ e = <<"outcome", n>>
        OBVIOUS
      <4> QED  BY <2>1, <4>1
    <3> HIDE DEF PassInv, Finish
    <3> QED  BY <2>2, <3>1
  <2> QED  BY <2>3 DEF EventsLand, Issue
<1> QED  BY <1>1, <1>2, <1>4, <1>5

\* A prompt ends, or an event lands.
LEMMA OthersKeepThePass ==
  ASSUME PassInv, ~PassOver,
         (\E n \in Issue : PromptEnds(n)) \/ (\E e \in inFlight : Land(e))
  PROVE  PassInv'
<1> USE DEF PassInv, driver
<1>1. ASSUME NEW n \in Issue, PromptEnds(n) PROVE PassInv'
  <2> USE DEF events
  <2>1. PICK state \in {"answered", "limited", "error"} : prompt' = [prompt EXCEPT ![n] = state]
    BY <1>1 DEF PromptEnds
  <2>2. prompt[n] = "running" /\ UNCHANGED <<gated, phase, at, calls, attempt, answer, verdict, inFlight, log>>
    BY <1>1 DEF PromptEnds
  <2>3. PassTypeOK'
    BY <2>1, <2>2 DEF PassTypeOK, Issue
  <2>4. PromptsAreCounted'
    <3>1. \A m \in Issue : (prompt'[m] = "none") = (prompt[m] = "none")
      BY <2>1, <2>2 DEF PassTypeOK
    <3> QED  BY <2>2, <3>1 DEF PromptsAreCounted, Issue
  <2>5. Asking' /\ Collected' /\ Sent' /\ VerdictIsOwn' /\ EventsLand'
    BY <2>2 DEF Asking, Collected, Sent, VerdictIsOwn, EventsLand, Issue
  <2> QED  BY <2>3, <2>4, <2>5
<1>2. ASSUME NEW e \in inFlight, Land(e) PROVE PassInv'
  <2>1. /\ inFlight' \cup log' = inFlight \cup log
        /\ UNCHANGED <<gated, phase, at, prompt, calls, attempt, answer, verdict>>
    BY <1>2 DEF Land
  <2>2. PassTypeOK'
    BY <2>1 DEF PassTypeOK, Issue
  <2>3. PromptsAreCounted' /\ Asking' /\ Collected' /\ Sent' /\ VerdictIsOwn'
    BY <2>1 DEF PromptsAreCounted, Asking, Collected, Sent, VerdictIsOwn,
                Issue
  <2>4. EventsLand'
    BY <2>1 DEF EventsLand, PassOver
  <2> QED  BY <2>2, <2>3, <2>4
<1> QED  BY <1>1, <1>2

-----------------------------------------------------------------------------
\* What a pass knows of its issues holds throughout.
THEOREM PassInvariance == PassSpec => []PassInv
<1>1. PassInit => PassInv
  BY PassStarts
<1>2. PassInv /\ [PassNext]_passVars => PassInv'
  <2> SUFFICES ASSUME PassInv, [PassNext]_passVars PROVE PassInv'
    OBVIOUS
  <2>1. CASE DriverStep
    BY <2>1, PassFails, ConsiderKeeps, AllAskedKeeps, NotPendingKeeps, AnsweredKeeps, AskAgainKeeps, GoOnKeeps,
       FinishKeeps
    DEF DriverStep, GateFails, NoAnswerYet, PromptRaises
  <2>2. CASE ~PassOver /\ ((\E n \in Issue : PromptEnds(n)) \/ (\E e \in inFlight : Land(e)))
    BY <2>2, OthersKeepThePass
  <2>3. CASE UNCHANGED passVars
    BY <2>3 DEF passVars, PassInv, PassTypeOK, PromptsAreCounted, Asking,
                Collected, Sent, VerdictIsOwn, EventsLand, Issue
  <2> QED  BY <2>1, <2>2, <2>3 DEF PassNext, Ended
<1> QED  BY <1>1, <1>2, PTL DEF PassSpec

\* A verdict of the replica is read from its own issue's answer, but for an
\* issue whose waits all ended in a rate limit (circt_assess.py:101).
THEOREM VerdictsAreOwn == PassSpec => []VerdictIsOwn
<1>1. PassInv => VerdictIsOwn
  BY DEF PassInv
<1> QED  BY <1>1, PassInvariance, PTL

\* The collector has every event of a pass that ended (circt_assess.py:114-115).
THEOREM EveryEventLands == PassSpec => []EventsLand
<1>1. PassInv => EventsLand
  BY DEF PassInv
<1> QED  BY <1>1, PassInvariance, PTL
=============================================================================
