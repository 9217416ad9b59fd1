-------------------------- MODULE ModelAccessProofs --------------------------
(***************************************************************************)
(* Proofs about the council's access to its model, for any threads,        *)
(* processes, prompts, retries and deaths: the totals count the rows, they *)
(* are unreadable only after a death, and the gate log has a row of each   *)
(* gated call.                                                             *)
(***************************************************************************)
EXTENDS ModelAccessProperties, FiniteSetTheorems, TLAPS

\* The first state: nobody asks, nothing is logged.
LEMMA InvInit == Init => IInv
<1> SUFFICES ASSUME Init PROVE IInv
  OBVIOUS
<1> USE AccessAssumption DEF Init
<1>1. TypeOK
  BY DEF TypeOK
<1>2. CallsAddUp
  <2>1. Booking = {}
    BY DEF Booking
  <2> QED
    BY <2>1, FS_EmptySet DEF CallsAddUp
<1>3. BookingHoldsTheLock /\ TornWhileFilled /\ GateRowsSoFar
  BY DEF BookingHoldsTheLock, TornWhileFilled, GateRowsSoFar
<1>4. WastedOnlyAfterDeath /\ OneRowPerGatedCall
  BY DEF WastedOnlyAfterDeath, OneRowPerGatedCall
<1> QED  BY <1>1, <1>2, <1>3, <1>4 DEF IInv

\* Counters count up.
LEMMA CountsUp ==
  /\ \A n \in Nat : n + 1 \in Nat
  /\ \A f \in [Thread -> Nat], t \in Thread : [f EXCEPT ![t] = @ + 1] \in [Thread -> Nat]
OBVIOUS

\* What the threads keep when t moves.
OthersStay(t) ==
  \A u \in Thread : u # t =>
    /\ pc'[u] = pc[u] /\ gated'[u] = gated[u] /\ attempt'[u] = attempt[u]
    /\ gateRows'[u] = gateRows[u] /\ usage'[u] = usage[u] /\ got'[u] = got[u]
    /\ read'[u] = read[u]

\* The invariants of single threads hold of the threads that stay.
LEMMA OthersKeep ==
  ASSUME NEW t \in Thread, OthersStay(t)
  PROVE  /\ GateRowsSoFar /\ GateRowsSoFar!(t)' => GateRowsSoFar'
         /\ OneRowPerGatedCall /\ OneRowPerGatedCall!(t)' => OneRowPerGatedCall'
         /\ WastedOnlyAfterDeath /\ WastedOnlyAfterDeath!(t)' /\ crashes' = crashes
              => WastedOnlyAfterDeath'
<1>1. GateRowsSoFar /\ GateRowsSoFar!(t)' => GateRowsSoFar'
  BY DEF OthersStay, GateRowsSoFar
<1>2. OneRowPerGatedCall /\ OneRowPerGatedCall!(t)' => OneRowPerGatedCall'
  BY DEF OthersStay, OneRowPerGatedCall
<1>3. WastedOnlyAfterDeath /\ WastedOnlyAfterDeath!(t)' /\ crashes' = crashes => WastedOnlyAfterDeath'
  BY DEF OthersStay, WastedOnlyAfterDeath
<1> QED  BY <1>1, <1>2, <1>3

\* What is left to show of a step: the types, the totals, and its thread.
LEMMA StepKeeps ==
  ASSUME IInv, NEW t \in Thread, OthersStay(t), crashes' = crashes,
         TypeOK', CallsAddUp', BookingHoldsTheLock', TornWhileFilled',
         GateRowsSoFar!(t)', WastedOnlyAfterDeath!(t)', OneRowPerGatedCall!(t)'
  PROVE  IInv'
BY OthersKeep DEF IInv

\* Who neither takes the lock nor writes leaves the totals be.
LEMMA TotalsKeep ==
  ASSUME IInv, NEW t \in Thread, OthersStay(t),
         pc[t] \notin {"truncate", "fill"}, pc'[t] \notin {"truncate", "fill"},
         UNCHANGED <<total, content, lock, crashes>>
  PROVE  BookingHoldsTheLock' /\ TornWhileFilled'
<1>1. BookingHoldsTheLock'
  BY DEF IInv, OthersStay, BookingHoldsTheLock
<1>2. TornWhileFilled'
  BY DEF IInv, TypeOK, OthersStay, TornWhileFilled
<1> QED  BY <1>1, <1>2

\* A step outside of the booking leaves the totals be.
LEMMA QuietKeeps ==
  ASSUME IInv, NEW t \in Thread, OthersStay(t),
         pc[t] \notin {"totals", "truncate", "fill"}, pc'[t] \notin {"totals", "truncate", "fill"},
         UNCHANGED <<rows, total, content, lock, orphans, crashes>>
  PROVE  CallsAddUp' /\ BookingHoldsTheLock' /\ TornWhileFilled'
<1>1. CallsAddUp'
  <2>1. Booking' = Booking
    BY DEF Booking, OthersStay
  <2> QED
    BY <2>1 DEF IInv, CallsAddUp
<1> QED  BY <1>1, TotalsKeep

\* The calls being booked are finitely many, and one more or less of them
\* changes their number by one.
LEMMA BookingCounts ==
  ASSUME NEW t \in Thread
  PROVE  /\ Cardinality(Booking) \in Nat
         /\ t \notin Booking => Cardinality(Booking \cup {t}) = Cardinality(Booking) + 1
         /\ t \in Booking => Cardinality(Booking \ {t}) = Cardinality(Booking) - 1
<1>1. IsFiniteSet(Booking)
  BY AccessAssumption, FS_Subset DEF Booking
<1> QED
  BY <1>1, FS_CardinalityType, FS_AddElement, FS_RemoveElement

\* A prompt begins.
LEMMA AskKeeps ==
  ASSUME IInv, NEW t \in Thread, Ask(t)
  PROVE  IInv'
<1>1. OthersStay(t)
  BY DEF IInv, TypeOK, OthersStay, Ask, Goto, End, prompt, totals
<1>2. /\ pc[t] = "idle" /\ pc'[t] = "gate"
      /\ gated'[t] = "none" /\ attempt'[t] = 0 /\ gateRows'[t] = 0 /\ got'[t] = "none"
      /\ read'[t] = read[t]
  BY AccessAssumption DEF IInv, TypeOK, Ask, Goto, End, prompt, totals
<1>3. UNCHANGED <<lastUsage, rows, total, content, lock, orphans, crashes>>
  BY DEF Ask, Goto, End, prompt, totals
<1>4. TypeOK'
  <2>1. asked \in [Thread -> Nat]
    BY DEF IInv, TypeOK
  <2>2. asked' = [asked EXCEPT ![t] = @ + 1]
    BY DEF Ask
  <2>3. asked' \in [Thread -> Nat]
    BY <2>1, <2>2, CountsUp
  <2> QED
    BY <2>3 DEF IInv, TypeOK, Ask, Goto, End, prompt, totals
<1>5. CallsAddUp' /\ BookingHoldsTheLock' /\ TornWhileFilled'
  BY <1>1, <1>2, <1>3, QuietKeeps
<1>6. GateRowsSoFar!(t)'
  BY <1>2, <1>3 DEF IInv, GateRowsSoFar
<1>7. WastedOnlyAfterDeath!(t)'
  BY <1>2, <1>3 DEF IInv, WastedOnlyAfterDeath
<1>8. OneRowPerGatedCall!(t)'
  BY <1>2, <1>3 DEF IInv, OneRowPerGatedCall, GateRowsSoFar
<1> QED  BY <1>1, <1>2, <1>3, <1>4, <1>5, <1>6, <1>7, <1>8, StepKeeps

\* The process's decider was asked, by a thread of the process.
LEMMA GateKeeps ==
  ASSUME IInv, NEW t \in Thread, Gate(t)
  PROVE  IInv'
<1>1. OthersStay(t)
  BY DEF IInv, TypeOK, OthersStay, Gate, Goto, End, prompt, totals
<1>2. /\ pc[t] = "gate" /\ pc'[t] = "call"
      /\ attempt'[t] = attempt[t] /\ gateRows'[t] = gateRows[t] /\ got'[t] = got[t] /\ read'[t] = read[t]
      /\ gated[t] \in {"none", "verdict"}
      /\ gated'[t] = "verdict"
      /\ lastUsage' = UsageOf(t) /\ lastUsage'[ProcessOf[t]] = t
  BY AccessAssumption DEF IInv, TypeOK, Gate, Goto, End, prompt, totals, UsageOf
<1>3. UNCHANGED <<rows, total, content, lock, orphans, crashes>>
  BY DEF Gate, Goto, End, prompt, totals
<1>4. TypeOK'
  BY AccessAssumption DEF IInv, TypeOK, Gate, Goto, End, prompt, totals, UsageOf
<1>5. CallsAddUp' /\ BookingHoldsTheLock' /\ TornWhileFilled'
  BY <1>1, <1>2, <1>3, QuietKeeps
<1>6. GateRowsSoFar!(t)'
  BY <1>2, <1>3 DEF IInv, GateRowsSoFar
<1>7. WastedOnlyAfterDeath!(t)'
  BY <1>2, <1>3 DEF IInv, WastedOnlyAfterDeath
<1>8. OneRowPerGatedCall!(t)'
  BY <1>2, <1>3 DEF IInv, OneRowPerGatedCall, GateRowsSoFar
<1> QED  BY <1>1, <1>2, <1>3, <1>4, <1>5, <1>6, <1>7, <1>8, StepKeeps

\* The prompt goes ungated, whatever the decider keeps.
LEMMA GateFailsKeeps ==
  ASSUME IInv, NEW t \in Thread, GateFails(t)
  PROVE  IInv'
<1>1. OthersStay(t)
  BY DEF IInv, TypeOK, OthersStay, GateFails, Goto, End, prompt, totals
<1>2. /\ pc[t] = "gate" /\ pc'[t] = "call"
      /\ gated'[t] = gated[t] /\ attempt'[t] = attempt[t] /\ gateRows'[t] = gateRows[t] /\ got'[t] = got[t] /\ read'[t] = read[t]
      /\ lastUsage' \in {lastUsage, UsageOf(t)}
  BY AccessAssumption DEF IInv, TypeOK, GateFails, Goto, End, prompt, totals
<1>3. UNCHANGED <<rows, total, content, lock, orphans, crashes>>
  BY DEF GateFails, Goto, End, prompt, totals
<1>4. TypeOK'
  <2>1. UsageOf(t) \in [Process -> Thread \cup {NoOne}]
    BY AccessAssumption DEF IInv, TypeOK, UsageOf
  <2> QED
    BY <2>1 DEF IInv, TypeOK, GateFails, Goto, prompt, totals
<1>5. CallsAddUp' /\ BookingHoldsTheLock' /\ TornWhileFilled'
  BY <1>1, <1>2, <1>3, QuietKeeps
<1>6. GateRowsSoFar!(t)'
  BY <1>2, <1>3 DEF IInv, GateRowsSoFar
<1>7. WastedOnlyAfterDeath!(t)'
  BY <1>2, <1>3 DEF IInv, WastedOnlyAfterDeath
<1>8. OneRowPerGatedCall!(t)'
  BY <1>2, <1>3 DEF IInv, OneRowPerGatedCall, GateRowsSoFar
<1> QED  BY <1>1, <1>2, <1>3, <1>4, <1>5, <1>6, <1>7, <1>8, StepKeeps

\* The call has its row, and its thread is booking it.
LEMMA CallKeeps ==
  ASSUME IInv, NEW t \in Thread, Call(t)
  PROVE  IInv'
<1>1. OthersStay(t)
  BY DEF IInv, TypeOK, OthersStay, Call, Goto, End, prompt, totals
<1>2. /\ pc[t] = "call" /\ pc'[t] = "totals"
      /\ attempt[t] \in Nat /\ attempt'[t] = attempt[t] + 1
      /\ gated'[t] = gated[t] /\ gateRows'[t] = gateRows[t] /\ got'[t] = got[t] /\ read'[t] = read[t]
      /\ rows' = rows + 1
  BY AccessAssumption DEF IInv, TypeOK, Call, Goto, End, prompt, totals
<1>3. UNCHANGED <<lastUsage, total, content, lock, orphans, crashes>>
  BY DEF Call, Goto, End, prompt, totals
<1>4. TypeOK'
  <2>1. attempt \in [Thread -> Nat] /\ rows \in Nat
    BY DEF IInv, TypeOK
  <2>2. attempt' = [attempt EXCEPT ![t] = @ + 1] /\ rows' = rows + 1
    BY DEF Call
  <2>3. attempt' \in [Thread -> Nat] /\ rows' \in Nat
    BY <2>1, <2>2, CountsUp
  <2> QED
    BY <2>3 DEF IInv, TypeOK, Call, Goto, End, prompt, totals
<1>5. CallsAddUp'
  <2>1. t \notin Booking /\ Booking' = Booking \cup {t}
    BY <1>1, <1>2 DEF Booking, OthersStay
  <2>2. rows \in Nat /\ total \in Nat /\ orphans \in Nat
    BY DEF IInv, TypeOK
  <2> QED
    BY <1>2, <1>3, <2>1, <2>2, BookingCounts DEF IInv, CallsAddUp
<1>6. BookingHoldsTheLock' /\ TornWhileFilled'
  BY <1>1, <1>2, <1>3, TotalsKeep
<1>7. GateRowsSoFar!(t)'
  <2>1. gateRows[t] = (IF gated[t] # "none" THEN attempt[t] ELSE 0) /\ got[t] = "none"
    BY <1>2 DEF IInv, GateRowsSoFar
  <2> QED
    BY <1>2, <2>1
<1>8. WastedOnlyAfterDeath!(t)'
  BY <1>2, <1>3 DEF IInv, WastedOnlyAfterDeath
<1>9. OneRowPerGatedCall!(t)'
  BY <1>2, <1>3 DEF IInv, OneRowPerGatedCall, GateRowsSoFar
<1> QED  BY <1>1, <1>2, <1>3, <1>4, <1>5, <1>6, <1>7, <1>8, <1>9, StepKeeps

\* No call, no row.
LEMMA CallFailsKeeps ==
  ASSUME IInv, NEW t \in Thread, CallFails(t)
  PROVE  IInv'
<1>1. OthersStay(t)
  BY DEF IInv, TypeOK, OthersStay, CallFails, Goto, End, prompt, totals
<1>2. /\ pc[t] = "call" /\ pc'[t] = "idle"
      /\ gated'[t] = gated[t] /\ attempt'[t] = attempt[t] /\ gateRows'[t] = gateRows[t] /\ read'[t] = read[t]
      /\ got'[t] = "no call"
  BY AccessAssumption DEF IInv, TypeOK, CallFails, Goto, End, prompt, totals
<1>3. UNCHANGED <<lastUsage, rows, total, content, lock, orphans, crashes>>
  BY DEF CallFails, Goto, End, prompt, totals
<1>4. TypeOK'
  BY AccessAssumption DEF IInv, TypeOK, CallFails, Goto, End, prompt, totals
<1>5. CallsAddUp' /\ BookingHoldsTheLock' /\ TornWhileFilled'
  BY <1>1, <1>2, <1>3, QuietKeeps
<1>6. GateRowsSoFar!(t)'
  BY <1>2, <1>3 DEF IInv, GateRowsSoFar
<1>7. WastedOnlyAfterDeath!(t)'
  BY <1>2, <1>3 DEF IInv, WastedOnlyAfterDeath
<1>8. OneRowPerGatedCall!(t)'
  BY <1>2, <1>3 DEF IInv, OneRowPerGatedCall, GateRowsSoFar
<1> QED  BY <1>1, <1>2, <1>3, <1>4, <1>5, <1>6, <1>7, <1>8, StepKeeps

\* The totals are read by who takes the lock.
LEMMA LoadKeeps ==
  ASSUME IInv, NEW t \in Thread, Load(t)
  PROVE  IInv'
<1>1. OthersStay(t)
  BY DEF IInv, TypeOK, OthersStay, Load, Goto, End, prompt, totals
<1>2. /\ pc[t] = "totals" /\ pc'[t] = "truncate"
      /\ gated'[t] = gated[t] /\ attempt'[t] = attempt[t] /\ gateRows'[t] = gateRows[t] /\ got'[t] = got[t]
      /\ read'[t] = total /\ lock = NoOne /\ lock' = t /\ content # "torn"
  BY AccessAssumption DEF IInv, TypeOK, Load, Goto, End, prompt, totals, LockIsFree
<1>3. UNCHANGED <<lastUsage, rows, total, content, orphans, crashes>>
  BY DEF Load, Goto, End, prompt, totals
<1>4. TypeOK'
  BY AccessAssumption DEF IInv, TypeOK, Load, Goto, End, prompt, totals, LockIsFree
<1>5. CallsAddUp'
  <2>1. Booking' = Booking
    BY <1>1, <1>2 DEF Booking, OthersStay
  <2> QED
    BY <1>3, <2>1 DEF IInv, CallsAddUp
<1>6. BookingHoldsTheLock' /\ TornWhileFilled'
  BY AccessAssumption, <1>1, <1>2, <1>3 DEF IInv, BookingHoldsTheLock, TornWhileFilled, OthersStay
<1>7. GateRowsSoFar!(t)'
  BY <1>2, <1>3 DEF IInv, GateRowsSoFar
<1>8. WastedOnlyAfterDeath!(t)'
  BY <1>2, <1>3 DEF IInv, WastedOnlyAfterDeath
<1>9. OneRowPerGatedCall!(t)'
  BY <1>2, <1>3 DEF IInv, OneRowPerGatedCall, GateRowsSoFar
<1> QED  BY <1>1, <1>2, <1>3, <1>4, <1>5, <1>6, <1>7, <1>8, <1>9, StepKeeps

\* The totals are truncated by who holds the lock.
LEMMA TruncateKeeps ==
  ASSUME IInv, NEW t \in Thread, Truncate(t)
  PROVE  IInv'
<1>1. OthersStay(t)
  BY DEF IInv, TypeOK, OthersStay, Truncate, Goto, End, prompt, totals
<1>2. /\ pc[t] = "truncate" /\ pc'[t] = "fill"
      /\ gated'[t] = gated[t] /\ attempt'[t] = attempt[t] /\ gateRows'[t] = gateRows[t] /\ got'[t] = got[t] /\ read'[t] = read[t]
      /\ content' = "torn"
  BY AccessAssumption DEF IInv, TypeOK, Truncate, Goto, End, prompt, totals
<1>3. UNCHANGED <<lastUsage, rows, total, lock, orphans, crashes>>
  BY DEF Truncate, StillHeld, Goto, End, prompt, totals
<1>4. TypeOK'
  BY AccessAssumption, <1>3 DEF IInv, TypeOK, Truncate, Goto, End, prompt, totals
<1>5. CallsAddUp'
  <2>1. Booking' = Booking
    BY <1>1, <1>2 DEF Booking, OthersStay
  <2> QED
    BY <1>3, <2>1 DEF IInv, CallsAddUp
<1>6. BookingHoldsTheLock' /\ TornWhileFilled'
  BY AccessAssumption, <1>1, <1>2, <1>3 DEF IInv, BookingHoldsTheLock, TornWhileFilled, OthersStay
<1>7. GateRowsSoFar!(t)'
  BY <1>2, <1>3 DEF IInv, GateRowsSoFar
<1>8. WastedOnlyAfterDeath!(t)'
  BY <1>2, <1>3 DEF IInv, WastedOnlyAfterDeath
<1>9. OneRowPerGatedCall!(t)'
  BY <1>2, <1>3 DEF IInv, OneRowPerGatedCall, GateRowsSoFar
<1> QED  BY <1>1, <1>2, <1>3, <1>4, <1>5, <1>6, <1>7, <1>8, <1>9, StepKeeps

\* With nobody filling them, the totals are torn by a death.
LEMMA LoadFailsKeeps ==
  ASSUME IInv, NEW t \in Thread, LoadFails(t)
  PROVE  IInv'
<1>1. OthersStay(t)
  BY DEF IInv, TypeOK, OthersStay, LoadFails, Goto, End, prompt, totals
<1>2. /\ pc[t] = "totals" /\ pc'[t] = "idle"
      /\ gated'[t] = gated[t] /\ attempt'[t] = attempt[t] /\ gateRows'[t] = gateRows[t] /\ read'[t] = read[t]
      /\ got'[t] = "wasted" /\ lock = NoOne /\ content = "torn" /\ crashes \in Nat
      /\ orphans' = orphans + 1
  BY AccessAssumption DEF IInv, TypeOK, LoadFails, Goto, End, prompt, totals, LockIsFree
<1>3. UNCHANGED <<lastUsage, rows, total, content, lock, crashes>>
  BY DEF LoadFails, Goto, End, prompt, totals
<1>4. TypeOK'
  <2>1. orphans \in Nat
    BY DEF IInv, TypeOK
  <2>2. orphans' = orphans + 1
    BY DEF LoadFails
  <2>3. orphans' \in Nat
    BY <2>1, <2>2, CountsUp
  <2> QED
    BY <2>3 DEF IInv, TypeOK, LoadFails, Goto, End, prompt, totals
<1>5. CallsAddUp'
  <2>1. t \in Booking /\ Booking' = Booking \ {t}
    BY <1>1, <1>2 DEF Booking, OthersStay
  <2>2. rows \in Nat /\ total \in Nat /\ orphans \in Nat
    BY DEF IInv, TypeOK
  <2> QED
    BY <1>2, <1>3, <2>1, <2>2, BookingCounts DEF IInv, CallsAddUp
<1>6. BookingHoldsTheLock' /\ TornWhileFilled'
  BY <1>1, <1>2, <1>3, TotalsKeep
<1>7. GateRowsSoFar!(t)'
  BY <1>2, <1>3 DEF IInv, GateRowsSoFar
<1>8. WastedOnlyAfterDeath!(t)'
  BY <1>2, <1>3 DEF IInv, WastedOnlyAfterDeath, TornWhileFilled
<1>9. OneRowPerGatedCall!(t)'
  BY <1>2, <1>3 DEF IInv, OneRowPerGatedCall, GateRowsSoFar
<1> QED  BY <1>1, <1>2, <1>3, <1>4, <1>5, <1>6, <1>7, <1>8, <1>9, StepKeeps

\* The new total is one more than the one in the file.
LEMMA FillKeeps ==
  ASSUME IInv, NEW t \in Thread, Fill(t)
  PROVE  IInv'
<1>1. OthersStay(t)
  BY DEF IInv, TypeOK, OthersStay, Fill, Goto, End, prompt, totals
<1>2. /\ pc[t] = "fill"
      /\ pc'[t] = IF gated[t] # "none" THEN "gate row" ELSE "parse"
      /\ gated'[t] = gated[t] /\ attempt'[t] = attempt[t] /\ gateRows'[t] = gateRows[t] /\ got'[t] = got[t]
      /\ attempt[t] \in Nat
      /\ read'[t] = 0 /\ lock' = NoOne /\ content' = "whole"
      /\ total' = read[t] + 1
  BY AccessAssumption DEF IInv, TypeOK, Fill, Goto, End, prompt, totals, LogsGate, Released
<1>3. UNCHANGED <<lastUsage, rows, orphans, crashes>>
  BY DEF Fill, Goto, End, prompt, totals
<1>4. TypeOK'
  <2>1. total' \in Nat
    <3>1. read[t] \in Nat /\ total' = read[t] + 1
      BY DEF IInv, TypeOK, Fill
    <3> QED  BY <3>1, CountsUp
  <2> QED
    BY <2>1 DEF IInv, TypeOK, Fill, Goto, prompt, Released, LogsGate
<1>5. CallsAddUp'
  <2>1. t \in Booking /\ Booking' = Booking \ {t}
    BY <1>1, <1>2 DEF Booking, OthersStay
  <2>2. rows \in Nat /\ total \in Nat /\ orphans \in Nat
    BY DEF IInv, TypeOK
  <2>3. total' = total + 1
    BY <1>2 DEF IInv, BookingHoldsTheLock
  <2> QED
    BY <1>3, <2>3, <2>1, <2>2, BookingCounts DEF IInv, CallsAddUp
<1>6. BookingHoldsTheLock' /\ TornWhileFilled'
  BY AccessAssumption, <1>1, <1>2, <1>3 DEF IInv, BookingHoldsTheLock, TornWhileFilled, OthersStay
<1>7. GateRowsSoFar!(t)'
  BY <1>2, <1>3 DEF IInv, GateRowsSoFar
<1>8. WastedOnlyAfterDeath!(t)'
  BY <1>2, <1>3 DEF IInv, WastedOnlyAfterDeath
<1>9. OneRowPerGatedCall!(t)'
  BY <1>2, <1>3 DEF IInv, OneRowPerGatedCall, GateRowsSoFar
<1> QED  BY <1>1, <1>2, <1>3, <1>4, <1>5, <1>6, <1>7, <1>8, <1>9, StepKeeps

\* The prompt has the row of its call.
LEMMA LogGateKeeps ==
  ASSUME IInv, NEW t \in Thread, LogGate(t)
  PROVE  IInv'
<1>1. OthersStay(t)
  BY DEF IInv, TypeOK, OthersStay, LogGate, Goto, End, prompt, totals
<1>2. /\ pc[t] = "gate row" /\ pc'[t] = "parse"
      /\ gateRows[t] \in Nat /\ gateRows'[t] = gateRows[t] + 1 /\ attempt[t] \in Nat
      /\ gated'[t] = gated[t] /\ attempt'[t] = attempt[t] /\ got'[t] = got[t] /\ read'[t] = read[t]
      /\ usage'[t] = lastUsage[ProcessOf[t]]
  BY AccessAssumption DEF IInv, TypeOK, LogGate, Goto, End, prompt, totals
<1>3. UNCHANGED <<lastUsage, rows, total, content, lock, orphans, crashes>>
  BY DEF LogGate, Goto, End, prompt, totals
<1>4. TypeOK'
  <2>1. gateRows \in [Thread -> Nat]
    BY DEF IInv, TypeOK
  <2>2. gateRows' = [gateRows EXCEPT ![t] = @ + 1]
    BY DEF LogGate
  <2>3. gateRows' \in [Thread -> Nat]
    BY <2>1, <2>2, CountsUp
  <2>4. usage' \in [Thread -> Thread \cup {NoOne}]
    BY AccessAssumption DEF IInv, TypeOK, LogGate
  <2> QED
    BY <2>3, <2>4 DEF IInv, TypeOK, LogGate, Goto, End, prompt, totals
<1>5. CallsAddUp' /\ BookingHoldsTheLock' /\ TornWhileFilled'
  BY <1>1, <1>2, <1>3, QuietKeeps
<1>6. GateRowsSoFar!(t)'
  <2>1. gated[t] # "none" /\ gateRows[t] = attempt[t] - 1 /\ got[t] = "none"
    BY <1>2 DEF IInv, GateRowsSoFar
  <2>2. /\ attempt[t] \in Nat
        /\ gateRows'[t] = gateRows[t] + 1 /\ attempt'[t] = attempt[t]
    BY <1>2
  <2>3. gateRows'[t] = attempt'[t]
    BY <2>1, <2>2
  <2>4. gated'[t] # "none" /\ got'[t] = "none" /\ pc'[t] = "parse"
    BY <1>2, <2>1
  <2> QED
    BY <2>3, <2>4
<1>7. WastedOnlyAfterDeath!(t)'
  BY <1>2, <1>3 DEF IInv, WastedOnlyAfterDeath
<1>8. OneRowPerGatedCall!(t)'
  BY <1>2, <1>3 DEF IInv, OneRowPerGatedCall, GateRowsSoFar
<1> QED  BY <1>1, <1>2, <1>3, <1>4, <1>5, <1>6, <1>7, <1>8, StepKeeps

\* The prompt is answered, or asked once more.
LEMMA AnswerKeeps ==
  ASSUME IInv, NEW t \in Thread, Answer(t) \/ Malformed(t)
  PROVE  IInv'
<1>1. OthersStay(t)
  BY DEF IInv, TypeOK, OthersStay, Answer, Malformed, Goto, End, prompt, totals
<1>2. /\ pc[t] = "parse"
      /\ \/ pc'[t] = "call" /\ got'[t] = got[t]
         \/ pc'[t] = "idle" /\ got'[t] \in {"answer", "malformed"}
      /\ gated'[t] = gated[t] /\ attempt'[t] = attempt[t] /\ gateRows'[t] = gateRows[t] /\ read'[t] = read[t]
  BY AccessAssumption DEF IInv, TypeOK, Answer, Malformed, Goto, End, prompt, totals
<1>3. UNCHANGED <<lastUsage, rows, total, content, lock, orphans, crashes>>
  BY DEF Answer, Malformed, Goto, End, prompt, totals
<1>4. TypeOK'
  BY AccessAssumption DEF IInv, TypeOK, Answer, Malformed, Goto, End, prompt, totals
<1>5. CallsAddUp' /\ BookingHoldsTheLock' /\ TornWhileFilled'
  BY <1>1, <1>2, <1>3, QuietKeeps
<1>6. GateRowsSoFar!(t)'
  BY <1>2, <1>3 DEF IInv, GateRowsSoFar
<1>7. WastedOnlyAfterDeath!(t)'
  BY <1>2, <1>3 DEF IInv, WastedOnlyAfterDeath, GateRowsSoFar
<1>8. OneRowPerGatedCall!(t)'
  BY <1>2, <1>3 DEF IInv, OneRowPerGatedCall, GateRowsSoFar
<1> QED  BY <1>1, <1>2, <1>3, <1>4, <1>5, <1>6, <1>7, <1>8, StepKeeps

\* A dead process books nothing more and holds no lock; what it was booking is
\* counted among the orphans.
LEMMA CrashKeeps == ASSUME IInv, NEW p \in Process, Crash(p) PROVE IInv'
<1> USE AccessAssumption DEF IInv, Crash
<1>1. TypeOK' /\ Cardinality({t \in Booking : ProcessOf[t] = p}) \in Nat
  <2>1. IsFiniteSet({t \in Booking : ProcessOf[t] = p})
    BY FS_Subset DEF Booking
  <2>2. Cardinality({t \in Booking : ProcessOf[t] = p}) \in Nat
    BY <2>1, FS_CardinalityType
  <2>5. crashes' \in Nat /\ orphans' \in Nat
    <3>1. crashes \in Nat /\ orphans \in Nat
      BY DEF TypeOK
    <3>2. /\ crashes' = crashes + 1
          /\ orphans' = orphans + Cardinality({t \in Booking : ProcessOf[t] = p})
      OBVIOUS
    <3> HIDE DEF IInv, Crash
    <3> QED  BY <2>2, <3>1, <3>2
  <2>6. lastUsage' \in [Process -> Thread \cup {NoOne}]
    BY DEF TypeOK
  <2>3. lock' \in Thread \cup {NoOne} /\ read' \in [Thread -> Nat]
    BY DEF TypeOK
  <2>4. /\ pc' \in [Thread -> {"idle", "gate", "call", "totals", "truncate", "fill", "gate row", "parse"}]
        /\ got' \in [Thread -> {"none", "answer", "malformed", "no call", "wasted"}]
    BY DEF TypeOK
  <2> QED
    BY <2>2, <2>3, <2>4, <2>5, <2>6 DEF TypeOK
<1>2. CallsAddUp'
  <2> DEFINE Dead == {t \in Booking : ProcessOf[t] = p}
  <2>1. Booking' = Booking \ Dead /\ Booking \cap Dead = Dead
    BY DEF TypeOK, Booking
  <2>2. IsFiniteSet(Booking)
    BY FS_Subset DEF Booking
  <2>3. Cardinality(Booking') = Cardinality(Booking) - Cardinality(Dead)
    BY <2>1, <2>2, FS_Difference
  <2>4. Cardinality(Booking) \in Nat
    BY <2>2, FS_CardinalityType
  <2>5. /\ rows \in Nat /\ total \in Nat /\ orphans \in Nat
        /\ rows' = rows /\ total' = total /\ orphans' = orphans + Cardinality(Dead)
        /\ rows = total + orphans + Cardinality(Booking)
    BY DEF TypeOK, CallsAddUp
  <2> HIDE DEF Dead, IInv, Crash
  <2>6. Cardinality(Dead) \in Nat
    BY <1>1 DEF Dead
  <2> QED
    BY <2>3, <2>4, <2>5, <2>6 DEF CallsAddUp
<1>3. BookingHoldsTheLock' /\ TornWhileFilled'
  <2>1. crashes' > 0
    <3>1. crashes \in Nat /\ crashes' = crashes + 1
      BY DEF TypeOK
    <3> QED  BY <3>1
  <2>2. BookingHoldsTheLock'
    BY DEF TypeOK, BookingHoldsTheLock
  <2> QED
    BY <2>1, <2>2 DEF TornWhileFilled
<1>4. GateRowsSoFar'
  BY DEF TypeOK, GateRowsSoFar
<1>5. WastedOnlyAfterDeath'
  <2>1. crashes \in Nat /\ crashes' = crashes + 1
    BY DEF TypeOK
  <2>2. crashes' > 0
    BY <2>1
  <2> QED
    BY <2>2 DEF WastedOnlyAfterDeath
<1>6. OneRowPerGatedCall'
  BY DEF TypeOK, OneRowPerGatedCall
<1> QED  BY <1>1, <1>2, <1>3, <1>4, <1>5, <1>6

\* Every step keeps the inductive invariant.
LEMMA InvStep == IInv /\ [Next]_vars => IInv'
<1> SUFFICES ASSUME IInv, [Next]_vars PROVE IInv'
  OBVIOUS
<1>1. CASE UNCHANGED vars
  <2>1. TypeOK' /\ CallsAddUp' /\ BookingHoldsTheLock' /\ TornWhileFilled'
    BY <1>1 DEF vars, IInv, TypeOK, CallsAddUp, Booking, BookingHoldsTheLock, TornWhileFilled
  <2>2. GateRowsSoFar'
    BY <1>1 DEF vars, IInv, GateRowsSoFar
  <2>3. WastedOnlyAfterDeath' /\ OneRowPerGatedCall'
    BY <1>1 DEF vars, IInv, WastedOnlyAfterDeath, OneRowPerGatedCall
  <2> QED  BY <2>1, <2>2, <2>3 DEF IInv
<1>2. ASSUME NEW t \in Thread, ThreadStep(t) PROVE IInv'
  <2>1. CASE WaitForLock(t)
    BY <1>1, <2>1 DEF WaitForLock
  <2> QED
    BY <1>2, <2>1, AskKeeps, GateKeeps, GateFailsKeeps, CallKeeps, CallFailsKeeps, LoadKeeps, LoadFailsKeeps,
       TruncateKeeps, FillKeeps, LogGateKeeps, AnswerKeeps DEF ThreadStep
<1> QED
  BY <1>1, <1>2, CrashKeeps DEF Next, Finished

-----------------------------------------------------------------------------
\* The inductive invariant holds of every run.
THEOREM Invariance == Spec => []IInv
BY InvInit, InvStep, PTL DEF Spec

\* The totals count every row of the call log, but for those being booked and
\* those a death kept from them (analyst.py:187-215).
THEOREM TotalsAddUp == Spec => []TotalsCountTheRows
<1>1. IInv => TotalsCountTheRows
  BY DEF IInv, CallsAddUp, TotalsCountTheRows
<1> QED  BY <1>1, Invariance, PTL

\* An answer is thrown away only after a process died (analyst.py:213).
THEOREM NothingWasted == Spec => []WastedOnlyAfterDeath
<1>1. IInv => WastedOnlyAfterDeath
  BY DEF IInv
<1> QED  BY <1>1, Invariance, PTL

\* The gate log has a row of each call of a gated prompt (analyst.py:121-177).
THEOREM GateLogIsComplete == Spec => []OneRowPerGatedCall
<1>1. IInv => OneRowPerGatedCall
  BY DEF IInv
<1> QED  BY <1>1, Invariance, PTL
=============================================================================
