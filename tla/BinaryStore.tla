------------------------------ MODULE BinaryStore ------------------------------
(***************************************************************************)
(* What the binary cache promises who asks: a binary is stored once and    *)
(* stays, an answer is the stored binary or an error, and only a process   *)
(* that died may ask again.                                                *)
(***************************************************************************)
CONSTANTS Thread, Binary, Process, ProcessOf

VARIABLES request, stored, answer

vars == <<request, stored, answer>>

Init ==
  /\ request \in [Thread -> Binary]
  /\ stored = {}
  /\ answer = [t \in Thread |-> "none"]

\* A build that somebody still waits for succeeded, of a binary not stored yet.
StoreOne ==
  \E t \in Thread :
    /\ answer[t] = "none"
    /\ request[t] \notin stored
    /\ stored' = stored \cup {request[t]}
    /\ UNCHANGED <<request, answer>>

Serve(t) ==
  /\ answer[t] = "none"
  /\ request[t] \in stored
  /\ answer' = [answer EXCEPT ![t] = "binary"]
  /\ UNCHANGED <<request, stored>>

Refuse(t) ==
  /\ answer[t] = "none"
  /\ answer' = [answer EXCEPT ![t] = "error"]
  /\ UNCHANGED <<request, stored>>

\* A process starts over: its answers are lost, the store is not.
StartOver(p) ==
  /\ answer' = [t \in Thread |-> IF ProcessOf[t] = p THEN "none" ELSE answer[t]]
  /\ UNCHANGED <<request, stored>>

Next ==
  \/ StoreOne
  \/ \E t \in Thread : Serve(t) \/ Refuse(t)
  \/ \E p \in Process : StartOver(p)

Spec == Init /\ [][Next]_vars
=============================================================================
