------------------------ MODULE CactiLadderProperties ------------------------
(***************************************************************************)
(* What the shared characterisations must keep to, stated over CactiLadder. *)
(***************************************************************************)
EXTENDS CactiLadder

Rows == [Key -> Row]

\* Every variable has its type (chip.py:256-313).
TypeOK ==
  /\ file \in Rows
  /\ memory \in [Process -> Rows]
  /\ lock \in Thread \cup {NoOne}
  /\ pc \in [Thread -> {"idle", "load", "update", "run", "store", "merge", "save", "have"}]
  /\ key \in [Thread -> Key \cup {NoOne}]
  /\ energy \in [Thread -> BOOLEAN]
  /\ again \in [Thread -> BOOLEAN]
  /\ draft \in [Thread -> Rows]
  /\ got \in [Thread -> Row]
  /\ asked \in [Thread -> Nat]
  /\ \A t \in Thread : asked[t] <= Requests[t]
  /\ crashes \in 0..MaxCrashes

\* "merge under a lock rather than overwrite, so no one's entries are lost"
\* (chip.py:281-282): no step takes a shape out of the file, whatever the other
\* processes write and whoever dies.
NoEntryLost == [][\A k \in Key : file[k] # "none" => file'[k] # "none"]_vars

\* What CACTI was run for is in the file, or on its way there: a shape one
\* process holds is missing from the file only while a thread stores it.
PaidForIsStored ==
  \A p \in Process, k \in Key :
    (memory[p][k] # "none" /\ file[k] = "none") =>
      \E t \in Thread : /\ ProcessOf[t] = p /\ key[t] = k
                        /\ pc[t] \in {"store", "merge", "save"}

\* "An entry cached before energy was read carries two fields and is characterised
\* again" (chip.py:307): what a request for energy is answered from has energy.
\* It need not have: README, section 6.
EnergyIsInTheRow ==
  \A t \in Thread : energy[t] /\ got[t] # "none" => got[t] = "full"

-----------------------------------------------------------------------------
(***************************************************************************)
(* The inductive invariant of CactiLadderProofs: whoever is between its    *)
(* load and its save holds the lock and has the file in hand, and what was *)
(* read without the lock is still in the file.                             *)
(***************************************************************************)

KeysOf(rows) == {k \in Key : rows[k] # "none"}

WritersHoldTheLock ==
  \A t \in Thread : pc[t] \in {"merge", "save"} => lock = t

DraftsCoverTheFile ==
  \A t \in Thread :
    /\ pc[t] = "update" => KeysOf(draft[t]) \subseteq KeysOf(file)
    /\ pc[t] = "merge" => draft[t] = file
    /\ pc[t] = "save" => KeysOf(file) \cup {key[t]} \subseteq KeysOf(draft[t])

RequestsHaveRows ==
  \A t \in Thread :
    /\ pc[t] # "idle" => key[t] \in Key
    /\ pc[t] \in {"idle", "load", "update"} => ~again[t]
    /\ pc[t] \in {"store", "merge", "save", "have"} => Held(t)[key[t]] # "none"

IInv ==
  /\ TypeOK /\ WritersHoldTheLock /\ DraftsCoverTheFile /\ RequestsHaveRows
  /\ PaidForIsStored
=============================================================================
