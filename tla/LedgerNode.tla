------------------------------ MODULE LedgerNode ------------------------------
(***************************************************************************)
(* The evaluation ledger as a node of a cluster,                           *)
(* chia/trace/ledger.py:LedgerNode.record.  A task opens the ledger, which *)
(* reads the rows there are, and records one row: its index is how many    *)
(* rows were read, and it is appended to the file in one short write.      *)
(* Nothing excludes another task in between.                               *)
(***************************************************************************)
EXTENDS Integers, Sequences

CONSTANTS
  Worker,         \* the workers whose tasks record
  Records         \* how many rows a worker records, at most

VARIABLES
  file,           \* the rows of the file: who recorded a row, and its index
  opened,         \* opened[w]: whether w's task has read the file
  read,           \* read[w]: how many rows it read
  recorded        \* recorded[w]: how many rows w has recorded

vars == <<file, opened, read, recorded>>

Init ==
  /\ file = <<>>
  /\ opened = [w \in Worker |-> FALSE]
  /\ read = [w \in Worker |-> 0]
  /\ recorded = [w \in Worker |-> 0]

\* Ledger(path, objective) reads every row of the file, when there is one.
Open(w) ==
  /\ ~opened[w]
  /\ recorded[w] < Records
  /\ opened' = [opened EXCEPT ![w] = TRUE]
  /\ read' = [read EXCEPT ![w] = Len(file)]
  /\ UNCHANGED <<file, recorded>>

\* The row's index is the length of what was read.
Record(w) ==
  /\ opened[w]
  /\ file' = Append(file, [by |-> w, index |-> read[w]])
  /\ opened' = [opened EXCEPT ![w] = FALSE]
  /\ recorded' = [recorded EXCEPT ![w] = @ + 1]
  /\ UNCHANGED read

Finished == (\A w \in Worker : ~opened[w] /\ recorded[w] = Records) /\ UNCHANGED vars

Next == (\E w \in Worker : Open(w) \/ Record(w)) \/ Finished

Spec == Init /\ [][Next]_vars

-----------------------------------------------------------------------------
\* "The rows of one run, in evaluation order" (ledger.py:30), recorded "from any
\* worker" (ledger.py:269): a row's index is its position in the file.
IndexIsPosition == \A i \in DOMAIN file : file[i].index = i - 1

\* An index never runs ahead of its row: two rows may share one, none points past.
NeverAhead == \A i \in DOMAIN file : file[i].index < i

\* What makes it inductive: a task has read no more rows than there are.
NodeInv ==
  /\ file \in Seq([by : Worker, index : Nat])
  /\ opened \in [Worker -> BOOLEAN] /\ read \in [Worker -> Nat]
  /\ \A w \in Worker : read[w] <= Len(file)
  /\ NeverAhead

\* With one recorder nothing comes between its read and its append.
LoneInv ==
  /\ NodeInv /\ IndexIsPosition
  /\ \A w \in Worker : opened[w] => read[w] = Len(file)
=============================================================================
