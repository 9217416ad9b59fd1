----------------------------- MODULE CirctAssess -----------------------------
(***************************************************************************)
(* One pass of the assessment replica, council_loop/circt_assess.py:       *)
(* run_pass.  Every issue the gate lets through gets a prompt, a task on   *)
(* another worker, and all are submitted before any is waited for.  Then   *)
(* each is collected in order; one that was rate-limited is submitted      *)
(* again, a bounded number of times.  The driver's events travel to the    *)
(* profiler's collector on their own, and the pass stops the collector.    *)
(***************************************************************************)
EXTENDS Integers, Sequences, CallGate

CONSTANTS
  Issues,         \* the issues of the pass, in order
  Attempts,       \* how often a prompt is waited for (6 in the code)
  NoIssue         \* no issue

Issue == {Issues[i] : i \in DOMAIN Issues}

ASSUME AssessAssumption ==
  /\ Issues \in Seq(Issue)
  /\ \A i, j \in DOMAIN Issues : Issues[i] = Issues[j] => i = j
  /\ Attempts \in Nat \ {0}
  /\ NoIssue \notin Issue

VARIABLES
  gated,          \* whether the pass asks the gate
  phase,          \* where the driver is
  at,             \* the position of the loop it is in
  prompt,         \* what is known of an issue's latest prompt
  calls,          \* how many prompts an issue cost
  attempt,        \* the failed waits of this issue
  answer,         \* whose answer the driver holds
  verdict,        \* whose answer an issue's verdict was read from
  inFlight, log   \* the events sent, and those that reached the collector

passVars == <<gated, phase, at, prompt, calls, attempt, answer, verdict, inFlight, log>>
driver == <<gated, phase, at, calls, attempt, answer, verdict>>
events == <<inFlight, log>>

PassInit ==
  /\ gated \in BOOLEAN
  /\ phase = "ask"
  /\ at = 1
  /\ prompt = [n \in Issue |-> "none"]
  /\ calls = [n \in Issue |-> 0]
  /\ attempt = 0
  /\ answer = NoIssue
  /\ verdict = [n \in Issue |-> NoIssue]
  /\ inFlight = {} /\ log = {}

Fail == phase' = "failed" /\ UNCHANGED <<gated, at, calls, attempt, answer, verdict, prompt, events>>

-----------------------------------------------------------------------------
(***************************************************************************)
(* The driver: ask the gate and submit, then collect, then stop.           *)
(***************************************************************************)

\* A prompt is submitted.  An issue costs Attempts + 1 at most, and no more are
\* counted.
Submit(n) ==
  /\ prompt' = [prompt EXCEPT ![n] = "running"]
  /\ calls' = [calls EXCEPT ![n] = IF @ > Attempts THEN @ ELSE @ + 1]

\* The next issue gets its prompt, or its skip is logged.
Consider ==
  /\ phase = "ask"
  /\ at \in DOMAIN Issues
  /\ LET n == Issues[at]
     IN  \/ /\ ~gated /\ Submit(n) /\ UNCHANGED inFlight
         \/ /\ gated
            /\ \E rating \in Rating :
                 IF Consult("apply", rating)
                   THEN Submit(n) /\ inFlight' = inFlight \cup {<<"gate", n>>}
                   ELSE /\ inFlight' = inFlight \cup {<<"gate", n>>, <<"outcome", n>>}
                        /\ UNCHANGED <<prompt, calls>>
  /\ at' = at + 1
  /\ UNCHANGED <<gated, phase, attempt, answer, verdict, log>>

\* The decider raises, and nothing catches it.
GateFails == phase = "ask" /\ at \in DOMAIN Issues /\ gated /\ Fail

AllAsked ==
  /\ phase = "ask"
  /\ at \notin DOMAIN Issues
  /\ phase' = "collect" /\ at' = 1
  /\ UNCHANGED <<gated, prompt, calls, attempt, answer, verdict, events>>

Collecting(n, state) ==
  phase = "collect" /\ at \in DOMAIN Issues /\ n = Issues[at] /\ prompt[n] = state

\* An issue the gate skipped is not among those pending.
NotPending(n) ==
  /\ Collecting(n, "none")
  /\ at' = at + 1
  /\ UNCHANGED <<gated, phase, prompt, calls, attempt, answer, verdict, events>>

\* Faulty variant: the failed waits of the issue before are counted on.
StillFailed == attempt

NoneFailed == 0

\* The verdict is read from the answer the driver holds, and logged.
Settle(n, whose) ==
  /\ verdict' = [verdict EXCEPT ![n] = whose]
  /\ inFlight' = IF gated THEN inFlight \cup {<<"outcome", n>>} ELSE inFlight
  /\ at' = at + 1
  /\ attempt' = NoneFailed
  /\ UNCHANGED <<gated, phase, log>>

\* The node answered, with a text or with the word that it has none.
Answered(n) ==
  /\ Collecting(n, "answered")
  /\ answer' = n
  /\ Settle(n, n)
  /\ UNCHANGED <<prompt, calls>>

LastAttempt == attempt + 1 = Attempts

\* Faulty variant: the waits are not counted.
NotCounted == attempt

OneMoreFailed == attempt + 1

\* Rate-limited: after a while it is asked again.
AskAgain(n) ==
  /\ Collecting(n, "limited")
  /\ ~LastAttempt
  /\ Submit(n)
  /\ attempt' = OneMoreFailed
  /\ UNCHANGED <<gated, phase, at, answer, verdict, events>>

\* After the last wait it is asked once more, which nobody waits for, and the
\* answer at hand is the one of an issue before.
GoOnWithTheLast(n) ==
  /\ Collecting(n, "limited")
  /\ LastAttempt
  /\ answer # NoIssue
  /\ Submit(n)
  /\ Settle(n, answer)
  /\ UNCHANGED answer

\* There is none yet: the variable is not bound.
NoAnswerYet(n) == Collecting(n, "limited") /\ LastAttempt /\ answer = NoIssue /\ Fail

\* Any other exception of a prompt ends the pass.
PromptRaises(n) == Collecting(n, "error") /\ Fail

\* Faulty variant: the collector is stopped at once.
AtOnce == TRUE

\* The blocking call on the collector returns behind every event sent before it.
Flushed == inFlight = {}

\* The collector is stopped; what had not reached it is lost.  The answers and
\* the verdicts are written.
Finish ==
  /\ phase = "collect"
  /\ at \notin DOMAIN Issues
  /\ Flushed
  /\ phase' = "done"
  /\ inFlight' = {}
  /\ UNCHANGED <<gated, at, prompt, calls, attempt, answer, verdict, log>>

-----------------------------------------------------------------------------
\* A prompt ends on its worker.
PromptEnds(n) ==
  /\ prompt[n] = "running"
  /\ \E state \in {"answered", "limited", "error"} : prompt' = [prompt EXCEPT ![n] = state]
  /\ UNCHANGED <<driver, events>>

\* An event reaches the collector.
Land(e) ==
  /\ e \in inFlight
  /\ inFlight' = inFlight \ {e} /\ log' = log \cup {e}
  /\ UNCHANGED <<driver, prompt>>

PassOver == phase \in {"done", "failed"}

DriverStep ==
  \/ Consider \/ GateFails \/ AllAsked \/ Finish
  \/ \E n \in Issue : \/ NotPending(n) \/ Answered(n) \/ AskAgain(n)
                      \/ GoOnWithTheLast(n) \/ NoAnswerYet(n) \/ PromptRaises(n)

Ended == PassOver /\ UNCHANGED passVars

PassNext ==
  \/ DriverStep
  \/ ~PassOver /\ (\E n \in Issue : PromptEnds(n))
  \/ ~PassOver /\ (\E e \in inFlight : Land(e))
  \/ Ended

PassSpec == PassInit /\ [][PassNext]_passVars

\* The driver runs, a prompt ends by its own timeout, and the actor calls of one
\* sender arrive.
FairPassSpec ==
  /\ PassSpec
  /\ WF_passVars(DriverStep)
  /\ \A n \in Issue : WF_passVars(~PassOver /\ PromptEnds(n))
  /\ WF_passVars(~PassOver /\ \E e \in inFlight : Land(e))

-----------------------------------------------------------------------------
(***************************************************************************)
(* What a pass must keep to.                                               *)
(***************************************************************************)

\* Every variable has its type (circt_assess.py:run_pass's locals).
PassTypeOK ==
  /\ gated \in BOOLEAN
  /\ phase \in {"ask", "collect", "done", "failed"}
  /\ at \in 1..Len(Issues) + 1
  /\ prompt \in [Issue -> {"none", "running", "answered", "limited", "error"}]
  /\ calls \in [Issue -> 0..Attempts + 1]
  /\ attempt \in 0..Attempts - 1
  /\ answer \in Issue \cup {NoIssue}
  /\ verdict \in [Issue -> Issue \cup {NoIssue}]
  /\ inFlight \cup log \subseteq {"gate", "outcome"} \X Issue

\* "The replica waits and asks again" (circt_assess.py:101): a verdict is read
\* from its own issue's answer, unless all its waits ended in a rate limit; and
\* a pass that ends has a verdict of every issue the gate did not skip.
VerdictIsOwn ==
  \A n \in Issue :
    /\ verdict[n] \notin {n, NoIssue} => calls[n] = Attempts + 1
    /\ phase = "done" /\ calls[n] > 0 => verdict[n] # NoIssue

\* The verdict recorded for an issue is the verdict on that issue, as comparing it
\* with the paper's verdict on the same issue has it (circt_assess.py:8); it may
\* be the verdict on an issue before, see VerdictIsOwn.
VerdictIsOfItsIssue == \A n \in Issue : verdict[n] \in {n, NoIssue}

\* "Lands every event already sent before the actor is stopped"
\* (circt_assess.py:114-115): the log of a gated pass that ended has what the
\* gate said of every issue and what came of it.
EventsLand ==
  phase = "done" => log = IF gated THEN {"gate", "outcome"} \X Issue ELSE {}

\* The pass ends, whatever is rate-limited.
PassEnds == <>PassOver

-----------------------------------------------------------------------------
(***************************************************************************)
(* The inductive invariant of SpendCapProofs: what the issues before       *)
(* the driver's position have, and those from it on have not yet.          *)
(***************************************************************************)

PromptsAreCounted == \A n \in Issue : (calls[n] = 0) = (prompt[n] = "none")

Asking ==
  phase = "ask" =>
    /\ attempt = 0 /\ \A n \in Issue : verdict[n] = NoIssue
    /\ \A i \in DOMAIN Issues : calls[Issues[i]] <= IF i < at THEN 1 ELSE 0

Collected ==
  phase = "collect" =>
    \A i \in DOMAIN Issues :
      LET n == Issues[i]
      IN  /\ i < at /\ calls[n] > 0 => verdict[n] # NoIssue
          /\ i >= at => verdict[n] = NoIssue
          /\ i = at => calls[n] \in {0, attempt + 1} /\ (calls[n] = 0 => attempt = 0)
          /\ i > at => calls[n] <= 1

\* What has been sent, of the gate and of the outcome, has been sent once.
Sent ==
  phase \in {"ask", "collect"} =>
    \A i \in DOMAIN Issues :
      LET n == Issues[i]
          considered == phase = "collect" \/ i < at
          settled == considered /\ (calls[n] = 0 \/ (phase = "collect" /\ i < at))
      IN  /\ (<<"gate", n>> \in inFlight \cup log) = (gated /\ considered)
          /\ (<<"outcome", n>> \in inFlight \cup log) = (gated /\ settled)
          /\ ~gated /\ considered => calls[n] > 0

PassInv ==
  /\ PassTypeOK /\ PromptsAreCounted /\ Asking /\ Collected /\ Sent
  /\ VerdictIsOwn /\ EventsLand
=============================================================================
