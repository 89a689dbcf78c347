-------------------------------- MODULE Retry --------------------------------
(***************************************************************************)
(* What the workers and requests together promise of the operations at     *)
(* external providers (provider_operations): some of them are attempted at *)
(* a time, all at once, and an attempt is made only where the last one     *)
(* leaves it open.                                                         *)
(***************************************************************************)
EXTENDS Integers

CONSTANTS Lines, MaxAttempts

VARIABLES
  outcome,   \* of the last attempt
  tries,     \* attempts made, those past the limit not told apart
  retried    \* whether the last attempts were retries

vars == <<outcome, tries, retried>>

Outcomes == {"succeeded", "unknown", "failed"}

Init ==
  /\ outcome = [l \in Lines |-> "none"]
  /\ tries = [l \in Lines |-> 0]
  /\ retried = FALSE

\* What succeeded is not attempted again.  Of what is unknown nothing is known to
\* be undone, so that it is attempted below the limit and by a retry only: retries
\* are the reconciliation worker's, and who made an attempt shows.
MayAttempt(l, retry) ==
  /\ outcome[l] # "succeeded"
  /\ outcome[l] = "unknown" => retry /\ tries[l] < MaxAttempts

Counted(n) == IF n > MaxAttempts THEN n ELSE n + 1

Attempt(S, retry) ==
  /\ \A l \in S : MayAttempt(l, retry)
  /\ outcome' \in [Lines -> Outcomes \cup {"none"}]
  /\ \A l \in S : outcome'[l] \in Outcomes
  /\ \A l \in Lines \ S : outcome'[l] = outcome[l]
  /\ tries' = [l \in Lines |-> IF l \in S THEN Counted(tries[l]) ELSE tries[l]]
  /\ retried' = retry

Next == \E S \in SUBSET Lines, retry \in BOOLEAN : Attempt(S, retry)

Spec == Init /\ [][Next]_vars
=============================================================================
