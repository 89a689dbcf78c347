---------------------------- MODULE CircuitBreaker ----------------------------
(***************************************************************************)
(* One circuit of CircuitBreakerProvider (service/provider.py): the state  *)
(* of one operation of one external provider, shared by the coroutines of  *)
(* a process.  _execute runs without a pause up to the await of the        *)
(* provider call, and again from its end to the return; between the two,   *)
(* other callers run.                                                      *)
(*                                                                         *)
(* Only the comparisons of the code are kept of its numbers: failures are  *)
(* counted up to the threshold, and the time since the circuit was opened  *)
(* up to the recovery timeout.                                             *)
(***************************************************************************)
EXTENDS Integers, FiniteSets

CONSTANTS
  Callers,         \* coroutines that use the circuit
  Threshold,       \* failure_threshold
  Recovery,        \* recovery_timeout, in ticks
  TimeoutCounts    \* whether a timeout is an unknown outcome: so for hold,
                   \*   confirm and release, not for availability

ASSUME BreakerAssumption ==
  /\ Threshold \in Nat \ {0}
  /\ Recovery \in Nat \ {0}
  /\ TimeoutCounts \in BOOLEAN

Closed == -1

VARIABLES
  failures,  \* failure_count
  age,       \* monotonic() - opened_at, Closed when opened_at is None
  probing,   \* probe_in_flight
  call,      \* what each caller has under way: nothing, a call or the probe
  streak     \* history: calls in a row that ended without any answer

vars == <<failures, age, probing, call, streak>>

Init ==
  /\ failures = 0
  /\ age = Closed
  /\ probing = FALSE
  /\ call = [c \in Callers |-> "none"]
  /\ streak = 0

UpTo(limit, n) == IF n < limit THEN n ELSE limit

\* The circuit is closed: the call goes through.
Start(c) ==
  /\ call[c] = "none"
  /\ age = Closed
  /\ call' = [call EXCEPT ![c] = "call"]
  /\ UNCHANGED <<failures, age, probing, streak>>

\* Faulty variant of Probe: the flag is not looked at.
ProbeTogether(c) ==
  /\ call[c] = "none"
  /\ age = Recovery
  /\ probing' = TRUE
  /\ call' = [call EXCEPT ![c] = "probe"]
  /\ UNCHANGED <<failures, age, streak>>

\* The circuit has been open for the recovery timeout: one call goes through.
\* Any other call is answered as temporarily unavailable and changes nothing.
Probe(c) ==
  /\ call[c] = "none"
  /\ age = Recovery
  /\ ~probing
  /\ probing' = TRUE
  /\ call' = [call EXCEPT ![c] = "probe"]
  /\ UNCHANGED <<failures, age, streak>>

\* Faulty variant of Ends: no finally clause.
EndsProbing(c) ==
  /\ call[c] # "none"
  /\ call' = [call EXCEPT ![c] = "none"]
  /\ UNCHANGED probing

\* The end of every call, whatever its outcome: the finally clause.
Ends(c) ==
  /\ call[c] # "none"
  /\ call' = [call EXCEPT ![c] = "none"]
  /\ probing' = (probing /\ call[c] # "probe")

CountFailure ==
  /\ failures' = UpTo(Threshold, failures + 1)
  /\ age' = IF failures + 1 >= Threshold THEN 0 ELSE age

\* Faulty variants of CountSuccess: the count is lowered, or kept.
CountDown ==
  /\ failures' = failures - 1
  /\ age' = Closed

CloseOnly ==
  /\ age' = Closed
  /\ UNCHANGED failures

CountSuccess ==
  /\ failures' = 0
  /\ age' = Closed

\* ProviderCallFailedError: a 5xx, or a credential that does not resolve.
Fails(c) ==
  /\ Ends(c)
  /\ CountFailure
  /\ streak' = UpTo(Threshold, streak + 1)

TimesOut(c) ==
  /\ Ends(c)
  /\ IF TimeoutCounts THEN CountFailure ELSE CountSuccess
  /\ streak' = UpTo(Threshold, streak + 1)

\* The provider answers, be it with a refusal.
Answers(c) ==
  /\ Ends(c)
  /\ CountSuccess
  /\ streak' = 0

\* Any other exception leaves _execute: the connection fails or is refused...
Disconnects(c) ==
  /\ Ends(c)
  /\ streak' = UpTo(Threshold, streak + 1)
  /\ UNCHANGED <<failures, age>>

\* ... the answer has another 4xx status, or the caller is cancelled.
Raises(c) ==
  /\ Ends(c)
  /\ UNCHANGED <<failures, age, streak>>

Completes(c) ==
  Fails(c) \/ TimesOut(c) \/ Answers(c) \/ Disconnects(c) \/ Raises(c)

Tick ==
  /\ age \in 0 .. (Recovery - 1)
  /\ age' = age + 1
  /\ UNCHANGED <<failures, probing, call, streak>>

Next ==
  \/ \E c \in Callers : Start(c) \/ Probe(c) \/ Completes(c)
  \/ Tick

Spec == Init /\ [][Next]_vars

\* Every request carries a timeout, so every call ends.
FairSpec == Spec /\ \A c \in Callers : WF_vars(Completes(c))

-----------------------------------------------------------------------------
TypeOK ==
  /\ failures \in 0 .. Threshold
  /\ age \in Closed .. Recovery
  /\ probing \in BOOLEAN
  /\ call \in [Callers -> {"none", "call", "probe"}]
  /\ streak \in 0 .. Threshold

\* At most one caller probes, and the flag is up exactly while it does, even
\* when calls begun before the circuit opened close or reopen it meanwhile.
OneProbe ==
  /\ \A c, d \in Callers : call[c] = "probe" /\ call[d] = "probe" => c = d
  /\ probing <=> \E c \in Callers : call[c] = "probe"

\* The circuit is open exactly when the failures have reached the threshold:
\* no order of late answers and late failures leaves the two apart.
OpenAtThreshold == age # Closed <=> failures = Threshold

\* The flag of a probe is taken down again, so no circuit stays shut because
\* its probe was lost.
ProbeEnds == probing ~> ~probing

\* As many calls in a row as the threshold that end without any answer from
\* the provider open the circuit.
OutageOpens == streak = Threshold => age # Closed
=============================================================================
