------------------------- MODULE CircuitBreakerProofs -------------------------
(***************************************************************************)
(* Proofs about a circuit for any number of concurrent callers, any        *)
(* threshold and any recovery timeout.                                     *)
(***************************************************************************)
EXTENDS CircuitBreaker, TLAPS

IInv == TypeOK /\ OneProbe /\ OpenAtThreshold

LEMMA InitIInv == Init => IInv
<1> SUFFICES ASSUME Init PROVE IInv
  OBVIOUS
<1>1. TypeOK
  <2>1. 0 \in 0 .. Threshold /\ Closed \in Closed .. Recovery
    BY BreakerAssumption DEF Closed
  <2>2. probing \in BOOLEAN
    BY DEF Init
  <2> QED
    BY <2>1, <2>2 DEF Init, TypeOK
<1>2. OpenAtThreshold
  BY BreakerAssumption DEF Init, OpenAtThreshold
<1>3. ~probing /\ \A c \in Callers : call[c] # "probe"
  BY DEF Init
<1>4. OneProbe
  BY <1>3 DEF OneProbe
<1> QED
  BY <1>1, <1>2, <1>4 DEF IInv

\* A counted failure keeps the count in range and opens the circuit at the threshold.
LEMMA CountFailureFacts ==
  ASSUME IInv, CountFailure
  PROVE  /\ failures' \in 0 .. Threshold
         /\ age' \in Closed .. Recovery
         /\ age' # Closed <=> failures' = Threshold
BY BreakerAssumption DEF IInv, TypeOK, OpenAtThreshold, CountFailure, UpTo, Closed

LEMMA CountSuccessFacts ==
  ASSUME CountSuccess
  PROVE  /\ failures' \in 0 .. Threshold
         /\ age' \in Closed .. Recovery
         /\ age' # Closed <=> failures' = Threshold
BY BreakerAssumption DEF CountSuccess, Closed

\* The end of a call gives back the probe if it is the probe's call.
LEMMA EndsFacts ==
  ASSUME IInv, NEW c \in Callers, Ends(c)
  PROVE  /\ call' \in [Callers -> {"none", "call", "probe"}]
         /\ probing' \in BOOLEAN
         /\ OneProbe'
<1>1. /\ call' = [call EXCEPT ![c] = "none"]
      /\ call \in [Callers -> {"none", "call", "probe"}]
      /\ probing \in BOOLEAN
  BY DEF Ends, IInv, TypeOK
<1>2. probing' = (probing /\ call[c] # "probe")
  BY DEF Ends
<1>3. \A d, e \in Callers : call'[d] = "probe" /\ call'[e] = "probe" => d = e
  BY <1>1 DEF IInv, OneProbe
<1>4. probing' <=> \E d \in Callers : call'[d] = "probe"
  <2>1. CASE call[c] = "probe"
    <3>1. \A d \in Callers : call'[d] # "probe"
      BY <1>1, <2>1 DEF IInv, OneProbe
    <3> QED
      BY <1>2, <2>1, <3>1
  <2>2. CASE call[c] # "probe"
    <3>1. \A d \in Callers : call'[d] = "probe" <=> call[d] = "probe"
      BY <1>1, <2>2
    <3>2. probing' <=> probing
      BY <1>2, <2>2
    <3> QED
      BY <3>1, <3>2 DEF IInv, OneProbe
  <2> QED
    BY <2>1, <2>2
<1> QED
  BY <1>1, <1>2, <1>3, <1>4 DEF OneProbe

LEMMA NextIInv == IInv /\ [Next]_vars => IInv'
<1> SUFFICES ASSUME IInv, [Next]_vars PROVE IInv'
  OBVIOUS
<1>1. ASSUME NEW c \in Callers, Start(c)
      PROVE  IInv'
  <2>1. TypeOK' /\ OpenAtThreshold'
    BY <1>1 DEF Start, IInv, TypeOK, OpenAtThreshold
  <2>2. \A d \in Callers : call'[d] = "probe" <=> call[d] = "probe"
    BY <1>1 DEF Start, IInv, TypeOK
  <2> QED
    BY <1>1, <2>1, <2>2 DEF Start, IInv, OneProbe
<1>2. ASSUME NEW c \in Callers, Probe(c)
      PROVE  IInv'
  <2>1. TypeOK' /\ OpenAtThreshold'
    BY <1>2 DEF Probe, IInv, TypeOK, OpenAtThreshold
  <2>2. /\ \A d \in Callers : call[d] # "probe"
        /\ \A d \in Callers : call'[d] = "probe" <=> d = c
        /\ probing'
    BY <1>2 DEF Probe, IInv, TypeOK, OneProbe
  <2> QED
    BY <2>1, <2>2 DEF IInv, OneProbe
<1>3. ASSUME NEW c \in Callers, Completes(c)
      PROVE  IInv'
  <2>1. Ends(c) /\ streak' \in 0 .. Threshold
    BY <1>3, BreakerAssumption
       DEF Completes, Fails, TimesOut, Answers, Disconnects, Raises, UpTo, IInv, TypeOK
  <2>2. CountFailure \/ CountSuccess \/ UNCHANGED <<failures, age>>
    BY <1>3 DEF Completes, Fails, TimesOut, Answers, Disconnects, Raises
  <2>3. /\ failures' \in 0 .. Threshold
        /\ age' \in Closed .. Recovery
        /\ age' # Closed <=> failures' = Threshold
    BY <2>2, CountFailureFacts, CountSuccessFacts DEF IInv, TypeOK, OpenAtThreshold
  <2> QED
    BY <2>1, <2>3, EndsFacts DEF IInv, TypeOK, OpenAtThreshold
<1>4. ASSUME Tick
      PROVE  IInv'
  BY <1>4, BreakerAssumption DEF Tick, IInv, TypeOK, OneProbe, OpenAtThreshold, Closed
<1>5. ASSUME UNCHANGED vars
      PROVE  IInv'
  BY <1>5 DEF vars, IInv, TypeOK, OneProbe, OpenAtThreshold
<1> QED
  BY <1>1, <1>2, <1>3, <1>4, <1>5 DEF Next

\* Count, time and flag keep their range.
THEOREM TypeCorrect == Spec => []TypeOK
<1>1. IInv => TypeOK
  BY DEF IInv
<1> QED
  BY InitIInv, NextIInv, <1>1, PTL DEF Spec

\* However many callers use an open circuit, at most one of them probes, and
\* the flag is never left up behind it.
THEOREM SingleProbe == Spec => []OneProbe
<1>1. IInv => OneProbe
  BY DEF IInv
<1> QED
  BY InitIInv, NextIInv, <1>1, PTL DEF Spec

\* The circuit is open exactly when the failures have reached the threshold.
THEOREM OpensAtThreshold == Spec => []OpenAtThreshold
<1>1. IInv => OpenAtThreshold
  BY DEF IInv
<1> QED
  BY InitIInv, NextIInv, <1>1, PTL DEF Spec
=============================================================================
