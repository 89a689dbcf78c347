------------------------ MODULE ProviderRegistryProofs ------------------------
(***************************************************************************)
(* That each adapter of the registry has a circuit of its own, for any     *)
(* transactions, adapters, settings and limits.                            *)
(***************************************************************************)
EXTENDS ProviderRegistry, TLAPS

IsCircuit(k) ==
  k = [failures |-> k.failures, age |-> k.age, probing |-> k.probing, streak |-> k.streak]

\* A transaction that is about to call, or does, has an adapter to call.
RInv ==
  /\ at = [t \in Transactions |-> at[t]]
  /\ registered \in Adapters \cup {NoAdapter}
  /\ adapter \in [Transactions -> Adapters \cup {NoAdapter}]
  /\ \A t \in Transactions : at[t] \in {"ready", "call", "probe"} => adapter[t] \in Adapters
  /\ circuit = [a \in Adapters |-> circuit[a]]
  /\ \A a \in Adapters : IsCircuit(circuit[a])

\* The calls that an adapter has under way.
CallsOf(a) ==
  [t \in Transactions |->
     IF adapter[t] = a /\ at[t] \in {"call", "probe"} THEN at[t] ELSE "none"]

EachGoesOn ==
  \A a \in Adapters :
    IF Registers(a) THEN Circuit(a)!Init'
                    ELSE [Circuit(a)!Next]_(Circuit(a)!vars)

LEMMA InitCircuits == Init => RInv /\ \A a \in Adapters : Circuit(a)!Init
BY DEF Init, RInv, IsCircuit, Circuit!Init, NewCircuit, Closed, Circuit!Closed

-----------------------------------------------------------------------------
(* Steps *)

\* A circuit that no step touches stutters.
LEMMA Stutters ==
  ASSUME NEW a \in Adapters, circuit'[a] = circuit[a], CallsOf(a)' = CallsOf(a), ~Registers(a)
  PROVE  IF Registers(a) THEN Circuit(a)!Init' ELSE [Circuit(a)!Next]_(Circuit(a)!vars)
BY DEF CallsOf, Circuit!vars

LEMMA StartGoesOn ==
  ASSUME RInv, NEW t \in Transactions, Start(t)
  PROVE  RInv' /\ EachGoesOn
<1>1. /\ at[t] = "ready" /\ at' = [at EXCEPT ![t] = "call"]
      /\ circuit[adapter[t]].age = Closed
      /\ adapter' = adapter /\ circuit' = circuit /\ registered' = registered
  BY DEF Start, Goes
<1>2. RInv'
  BY <1>1 DEF RInv
<1>3. ASSUME NEW a \in Adapters, adapter[t] = a
      PROVE  Circuit(a)!Start(t)
  <2>1. CallsOf(a)[t] = "none"
    BY <1>1 DEF CallsOf
  <2>2. CallsOf(a)' = [CallsOf(a) EXCEPT ![t] = "call"]
    BY <1>1, <1>3 DEF CallsOf, RInv
  <2> QED
    BY <1>1, <1>3, <2>1, <2>2 DEF Circuit!Start, CallsOf, Closed, Circuit!Closed
<1>4. ASSUME NEW a \in Adapters, adapter[t] # a
      PROVE  CallsOf(a)' = CallsOf(a)
  BY <1>1, <1>4 DEF CallsOf, RInv
<1>5. \A a \in Adapters : ~Registers(a)
  BY <1>1 DEF Registers
<1>6. EachGoesOn
  BY <1>1, <1>3, <1>4, <1>5, Stutters DEF EachGoesOn, Circuit!Next
<1> QED
  BY <1>2, <1>6

LEMMA ProbeGoesOn ==
  ASSUME RInv, NEW t \in Transactions, Probe(t)
  PROVE  RInv' /\ EachGoesOn
<1>0. PICK b \in Adapters : b = adapter[t]
  BY DEF Probe, RInv
<1>1. /\ at[t] = "ready" /\ at' = [at EXCEPT ![t] = "probe"]
      /\ circuit[b].age = Recovery /\ ~circuit[b].probing
      /\ circuit' = [circuit EXCEPT ![b].probing = TRUE]
      /\ adapter' = adapter /\ registered' = registered
  BY <1>0 DEF Probe, Goes
<1>2. IsCircuit(circuit[b])
  BY DEF RInv
<1>3. circuit'[b] = [failures |-> circuit[b].failures, age |-> circuit[b].age,
                     probing |-> TRUE, streak |-> circuit[b].streak]
  <2>1. circuit'[b] = [circuit[b] EXCEPT !.probing = TRUE]
    BY <1>1, <1>2 DEF RInv
  <2> QED
    BY <1>2, <2>1 DEF IsCircuit
<1>4. \A a \in Adapters \ {b} : circuit'[a] = circuit[a]
  BY <1>1, <1>2 DEF RInv
<1>5. RInv'
  <2>1. circuit' = [a \in Adapters |-> circuit'[a]]
    BY <1>1 DEF RInv
  <2>2. \A a \in Adapters : IsCircuit(circuit'[a])
    BY <1>3, <1>4 DEF RInv, IsCircuit
  <2> QED
    BY <1>1, <2>1, <2>2 DEF RInv
<1>6. Circuit(b)!Probe(t)
  <2>1. CallsOf(b)[t] = "none"
    BY <1>1 DEF CallsOf
  <2>2. CallsOf(b)' = [CallsOf(b) EXCEPT ![t] = "probe"]
    BY <1>0, <1>1 DEF CallsOf, RInv
  <2> QED
    BY <1>1, <1>3, <2>1, <2>2 DEF Circuit!Probe, CallsOf
<1>7. ASSUME NEW a \in Adapters, b # a
      PROVE  CallsOf(a)' = CallsOf(a)
  BY <1>0, <1>1, <1>7 DEF CallsOf, RInv
<1>8. \A a \in Adapters : ~Registers(a)
  BY <1>1 DEF Registers
<1>9. EachGoesOn
  <2> SUFFICES ASSUME NEW a \in Adapters
               PROVE  IF Registers(a) THEN Circuit(a)!Init'
                                      ELSE [Circuit(a)!Next]_(Circuit(a)!vars)
    BY DEF EachGoesOn
  <2>1. CASE a = b
    BY <1>6, <1>8, <2>1 DEF Circuit!Next
  <2>2. CASE a # b
    BY <1>4, <1>7, <1>8, <2>2, Stutters
  <2> QED
    BY <2>1, <2>2
<1> QED
  BY <1>5, <1>9

\* The circuits that After allows.
LEMMA AfterRecord ==
  ASSUME NEW f, NEW g, NEW p, NEW s,
         NEW n \in After([failures |-> f, age |-> g, probing |-> p, streak |-> s])
  PROVE  LET up == UpTo(Threshold, s + 1)
         IN \/ n = [failures |-> UpTo(Threshold, f + 1),
                    age |-> IF f + 1 >= Threshold THEN 0 ELSE g, probing |-> p, streak |-> up]
            \/ n = [failures |-> 0, age |-> Closed, probing |-> p, streak |-> 0]
            \/ n = [failures |-> f, age |-> g, probing |-> p, streak |-> up]
            \/ n = [failures |-> f, age |-> g, probing |-> p, streak |-> s]
            \/ /\ ~TimeoutCounts
               /\ n = [failures |-> 0, age |-> Closed, probing |-> p, streak |-> up]
BY DEF After

\* The end of a call leaves its circuit as CircuitBreaker says.
LEMMA CompleteGoesOn ==
  ASSUME RInv, NEW t \in Transactions, Complete(t)
  PROVE  RInv' /\ EachGoesOn
<1>0. PICK b \in Adapters : b = adapter[t]
  BY DEF Complete, RInv
<1> DEFINE f == circuit[b].failures
           g == circuit[b].age
           p == circuit[b].probing /\ at[t] # "probe"
           s == circuit[b].streak
           up == UpTo(Threshold, s + 1)
<1>1. /\ at[t] \in {"call", "probe"}
      /\ at' = [at EXCEPT ![t] = "open"]
      /\ adapter' = [adapter EXCEPT ![t] = NoAdapter]
      /\ registered' = registered
  BY DEF Complete, Returns, Goes
<1>2. [circuit[b] EXCEPT !.probing = @ /\ at[t] # "probe"]
        = [failures |-> f, age |-> g, probing |-> p, streak |-> s]
  <2>1. circuit[b] = [failures |-> f, age |-> g, probing |-> circuit[b].probing, streak |-> s]
    BY DEF RInv, IsCircuit
  <2> HIDE DEF f, g, s
  <2> QED
    BY <2>1
<1>3. PICK n \in After([failures |-> f, age |-> g, probing |-> p, streak |-> s]) :
        circuit' = [circuit EXCEPT ![b] = n]
  BY <1>0, <1>2 DEF Complete
<1>4. circuit'[b] = n /\ \A a \in Adapters \ {b} : circuit'[a] = circuit[a]
  BY <1>3 DEF RInv
<1>5. \/ n = [failures |-> UpTo(Threshold, f + 1),
              age |-> IF f + 1 >= Threshold THEN 0 ELSE g, probing |-> p, streak |-> up]
      \/ n = [failures |-> 0, age |-> Closed, probing |-> p, streak |-> 0]
      \/ n = [failures |-> f, age |-> g, probing |-> p, streak |-> up]
      \/ n = [failures |-> f, age |-> g, probing |-> p, streak |-> s]
      \/ /\ ~TimeoutCounts
         /\ n = [failures |-> 0, age |-> Closed, probing |-> p, streak |-> up]
  <2> HIDE DEF f, g, p, s
  <2> QED
    BY AfterRecord
<1>6. IsCircuit(n) /\ n.probing = p
  <2> HIDE DEF f, g, p, s, up
  <2> QED
    BY <1>5 DEF IsCircuit
<1>7. RInv'
  <2>1. circuit' = [a \in Adapters |-> circuit'[a]]
    BY <1>3 DEF RInv
  <2>2. \A a \in Adapters : IsCircuit(circuit'[a])
    BY <1>4, <1>6 DEF RInv
  <2> QED
    BY <1>1, <2>1, <2>2 DEF RInv
<1>8. Circuit(b)!Ends(t)
  <2>1. CallsOf(b)[t] = at[t]
    BY <1>0, <1>1 DEF CallsOf
  <2>2. CallsOf(b)' = [CallsOf(b) EXCEPT ![t] = "none"]
    BY <1>0, <1>1 DEF CallsOf, RInv
  <2>3. circuit'[b].probing = (circuit[b].probing /\ at[t] # "probe")
    BY <1>4, <1>6
  <2> QED
    BY <1>1, <2>1, <2>2, <2>3 DEF Circuit!Ends, CallsOf
<1>9. Circuit(b)!Completes(t)
  <2>1. ASSUME n.failures = UpTo(Threshold, f + 1),
               n.age = (IF f + 1 >= Threshold THEN 0 ELSE g), n.streak = up
        PROVE  Circuit(b)!Fails(t)
    BY <1>4, <1>8, <2>1 DEF Circuit!Fails, Circuit!CountFailure, Circuit!UpTo, UpTo
  <2>2. ASSUME n.failures = 0, n.age = Closed, n.streak = 0
        PROVE  Circuit(b)!Answers(t)
    BY <1>4, <1>8, <2>2 DEF Circuit!Answers, Circuit!CountSuccess, Closed, Circuit!Closed
  <2>3. ASSUME n.failures = f, n.age = g, n.streak = up
        PROVE  Circuit(b)!Disconnects(t)
    BY <1>4, <1>8, <2>3 DEF Circuit!Disconnects, Circuit!UpTo, UpTo
  <2>4. ASSUME n.failures = f, n.age = g, n.streak = s
        PROVE  Circuit(b)!Raises(t)
    BY <1>4, <1>8, <2>4 DEF Circuit!Raises
  <2>5. ASSUME ~TimeoutCounts, n.failures = 0, n.age = Closed, n.streak = up
        PROVE  Circuit(b)!TimesOut(t)
    BY <1>4, <1>8, <2>5 DEF Circuit!TimesOut, Circuit!CountSuccess, Closed, Circuit!Closed,
                            Circuit!UpTo, UpTo
  <2> HIDE DEF f, g, p, s, up
  <2> QED
    BY <1>5, <2>1, <2>2, <2>3, <2>4, <2>5 DEF Circuit!Completes
<1>10. ASSUME NEW a \in Adapters, b # a PROVE CallsOf(a)' = CallsOf(a)
  BY <1>0, <1>1, <1>10, RegistryAssumption DEF RegistryAssumption, CallsOf, RInv
<1>11. EachGoesOn
  <2> SUFFICES ASSUME NEW a \in Adapters
               PROVE  IF Registers(a) THEN Circuit(a)!Init'
                                      ELSE [Circuit(a)!Next]_(Circuit(a)!vars)
    BY DEF EachGoesOn
  <2>0. ~Registers(a)
    BY <1>1 DEF Registers
  <2>1. CASE a = b
    BY <1>9, <2>0, <2>1 DEF Circuit!Next
  <2>2. CASE a # b
    BY <1>4, <1>10, <2>0, <2>2, Stutters
  <2> QED
    BY <2>1, <2>2
<1> QED
  BY <1>7, <1>11
\* A step that moves a transaction that has no call under way, before or after, and
\* registers nothing.
LEMMA IdleGoesOn ==
  ASSUME RInv, NEW t \in Transactions, NEW where \in {"idle", "open"},
         at[t] \in {"idle", "open", "ready"}, Goes(t, where),
         adapter' \in {adapter, [adapter EXCEPT ![t] = NoAdapter]},
         circuit' = circuit, registered' = registered
  PROVE  RInv' /\ EachGoesOn
<1>1. RInv'
  BY DEF RInv, Goes
<1>2. \A a \in Adapters : CallsOf(a)' = CallsOf(a)
  BY DEF RInv, Goes, CallsOf
<1>3. \A a \in Adapters : ~Registers(a)
  BY DEF Registers
<1> QED
  BY <1>1, <1>2, <1>3, Stutters DEF EachGoesOn

LEMMA GetGoesOn ==
  ASSUME RInv, NEW t \in Transactions, Get(t)
  PROVE  RInv' /\ EachGoesOn
<1>1. at[t] = "open" /\ at' = [at EXCEPT ![t] = "ready"]
  BY DEF Get, Goes
<1>2. CASE Fits(t) /\ adapter' = [adapter EXCEPT ![t] = registered]
                   /\ UNCHANGED <<registered, madeFor, circuit>>
  <2>1. RInv'
    BY <1>1, <1>2 DEF RInv, Fits
  <2>2. \A a \in Adapters : CallsOf(a)' = CallsOf(a)
    BY <1>1, <1>2 DEF RInv, CallsOf
  <2>3. \A a \in Adapters : ~Registers(a)
    BY <1>2 DEF Registers
  <2> QED
    BY <1>2, <2>1, <2>2, <2>3, Stutters DEF EachGoesOn
<1>3. CASE ~(Fits(t) /\ adapter' = [adapter EXCEPT ![t] = registered]
                     /\ UNCHANGED <<registered, madeFor, circuit>>)
  <2>1. PICK b \in Unused : /\ adapter' = [adapter EXCEPT ![t] = b]
                            /\ registered' = b
                            /\ circuit' = [circuit EXCEPT ![b] = NewCircuit]
    BY <1>3 DEF Get
  <2>2. /\ b \in Adapters /\ b # registered
        /\ \A u \in Transactions : adapter[u] # b
    BY DEF Unused
  <2>3. circuit'[b] = NewCircuit /\ \A a \in Adapters \ {b} : circuit'[a] = circuit[a]
    BY <2>1, <2>2 DEF RInv
  <2>4. RInv'
    <3>1. circuit' = [a \in Adapters |-> circuit'[a]]
      BY <2>1 DEF RInv
    <3>2. \A a \in Adapters : IsCircuit(circuit'[a])
      BY <2>3 DEF RInv, IsCircuit, NewCircuit
    <3> QED
      BY <1>1, <2>1, <2>2, <3>1, <3>2 DEF RInv
  <2>5. Circuit(b)!Init'
    <3>1. CallsOf(b)' = [c \in Transactions |-> "none"]
      BY <1>1, <2>1, <2>2 DEF RInv, CallsOf
    <3> QED
      BY <2>3, <3>1 DEF CallsOf, Circuit!Init, NewCircuit, Closed, Circuit!Closed
  <2>6. \A a \in Adapters \ {b} : ~Registers(a) /\ CallsOf(a)' = CallsOf(a)
    BY <1>1, <2>1, <2>2 DEF RInv, CallsOf, Registers
  <2>7. Registers(b)
    BY <2>1, <2>2 DEF Registers
  <2> QED
    BY <2>3, <2>4, <2>5, <2>6, <2>7, Stutters DEF EachGoesOn
<1> QED
  BY <1>2, <1>3

LEMMA TickGoesOn ==
  ASSUME RInv, Tick
  PROVE  RInv' /\ EachGoesOn
<1> DEFINE older(g) == IF g \in 0 .. (Recovery - 1) THEN g + 1 ELSE g
<1>1. ASSUME NEW a \in Adapters
      PROVE  circuit'[a] = [failures |-> circuit[a].failures, age |-> older(circuit[a].age),
                            probing |-> circuit[a].probing, streak |-> circuit[a].streak]
  <2>1. circuit'[a] = [circuit[a] EXCEPT !.age = older(@)]
    BY DEF Tick
  <2>2. IsCircuit(circuit[a])
    BY DEF RInv
  <2> HIDE DEF older
  <2> QED
    BY <2>1, <2>2 DEF IsCircuit
<1>2. /\ at' = at /\ adapter' = adapter /\ registered' = registered
      /\ circuit' = [a \in Adapters |-> circuit'[a]]
  BY DEF Tick
<1>3. RInv'
  <2> HIDE DEF older
  <2> QED
    BY <1>1, <1>2 DEF RInv, IsCircuit
<1>4. ASSUME NEW a \in Adapters
      PROVE  ~Registers(a) /\ CallsOf(a)' = CallsOf(a)
  BY <1>2 DEF Registers, CallsOf
<1>5. ASSUME NEW a \in Adapters, circuit[a].age \in 0 .. (Recovery - 1)
      PROVE  Circuit(a)!Next
  <2>1. circuit'[a] = [failures |-> circuit[a].failures, age |-> circuit[a].age + 1,
                       probing |-> circuit[a].probing, streak |-> circuit[a].streak]
    BY <1>1, <1>5
  <2>2. Circuit(a)!Tick
    BY <1>4, <1>5, <2>1 DEF Circuit!Tick, CallsOf
  <2> QED
    BY <2>2 DEF Circuit!Next
<1>6. ASSUME NEW a \in Adapters, circuit[a].age \notin 0 .. (Recovery - 1)
      PROVE  circuit'[a] = circuit[a]
  BY <1>1, <1>6 DEF RInv, IsCircuit
<1> QED
  BY <1>3, <1>4, <1>5, <1>6, Stutters DEF EachGoesOn

LEMMA StepGoesOn == RInv /\ [Next]_vars => RInv' /\ [EachGoesOn]_vars
<1> SUFFICES ASSUME RInv, [Next]_vars PROVE RInv' /\ [EachGoesOn]_vars
  OBVIOUS
<1>1. CASE UNCHANGED vars
  BY <1>1 DEF vars, RInv, IsCircuit
<1>2. ASSUME NEW t \in Transactions, Begin(t) PROVE RInv' /\ EachGoesOn
  BY <1>2, IdleGoesOn DEF Begin
<1>3. ASSUME NEW t \in Transactions, End(t) PROVE RInv' /\ EachGoesOn
  <2>1. Goes(t, "idle") /\ at[t] = "open"
    BY <1>3 DEF End
  <2> QED
    BY <1>3, <2>1, IdleGoesOn DEF End
<1>4. ASSUME NEW t \in Transactions, Denied(t) PROVE RInv' /\ EachGoesOn
  BY <1>4, IdleGoesOn DEF Denied, Returns
<1>5. ASSUME NEW s \in Settings, Change(s) PROVE RInv' /\ EachGoesOn
  <2>1. /\ at' = at /\ adapter' = adapter /\ circuit' = circuit
        /\ registered' = registered
    BY <1>5 DEF Change
  <2> QED
    BY <2>1, Stutters DEF EachGoesOn, RInv, IsCircuit, CallsOf, Registers
<1> QED
  BY <1>1, <1>2, <1>3, <1>4, <1>5, GetGoesOn, StartGoesOn, ProbeGoesOn, CompleteGoesOn,
     TickGoesOn DEF Next, Works

-----------------------------------------------------------------------------
\* Each adapter of the registry has a circuit of its own, as CircuitBreaker says, from
\* the moment it is registered, however transactions with old and new settings take
\* turns at get_external.
THEOREM EachAdapterHasItsCircuit == Spec => EachHasItsCircuit
<1>1. Init => RInv /\ \A a \in Adapters : Circuit(a)!Init
  BY InitCircuits
<1>2. RInv /\ [Next]_vars => RInv' /\ [EachGoesOn]_vars
  BY StepGoesOn
<1> QED
  BY <1>1, <1>2, PTL DEF Spec, EachHasItsCircuit, EachGoesOn
=============================================================================
