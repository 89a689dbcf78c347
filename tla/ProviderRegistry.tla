--------------------------- MODULE ProviderRegistry ---------------------------
(***************************************************************************)
(* ProviderRegistry.get_external for one external provider, shared by the  *)
(* transactions of a process, while an operator changes the settings of    *)
(* the provider: an adapter is kept across transactions and replaced, with *)
(* its circuits, by the next that comes with other settings.               *)
(*                                                                         *)
(* A transaction reads the settings once, gets an adapter for a line and   *)
(* calls it later; the circuit is that of one operation.                   *)
(***************************************************************************)
EXTENDS Integers

CONSTANTS
  Transactions,
  Adapters,      \* the objects there can be at a time: one for each transaction and
                 \*   the registered one
  NoAdapter,
  Settings,      \* base_url, timeout and credentials
  MaxCalls,      \* calls of a transaction
  MaxChanges,    \* bound on the changes explored
  Threshold, Recovery, TimeoutCounts   \* of CircuitBreaker

ASSUME RegistryAssumption ==
  /\ NoAdapter \notin Adapters
  /\ MaxCalls \in Nat \ {0}
  /\ MaxChanges \in Nat

VARIABLES
  stored,      \* the settings as committed
  changes,
  at,          \* where each transaction is
  seen,        \* the settings it has read
  adapter,     \* the adapter it has got
  left,        \* the calls it has still to make
  registered,  \* the adapter in _providers
  madeFor,     \* the settings of each adapter
  circuit      \* and its circuit: failures, age, probing and streak of CircuitBreaker

vars == <<stored, changes, at, seen, adapter, left, registered, madeFor, circuit>>

Closed == -1
NewCircuit == [failures |-> 0, age |-> Closed, probing |-> FALSE, streak |-> 0]

Init ==
  /\ stored \in Settings
  /\ changes = 0
  /\ at = [t \in Transactions |-> "idle"]
  /\ seen = [t \in Transactions |-> stored]
  /\ adapter = [t \in Transactions |-> NoAdapter]
  /\ left = [t \in Transactions |-> 0]
  /\ registered = NoAdapter
  /\ madeFor = [a \in Adapters |-> stored]
  /\ circuit = [a \in Adapters |-> NewCircuit]

Goes(t, where) == at' = [at EXCEPT ![t] = where]

-----------------------------------------------------------------------------
(* Transactions and the registry *)

Change(s) ==
  /\ s # stored
  /\ changes < MaxChanges
  /\ stored' = s
  /\ changes' = changes + 1
  /\ UNCHANGED <<at, seen, adapter, left, registered, madeFor, circuit>>

Begin(t) ==
  /\ at[t] = "idle"
  /\ Goes(t, "open")
  /\ seen' = [seen EXCEPT ![t] = stored]
  /\ left' = [left EXCEPT ![t] = MaxCalls]
  /\ UNCHANGED <<stored, changes, adapter, registered, madeFor, circuit>>

\* Faulty variant of Fits: any adapter that is registered will do.
FitsAny(t) == registered # NoAdapter

\* registered[0] == settings
Fits(t) == registered # NoAdapter /\ madeFor[registered] = seen[t]

\* An object that nothing refers to any more.
Unused == Adapters \ ({registered} \cup {adapter[t] : t \in Transactions})

Get(t) ==
  /\ at[t] = "open" /\ left[t] > 0
  /\ \/ /\ Fits(t)
        /\ adapter' = [adapter EXCEPT ![t] = registered]
        /\ UNCHANGED <<registered, madeFor, circuit>>
     \/ /\ ~Fits(t)
        /\ Unused # {}
        /\ LET a == CHOOSE u \in Unused : TRUE
           IN /\ adapter' = [adapter EXCEPT ![t] = a]
              /\ registered' = a
              /\ madeFor' = [madeFor EXCEPT ![a] = seen[t]]
              /\ circuit' = [circuit EXCEPT ![a] = NewCircuit]
  /\ left' = [left EXCEPT ![t] = @ - 1]
  /\ Goes(t, "ready")
  /\ UNCHANGED <<stored, changes, seen>>

\* The settings that are not in use any more are not told apart.
End(t) ==
  /\ at[t] = "open"
  /\ Goes(t, "idle")
  /\ left' = [left EXCEPT ![t] = 0]
  /\ UNCHANGED <<stored, changes, seen, adapter, registered, madeFor, circuit>>

-----------------------------------------------------------------------------
(* Calls: _execute *)

Start(t) ==
  /\ at[t] = "ready"
  /\ circuit[adapter[t]].age = Closed
  /\ Goes(t, "call")
  /\ UNCHANGED <<stored, changes, seen, adapter, left, registered, madeFor, circuit>>

Probe(t) ==
  /\ at[t] = "ready"
  /\ circuit[adapter[t]].age = Recovery /\ ~circuit[adapter[t]].probing
  /\ Goes(t, "probe")
  /\ circuit' = [circuit EXCEPT ![adapter[t]].probing = TRUE]
  /\ UNCHANGED <<stored, changes, seen, adapter, left, registered, madeFor>>

Returns(t) ==
  /\ Goes(t, "open")
  /\ adapter' = [adapter EXCEPT ![t] = NoAdapter]
  /\ UNCHANGED <<stored, changes, seen, left, registered, madeFor>>

\* Temporarily unavailable: the circuit is open, or another call probes.
Denied(t) ==
  /\ at[t] = "ready"
  /\ LET k == circuit[adapter[t]]
     IN k.age # Closed /\ (k.age < Recovery \/ k.probing)
  /\ Returns(t)
  /\ UNCHANGED circuit

UpTo(limit, n) == IF n < limit THEN n ELSE limit

\* The circuit k after a call that fails, is answered, loses its connection or raises.
After(k) ==
  LET Left(f, g, s) == [failures |-> f, age |-> g, probing |-> k.probing, streak |-> s]
      more == UpTo(Threshold, k.streak + 1)
  IN {Left(UpTo(Threshold, k.failures + 1),
           IF k.failures + 1 >= Threshold THEN 0 ELSE k.age, more),
      Left(0, Closed, 0),
      Left(k.failures, k.age, more),
      Left(k.failures, k.age, k.streak)}
     \cup (IF TimeoutCounts THEN {} ELSE {Left(0, Closed, more)})

\* Faulty variant of Complete: the circuit is looked up again when the call is over.
CompleteAtRegistered(t) ==
  /\ at[t] \in {"call", "probe"}
  /\ \E k \in After([circuit[registered] EXCEPT !.probing = @ /\ at[t] # "probe"]) :
       circuit' = [circuit EXCEPT ![registered] = k]
  /\ Returns(t)

Complete(t) ==
  /\ at[t] \in {"call", "probe"}
  /\ \E k \in After([circuit[adapter[t]] EXCEPT !.probing = @ /\ at[t] # "probe"]) :
       circuit' = [circuit EXCEPT ![adapter[t]] = k]
  /\ Returns(t)

Tick ==
  /\ \E a \in Adapters : circuit[a].age \in 0 .. (Recovery - 1)
  /\ circuit' = [a \in Adapters |->
       [circuit[a] EXCEPT !.age = IF @ \in 0 .. (Recovery - 1) THEN @ + 1 ELSE @]]
  /\ UNCHANGED <<stored, changes, at, seen, adapter, left, registered, madeFor>>

Works(t) ==
  \/ Begin(t) \/ Get(t) \/ End(t)
  \/ Start(t) \/ Probe(t) \/ Denied(t) \/ Complete(t)

Next ==
  \/ \E t \in Transactions : Works(t)
  \/ \E s \in Settings : Change(s)
  \/ Tick

Spec == Init /\ [][Next]_vars

\* A transaction goes on to its end: every call has a timeout.
FairSpec == Spec /\ \A t \in Transactions : WF_vars(Works(t))

-----------------------------------------------------------------------------
\* However transactions with old and new settings take turns at the registry, each
\* adapter has a circuit of its own, as CircuitBreaker says, from the moment it is
\* registered: a late answer is counted where the call was begun, and the outage of
\* the old settings does not shut out the new ones.
Circuit(a) == INSTANCE CircuitBreaker WITH
  Callers  <- Transactions,
  failures <- circuit[a].failures,
  age      <- circuit[a].age,
  probing  <- circuit[a].probing,
  streak   <- circuit[a].streak,
  call     <- [t \in Transactions |->
                 IF adapter[t] = a /\ at[t] \in {"call", "probe"} THEN at[t] ELSE "none"]

Registers(a) == registered # a /\ registered' = a

EachHasItsCircuit ==
  /\ \A a \in Adapters : Circuit(a)!Init
  /\ [][\A a \in Adapters :
          IF Registers(a) THEN Circuit(a)!Init'
                          ELSE [Circuit(a)!Next]_(Circuit(a)!vars)]_vars

\* Once the settings are changed no more, every call comes to go out with them, and
\* through the one adapter that is registered, so that its circuit sees all of them.
SettlesOnStored ==
  <>[](\A t \in Transactions : at[t] \in {"call", "probe"} =>
         adapter[t] = registered /\ madeFor[registered] = stored)
=============================================================================
