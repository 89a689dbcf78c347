------------------------- MODULE WorkerBatchesProofs -------------------------
(***************************************************************************)
(* Proofs about the workers' batches for any reservations and lines, any   *)
(* number of workers and requests, any batch size and any limit on the     *)
(* attempts.                                                               *)
(***************************************************************************)
EXTENDS WorkerBatches, FiniteSetTheorems, TLAPS

Statuses == {"none", "succeeded", "unknown", "failed"}

\* The type of an operation, but for the ticks, which nothing rests on (see
\* WaitsAreNatural).
IsOperation(o) ==
  /\ o = [status |-> o.status, attempts |-> o.attempts, wait |-> o.wait]
  /\ o.status \in Statuses
  /\ o.attempts \in Nat

Types ==
  /\ stage \in [Reservations -> {"pending", "releasing", "released"}]
  /\ op = [l \in Lines |-> op[l]]
  /\ draft = [l \in Lines |-> draft[l]]
  /\ \A l \in Lines : IsOperation(op[l]) /\ IsOperation(draft[l])
  /\ batch \in [Workers -> SUBSET Reservations]
  /\ todo \in [Workers -> SUBSET Lines]
  /\ retried \in BOOLEAN

\* SKIP LOCKED and FOR UPDATE: a reservation is in one transaction at most.
LocksExclude == \A v, w \in Workers : v # w => batch[v] \cap batch[w] = {}

\* What no transaction has locked is as committed.
FreeIsCommitted ==
  \A l \in Lines : (\A w \in Workers : l \notin LinesIn(batch[w])) => draft[l] = op[l]

IsAttemptAt(o, n) == n.status \in Attempts!Outcomes /\ n.attempts = Counted(o)

\* A line of a batch is still to be called, has been called once, or need not be.
CalledOnce ==
  \A w \in Workers :
    /\ todo[w] \subseteq LinesIn(batch[w])
    /\ \A l \in LinesIn(batch[w]) :
         \/ /\ draft[l] = op[l]
            /\ l \in todo[w] <=> Callable(op[l], w \in Reconcilers)
         \/ /\ l \notin todo[w]
            /\ Callable(op[l], w \in Reconcilers)
            /\ IsAttemptAt(op[l], draft[l])

IInv == Types /\ LocksExclude /\ FreeIsCommitted /\ CalledOnce

work == <<stage, op, batch, todo, draft, retried>>

-----------------------------------------------------------------------------
(* Lines and locks *)

LEMMA LinesInLines == \A S \in SUBSET Reservations : LinesIn(S) \subseteq Lines
BY BatchesAssumption DEF BatchesAssumption, LinesIn

\* The lines of disjoint batches are disjoint.
LEMMA LinesApart ==
  ASSUME NEW S \in SUBSET Reservations, NEW T \in SUBSET Reservations, S \cap T = {}
  PROVE  LinesIn(S) \cap LinesIn(T) = {}
<1> SUFFICES ASSUME NEW l \in LinesIn(S), l \in LinesIn(T) PROVE FALSE
  OBVIOUS
<1>1. PICK r \in S : l \in LinesOf[r]
  BY DEF LinesIn
<1>2. PICK q \in T : l \in LinesOf[q]
  BY DEF LinesIn
<1>3. r # q /\ r \in Reservations /\ q \in Reservations
  OBVIOUS
<1> QED
  BY <1>1, <1>2, <1>3, BatchesAssumption DEF BatchesAssumption

LEMMA BatchesApart ==
  ASSUME Types, LocksExclude, NEW v \in Workers, NEW w \in Workers, v # w
  PROVE  LinesIn(batch[v]) \cap LinesIn(batch[w]) = {}
BY LinesApart DEF Types, LocksExclude

LEMMA InitIInv == Init => IInv
<1> SUFFICES ASSUME Init PROVE IInv
  OBVIOUS
<1>1. Types
  BY DEF Init, Types, IsOperation, NoOperation, Statuses
<1>2. \A w \in Workers : batch[w] = {} /\ LinesIn(batch[w]) = {} /\ todo[w] = {}
  BY DEF Init, LinesIn
<1>3. LocksExclude /\ CalledOnce
  BY <1>2 DEF LocksExclude, CalledOnce
<1>4. FreeIsCommitted
  BY DEF Init, FreeIsCommitted
<1> QED
  BY <1>1, <1>3, <1>4 DEF IInv

-----------------------------------------------------------------------------
(* The steps *)

\* A transaction takes reservations that no other has.
LEMMA ClaimKeeps ==
  ASSUME IInv, NEW w \in Workers, NEW S \in SUBSET (Reservations \ Locked), Claim(w, S)
  PROVE  IInv'
<1>1. /\ batch[w] = {}
      /\ batch' = [batch EXCEPT ![w] = S]
      /\ todo' = [todo EXCEPT ![w] =
            {l \in LinesIn(S) : Callable(op[l], w \in Reconcilers)}]
      /\ stage' = stage /\ op' = op /\ draft' = draft /\ retried' = retried
  BY DEF Claim, Ready
<1>2. LinesIn(S) \subseteq Lines
  BY LinesInLines
<1>3. Types'
  BY <1>1, <1>2 DEF IInv, Types
<1>4. LocksExclude'
  BY <1>1 DEF IInv, Types, LocksExclude, Locked
<1>5. ASSUME NEW l \in LinesIn(S) PROVE draft[l] = op[l]
  <2>1. \A v \in Workers : S \cap batch[v] = {}
    BY DEF Locked
  <2>2. \A v \in Workers : l \notin LinesIn(batch[v])
    BY <2>1, LinesApart DEF IInv, Types
  <2> QED
    BY <1>2, <2>2 DEF IInv, FreeIsCommitted
<1>6. LinesIn(batch[w]) = {}
  BY <1>1 DEF LinesIn
<1>7. \A v \in Workers : LinesIn(batch[v]) \subseteq LinesIn(batch'[v])
  BY <1>1, <1>6 DEF IInv, Types
<1>8. FreeIsCommitted'
  <2> SUFFICES ASSUME NEW l \in Lines, \A v \in Workers : l \notin LinesIn(batch[v])'
               PROVE  draft'[l] = op'[l]
    BY DEF FreeIsCommitted
  <2>1. \A v \in Workers : LinesIn(batch[v])' = LinesIn(batch'[v])
    BY DEF LinesIn
  <2> QED
    BY <1>1, <1>7, <2>1 DEF IInv, FreeIsCommitted
<1>9. CalledOnce'
  <2> SUFFICES ASSUME NEW v \in Workers
               PROVE  /\ todo'[v] \subseteq LinesIn(batch'[v])
                      /\ \A l \in LinesIn(batch'[v]) :
                           \/ /\ draft[l] = op[l]
                              /\ l \in todo'[v] <=> Callable(op[l], v \in Reconcilers)
                           \/ /\ l \notin todo'[v]
                              /\ Callable(op[l], v \in Reconcilers)
                              /\ IsAttemptAt(op[l], draft[l])
    BY <1>1 DEF CalledOnce, LinesIn, Callable, IsAttemptAt, Counted, Attempts!Outcomes
  <2>1. CASE v = w
    <3>1. /\ batch'[v] = S
          /\ todo'[v] = {l \in LinesIn(S) : Callable(op[l], v \in Reconcilers)}
      BY <1>1, <2>1 DEF IInv, Types
    <3> QED
      BY <3>1, <1>5
  <2>2. CASE v # w
    <3>1. batch'[v] = batch[v] /\ todo'[v] = todo[v]
      BY <1>1, <2>2 DEF IInv, Types
    <3> QED
      BY <3>1 DEF IInv, CalledOnce
  <2> QED
    BY <2>1, <2>2
<1> QED
  BY <1>3, <1>4, <1>8, <1>9 DEF IInv

\* What is claimed is free, whoever claims.
LEMMA ClaimsAreFree ==
  ASSUME NEW w \in Workers, ExpireBatch(w) \/ ReconcileBatch(w) \/ Request(w)
  PROVE  \E S \in SUBSET (Reservations \ Locked) : Claim(w, S)
<1>1. CASE ExpireBatch(w)
  BY <1>1 DEF ExpireBatch, FirstOf, Overdue
<1>2. CASE ReconcileBatch(w)
  BY <1>2 DEF ReconcileBatch, kSubset, Due
<1>3. CASE Request(w)
  BY <1>3 DEF Request
<1> QED
  BY <1>1, <1>2, <1>3

\* An answer makes a draft of its line, which no other transaction has.
LEMMA CallKeeps ==
  ASSUME IInv, NEW w \in Workers, Call(w)
  PROVE  IInv'
<1>1. PICK l \in todo[w], outcome \in Attempts!Outcomes :
        /\ draft' = [draft EXCEPT ![l] = Called(op[l], outcome, w \in Reconcilers)]
        /\ todo' = [todo EXCEPT ![w] = @ \ {l}]
  BY DEF Call, Attempts!Outcomes
<1>2. stage' = stage /\ op' = op /\ batch' = batch /\ retried' = retried
  BY DEF Call
<1>3. l \in LinesIn(batch[w]) /\ l \in Lines
  BY DEF IInv, CalledOnce, Types
<1>4. Callable(op[l], w \in Reconcilers)
  BY <1>3 DEF IInv, CalledOnce
<1>5. /\ IsOperation(Called(op[l], outcome, w \in Reconcilers))
      /\ IsAttemptAt(op[l], Called(op[l], outcome, w \in Reconcilers))
  <2>1. Counted(op[l]) \in Nat
    BY <1>3 DEF IInv, Types, IsOperation, Counted
  <2> QED
    BY <2>1 DEF IsOperation, IsAttemptAt, Called, Statuses, Attempts!Outcomes
<1>6. /\ draft'[l] = Called(op[l], outcome, w \in Reconcilers)
      /\ \A k \in Lines \ {l} : draft'[k] = draft[k]
  BY <1>1, <1>3 DEF IInv, Types
<1>7. Types'
  BY <1>1, <1>2, <1>3, <1>5, <1>6 DEF IInv, Types
<1>8. LocksExclude'
  BY <1>2 DEF IInv, LocksExclude
<1>9. FreeIsCommitted'
  BY <1>2, <1>3, <1>6 DEF IInv, FreeIsCommitted, LinesIn
<1>10. CalledOnce'
  <2> SUFFICES ASSUME NEW v \in Workers
               PROVE  /\ todo'[v] \subseteq LinesIn(batch[v])
                      /\ \A k \in LinesIn(batch[v]) :
                           \/ /\ draft'[k] = op[k]
                              /\ k \in todo'[v] <=> Callable(op[k], v \in Reconcilers)
                           \/ /\ k \notin todo'[v]
                              /\ Callable(op[k], v \in Reconcilers)
                              /\ IsAttemptAt(op[k], draft'[k])
    BY <1>2 DEF CalledOnce, LinesIn, Callable, IsAttemptAt, Counted, Attempts!Outcomes
  <2>1. LinesIn(batch[v]) \subseteq Lines
    BY LinesInLines DEF IInv, Types
  <2>2. CASE v = w
    <3>1. todo'[v] = todo[w] \ {l}
      BY <1>1, <2>2 DEF IInv, Types
    <3> QED
      BY <3>1, <2>1, <2>2, <1>4, <1>5, <1>6 DEF IInv, CalledOnce
  <2>3. CASE v # w
    <3>1. todo'[v] = todo[v]
      BY <1>1, <2>3 DEF IInv, Types
    <3>2. l \notin LinesIn(batch[v])
      BY <2>3, <1>3, BatchesApart DEF IInv
    <3> QED
      BY <3>1, <3>2, <2>1, <1>6 DEF IInv, CalledOnce
  <2> QED
    BY <2>2, <2>3
<1> QED
  BY <1>7, <1>8, <1>9, <1>10 DEF IInv

\* The end of a transaction: its lines are committed and its locks gone.
LEMMA EndKeeps ==
  ASSUME IInv, NEW w \in Workers,
         batch' = [batch EXCEPT ![w] = {}],
         todo'[w] = {},
         todo' = [todo EXCEPT ![w] = todo'[w]],
         Types',
         \A l \in LinesIn(batch[w]) : draft'[l] = op'[l],
         \A l \in Lines \ LinesIn(batch[w]) : draft'[l] = draft[l] /\ op'[l] = op[l]
  PROVE  LocksExclude' /\ FreeIsCommitted' /\ CalledOnce'
<1>1. LocksExclude'
  BY DEF IInv, Types, LocksExclude
<1>2. \A v \in Workers \ {w} : batch'[v] = batch[v] /\ todo'[v] = todo[v]
  BY DEF IInv, Types
<1>3. batch'[w] = {} /\ LinesIn(batch'[w]) = {}
  BY DEF IInv, Types, LinesIn
<1>4. FreeIsCommitted'
  <2> SUFFICES ASSUME NEW l \in Lines, \A v \in Workers : l \notin LinesIn(batch'[v])
               PROVE  draft'[l] = op'[l]
    BY DEF FreeIsCommitted, LinesIn
  <2>1. CASE l \in LinesIn(batch[w])
    BY <2>1
  <2>2. CASE l \notin LinesIn(batch[w])
    <3>1. \A v \in Workers : l \notin LinesIn(batch[v])
      BY <2>2, <1>2
    <3> QED
      BY <3>1, <2>2 DEF IInv, FreeIsCommitted
  <2> QED
    BY <2>1, <2>2
<1>5. CalledOnce'
  <2> SUFFICES ASSUME NEW v \in Workers
               PROVE  /\ todo'[v] \subseteq LinesIn(batch'[v])
                      /\ \A k \in LinesIn(batch'[v]) :
                           \/ /\ draft'[k] = op'[k]
                              /\ k \in todo'[v] <=> Callable(op'[k], v \in Reconcilers)
                           \/ /\ k \notin todo'[v]
                              /\ Callable(op'[k], v \in Reconcilers)
                              /\ IsAttemptAt(op'[k], draft'[k])
    BY DEF CalledOnce, LinesIn, Callable, IsAttemptAt, Counted, Attempts!Outcomes
  <2>1. CASE v = w
    BY <2>1, <1>3
  <2>2. CASE v # w
    <3>1. LinesIn(batch[v]) \subseteq Lines \ LinesIn(batch[w])
      BY <2>2, LinesInLines, BatchesApart DEF IInv, Types
    <3> QED
      BY <3>1, <1>2, <2>2 DEF IInv, CalledOnce
  <2> QED
    BY <2>1, <2>2
<1> QED
  BY <1>1, <1>4, <1>5

LEMMA RollbackKeeps ==
  ASSUME IInv, NEW w \in Workers, Rollback(w)
  PROVE  IInv'
<1>1. /\ batch' = [batch EXCEPT ![w] = {}]
      /\ todo' = [todo EXCEPT ![w] = {}]
      /\ draft' = [l \in Lines |-> IF l \in LinesIn(batch[w]) THEN op[l] ELSE draft[l]]
      /\ stage' = stage /\ op' = op /\ retried' = retried
  BY DEF Rollback
<1>2. LinesIn(batch[w]) \subseteq Lines
  BY LinesInLines DEF IInv, Types
<1>3. Types'
  BY <1>1 DEF IInv, Types
<1>4. todo'[w] = {} /\ todo' = [todo EXCEPT ![w] = todo'[w]]
  BY <1>1 DEF IInv, Types
<1>5. LocksExclude' /\ FreeIsCommitted' /\ CalledOnce'
  BY <1>1, <1>2, <1>3, <1>4, EndKeeps
<1> QED
  BY <1>3, <1>5 DEF IInv

\* The commit of a batch writes what it has called.
LEMMA CommitKeeps ==
  ASSUME IInv, NEW w \in Workers, Commit(w)
  PROVE  IInv'
<1>1. /\ batch' = [batch EXCEPT ![w] = {}]
      /\ todo[w] = {} /\ todo' = todo /\ draft' = draft
      /\ op' = [l \in Lines |-> IF l \in LinesIn(batch[w]) THEN draft[l] ELSE op[l]]
      /\ stage' = [r \in Reservations |-> IF r \in batch[w] THEN StageOf(r) ELSE stage[r]]
      /\ retried' = (w \in Reconcilers)
  BY DEF Commit
<1>2. LinesIn(batch[w]) \subseteq Lines
  BY LinesInLines DEF IInv, Types
<1>3. Types'
  BY <1>1 DEF IInv, Types, StageOf
<1>4. todo'[w] = {} /\ todo' = [todo EXCEPT ![w] = todo'[w]]
  BY <1>1 DEF IInv, Types
<1>5. LocksExclude' /\ FreeIsCommitted' /\ CalledOnce'
  BY <1>1, <1>2, <1>3, <1>4, EndKeeps
<1> QED
  BY <1>3, <1>5 DEF IInv

Left(l) == IF op[l].wait > 0 THEN op[l].wait - 1 ELSE 0

\* Of an operation, time changes what is left to wait, and no more.
LEMMA TickLeaves ==
  ASSUME Types, Tick, NEW l \in Lines
  PROVE  /\ op'[l] = [status |-> op[l].status, attempts |-> op[l].attempts, wait |-> Left(l)]
         /\ op[l].wait = 0 => op'[l] = op[l]
<1>1. op[l] = [status |-> op[l].status, attempts |-> op[l].attempts, wait |-> op[l].wait]
  BY DEF Types, IsOperation
<1>2. op' = [k \in Lines |-> [op[k] EXCEPT !.wait = Left(k)]]
  BY DEF Tick, Left
<1>3. op'[l] = [op[l] EXCEPT !.wait = Left(l)]
  BY <1>2
<1>4. op'[l] = [status |-> op[l].status, attempts |-> op[l].attempts, wait |-> Left(l)]
  BY <1>1, <1>3
<1>5. op[l].wait = 0 => Left(l) = 0
  BY DEF Left
<1> QED
  BY <1>1, <1>4, <1>5

LEMMA TickKeepsAttempts ==
  ASSUME Types, Tick, NEW l \in Lines
  PROVE  op'[l].status = op[l].status /\ op'[l].attempts = op[l].attempts
<1>1. op'[l] = [status |-> op[l].status, attempts |-> op[l].attempts, wait |-> Left(l)]
  BY TickLeaves
<1> QED
  BY <1>1

\* Time passes while nothing is locked.
LEMMA TickKeeps ==
  ASSUME IInv, Tick
  PROVE  IInv'
<1>1. /\ op' = [l \in Lines |-> op'[l]]
      /\ draft' = op'
      /\ stage' = stage /\ batch' = batch /\ todo' = todo /\ retried' = retried
  BY DEF Tick
<1>2. ASSUME NEW l \in Lines
      PROVE  /\ IsOperation(op'[l]) /\ op'[l].status = op[l].status
             /\ op[l].wait = 0 => op'[l] = op[l]
  <2>1. op'[l] = [status |-> op[l].status, attempts |-> op[l].attempts, wait |-> Left(l)]
    BY TickLeaves DEF IInv
  <2>2. op[l].wait = 0 => op'[l] = op[l]
    BY TickLeaves DEF IInv
  <2>3. IsOperation(op'[l])
    BY <2>1 DEF IInv, Types, IsOperation
  <2> QED
    BY <2>1, <2>2, <2>3
<1>3. Types'
  BY <1>1, <1>2 DEF IInv, Types
<1>4. \A w \in Workers : batch[w] = {}
  BY DEF Tick, Locked
<1>5. LocksExclude' /\ FreeIsCommitted'
  BY <1>1 DEF IInv, LocksExclude, FreeIsCommitted
<1>6. CalledOnce'
  <2>1. \A w \in Workers : LinesIn(batch'[w]) = {} /\ todo'[w] = {}
    BY <1>1, <1>4 DEF IInv, CalledOnce, LinesIn
  <2> QED
    BY <2>1 DEF CalledOnce, LinesIn
<1> QED
  BY <1>3, <1>5, <1>6 DEF IInv

\* The steps of the loop touch no work.
LEMMA StutterKeeps ==
  ASSUME IInv, UNCHANGED work
  PROVE  IInv'
<1>1. /\ stage' = stage /\ op' = op /\ batch' = batch /\ todo' = todo /\ draft' = draft
      /\ retried' = retried
  BY DEF work
<1>2. Types' /\ LocksExclude'
  BY <1>1 DEF IInv, Types, LocksExclude
<1>3. FreeIsCommitted'
  BY <1>1 DEF IInv, FreeIsCommitted, LinesIn
<1>4. CalledOnce'
  BY <1>1 DEF IInv, CalledOnce, LinesIn, Callable, IsAttemptAt, Counted, Attempts!Outcomes
<1> QED
  BY <1>2, <1>3, <1>4 DEF IInv

\* What a step comes to for the work.
LEMMA StepCases ==
  ASSUME [Next]_vars
  PROVE  \/ \E w \in Workers, S \in SUBSET (Reservations \ Locked) : Claim(w, S)
         \/ \E w \in Workers : Call(w) \/ Rollback(w) \/ Commit(w)
         \/ Tick
         \/ UNCHANGED work
<1>1. CASE UNCHANGED vars
  BY <1>1 DEF vars, work
<1>2. CASE Tick
  BY <1>2
<1>3. ASSUME NEW w \in Stoppable, AskToStop(w) PROVE UNCHANGED work
  BY <1>3 DEF AskToStop, work
<1>4. ASSUME NEW w \in Workers, Crash(w) PROVE Rollback(w)
  BY <1>4 DEF Crash
<1>5. ASSUME NEW w \in Workers, Works(w)
      PROVE  \/ \E S \in SUBSET (Reservations \ Locked) : Claim(w, S)
             \/ Call(w) \/ Rollback(w) \/ Commit(w)
             \/ UNCHANGED work
  <2>1. CASE ExpireBatch(w) \/ ReconcileBatch(w) \/ Request(w)
    BY <2>1, ClaimsAreFree
  <2>2. CASE CallRaises(w)
    BY <2>2 DEF CallRaises
  <2>3. CASE FindsNothing(w) \/ Wakes(w) \/ Stops(w)
    BY <2>3 DEF FindsNothing, Wakes, Stops, work
  <2> QED
    BY <1>5, <2>1, <2>2, <2>3 DEF Works
<1> QED
  BY <1>1, <1>2, <1>3, <1>4, <1>5 DEF Next

LEMMA InvStep == IInv /\ [Next]_vars => IInv'
<1> SUFFICES ASSUME IInv, [Next]_vars PROVE IInv'
  OBVIOUS
<1> QED
  BY StepCases, ClaimKeeps, CallKeeps, RollbackKeeps, CommitKeeps, TickKeeps, StutterKeeps

\* The invariant behind the theorems: locks exclude, what is not locked is as
\* committed, and every line of a batch has been called once or not at all.
THEOREM Invariance == Spec => []IInv
BY InitIInv, InvStep, PTL DEF Spec

\* A commit shows every reservation of its batch, each with the calls the batch owed it.
LEMMA CommitSettles ==
  ASSUME IInv, NEW w \in Workers, Commit(w)
  PROVE  batch'[w] = {} /\ BatchIsSettled(w)
<1>1. /\ batch' = [batch EXCEPT ![w] = {}]
      /\ todo[w] = {}
      /\ op' = [l \in Lines |-> IF l \in LinesIn(batch[w]) THEN draft[l] ELSE op[l]]
      /\ stage' = [r \in Reservations |-> IF r \in batch[w] THEN StageOf(r) ELSE stage[r]]
  BY DEF Commit
<1>2. batch'[w] = {} /\ batch[w] \subseteq Reservations
  BY <1>1 DEF IInv, Types
<1>3. ASSUME NEW r \in batch[w]
      PROVE  \A l \in LinesOf[r] : l \in LinesIn(batch[w]) /\ l \in Lines /\ op'[l] = draft[l]
  <2>1. LinesOf[r] \subseteq LinesIn(batch[w])
    BY DEF LinesIn
  <2>2. LinesIn(batch[w]) \subseteq Lines
    BY <1>2, LinesInLines
  <2> QED
    BY <1>1, <2>1, <2>2
<1>4. ASSUME NEW r \in batch[w], NEW l \in LinesOf[r]
      PROVE  op'[l].attempts = IF Callable(op[l], w \in Reconcilers) THEN Counted(op[l])
                               ELSE op[l].attempts
  <2>1. \/ draft[l] = op[l] /\ ~Callable(op[l], w \in Reconcilers)
        \/ Callable(op[l], w \in Reconcilers) /\ IsAttemptAt(op[l], draft[l])
    BY <1>1, <1>3 DEF IInv, CalledOnce
  <2> QED
    BY <1>3, <2>1 DEF IsAttemptAt
<1>5. ASSUME NEW r \in batch[w]
      PROVE  stage'[r] = IF \A l \in LinesOf[r] : op'[l].status = "succeeded" THEN "released"
                         ELSE "releasing"
  <2>1. stage'[r] = StageOf(r)
    BY <1>1, <1>2
  <2> QED
    BY <1>3, <2>1 DEF StageOf
<1> QED
  BY <1>2, <1>4, <1>5 DEF BatchIsSettled

\* A commit shows nothing of the reservations outside its batch.
LEMMA CommitShowsItsOwn ==
  ASSUME IInv, NEW w \in Workers, Commit(w), NEW r \in Reservations, r \notin batch[w]
  PROVE  ~Shows(r)
<1>1. LinesIn({r}) \cap LinesIn(batch[w]) = {}
  BY LinesApart DEF IInv, Types
<1>2. LinesOf[r] \subseteq Lines /\ LinesIn({r}) = LinesOf[r]
  BY BatchesAssumption DEF BatchesAssumption, LinesIn
<1>3. \A l \in LinesOf[r] : op'[l] = op[l]
  BY <1>1, <1>2 DEF Commit
<1>4. stage'[r] = stage[r]
  BY DEF Commit
<1> QED
  BY <1>3, <1>4 DEF Shows

\* A batch (expire_batch, reconcile_batch) shows as a whole or not at all, whatever
\* crashes and raises in the middle of it: no step shows one of its reservations
\* without the rest of them, or without a call that the batch owes one of them.
THEOREM BatchesAreAtomic == Spec => BatchIsAtomic
<1> DEFINE Whole ==
      /\ \A w \in Workers :
           (\E r \in batch[w] : Shows(r)) => batch'[w] = {} /\ BatchIsSettled(w)
      /\ \A r \in Reservations \ Locked :
           /\ stage'[r] = stage[r]
           /\ \A l \in LinesOf[r] : /\ op'[l].status = op[l].status
                                   /\ op'[l].attempts = op[l].attempts
<1>1. IInv /\ [Next]_vars => Whole
  <2> SUFFICES ASSUME IInv, [Next]_vars PROVE Whole
    OBVIOUS
  <2>1. ASSUME stage' = stage, op' = op PROVE Whole
    BY <2>1 DEF Shows
  <2>2. CASE \E w \in Workers, S \in SUBSET (Reservations \ Locked) : Claim(w, S)
    BY <2>1, <2>2 DEF Claim
  <2>3. CASE \E w \in Workers : Call(w) \/ Rollback(w)
    BY <2>1, <2>3 DEF Call, Rollback
  <2>4. ASSUME NEW w \in Workers, Commit(w) PROVE Whole
    <3>1. batch'[w] = {} /\ BatchIsSettled(w)
      BY <2>4, CommitSettles
    <3>2. ASSUME NEW v \in Workers \ {w}, NEW r \in batch[v] PROVE ~Shows(r)
      <4>1. r \in Reservations /\ r \notin batch[w]
        BY DEF IInv, Types, LocksExclude
      <4> QED
        BY <2>4, <4>1, CommitShowsItsOwn
    <3>3. ASSUME NEW r \in Reservations \ Locked PROVE ~Shows(r)
      <4>1. r \notin batch[w]
        BY DEF Locked
      <4> QED
        BY <2>4, <4>1, CommitShowsItsOwn
    <3>4. \A v \in Workers :
            (\E r \in batch[v] : Shows(r)) => batch'[v] = {} /\ BatchIsSettled(v)
      BY <3>1, <3>2
    <3> QED
      BY <3>3, <3>4 DEF Shows
  <2>5. CASE Tick
    <3>1. \A w \in Workers : batch[w] = {}
      BY <2>5 DEF Tick, Locked
    <3>2. stage' = stage
      BY <2>5 DEF Tick
    <3>3. \A l \in Lines : op'[l].status = op[l].status /\ op'[l].attempts = op[l].attempts
      BY <2>5, TickKeepsAttempts DEF IInv
    <3>4. \A r \in Reservations : LinesOf[r] \subseteq Lines
      BY BatchesAssumption DEF BatchesAssumption
    <3> QED
      BY <3>1, <3>2, <3>3, <3>4
  <2>6. CASE UNCHANGED work
    BY <2>1, <2>6 DEF work
  <2> QED
    BY StepCases, <2>2, <2>3, <2>4, <2>5, <2>6
<1> QED
  BY Invariance, <1>1, PTL DEF Spec, BatchIsAtomic

-----------------------------------------------------------------------------
(* The refinement *)

\* The commit of a batch is one attempt at the lines it was to call, as committed
\* when it claimed them.
LEMMA CommitAttempts ==
  ASSUME IInv, NEW w \in Workers, Commit(w)
  PROVE  Attempts!Next
<1> DEFINE retry == w \in Reconcilers
           S == {l \in LinesIn(batch[w]) : Callable(op[l], retry)}
           outcome == [l \in Lines |-> op[l].status]
           tries == [l \in Lines |-> op[l].attempts]
<1>1. /\ todo[w] = {}
      /\ op' = [l \in Lines |-> IF l \in LinesIn(batch[w]) THEN draft[l] ELSE op[l]]
  BY DEF Commit
<1>2. LinesIn(batch[w]) \subseteq Lines
  BY LinesInLines DEF IInv, Types
<1>3. ASSUME NEW l \in S
      PROVE  l \in Lines /\ op'[l] = draft[l] /\ IsAttemptAt(op[l], op'[l])
  BY <1>1, <1>2 DEF IInv, CalledOnce
<1>4. ASSUME NEW l \in Lines \ S PROVE op'[l] = op[l]
  BY <1>1, <1>2 DEF IInv, CalledOnce
<1>5. S \in SUBSET Lines /\ retry \in BOOLEAN
  BY <1>2
<1>6. \A l \in S : Attempts!MayAttempt(l, retry)
  BY <1>5 DEF Attempts!MayAttempt, Callable
<1>7. outcome' \in [Lines -> Attempts!Outcomes \cup {"none"}]
  <2>1. \A l \in Lines : op'[l].status \in Attempts!Outcomes \cup {"none"}
    <3>1. \A l \in Lines : op[l].status \in Attempts!Outcomes \cup {"none"}
      BY DEF IInv, Types, IsOperation, Statuses, Attempts!Outcomes
    <3>2. \A l \in S : op'[l].status \in Attempts!Outcomes
      BY <1>3 DEF IsAttemptAt
    <3> QED
      BY <3>1, <3>2, <1>4
  <2> QED
    BY <2>1
<1>8. \A l \in S : outcome'[l] \in Attempts!Outcomes
  BY <1>3 DEF IsAttemptAt
<1>9. \A l \in Lines \ S : outcome'[l] = outcome[l]
  BY <1>4
<1>10. tries' = [l \in Lines |-> IF l \in S THEN Attempts!Counted(tries[l]) ELSE tries[l]]
  <2>1. \A l \in S : op'[l].attempts = Attempts!Counted(op[l].attempts)
    BY <1>3 DEF IsAttemptAt, Counted, Attempts!Counted
  <2>2. \A l \in Lines : op'[l].attempts =
          IF l \in S THEN Attempts!Counted(op[l].attempts) ELSE op[l].attempts
    BY <2>1, <1>4
  <2> QED
    BY <2>2
<1>11. Attempts!Attempt(S, retry)
  BY <1>6, <1>7, <1>8, <1>9, <1>10 DEF Attempts!Attempt, Commit
<1> QED
  BY <1>5, <1>11 DEF Attempts!Next

\* Every other step leaves what is committed of the operations, but for the wait.
LEMMA OthersStutter ==
  ASSUME op = [l \in Lines |-> op[l]], retried' = retried,
         \A l \in Lines : op'[l].status = op[l].status /\ op'[l].attempts = op[l].attempts
  PROVE  UNCHANGED Attempts!vars
BY DEF Attempts!vars

\* Workers and requests keep to Retry, however their transactions overlap, raise and
\* crash: no attempt is lost and none is made where the last one does not allow it.
THEOREM WorkersKeepToRetry == Spec => KeepsToRetry
<1>1. Init => Attempts!Init
  BY DEF Init, Attempts!Init, NoOperation
<1>2. IInv /\ [Next]_vars => [Attempts!Next]_(Attempts!vars)
  <2> SUFFICES ASSUME IInv, [Next]_vars PROVE [Attempts!Next]_(Attempts!vars)
    OBVIOUS
  <2>0. op = [l \in Lines |-> op[l]]
    BY DEF IInv, Types
  <2>1. ASSUME op' = op, retried' = retried PROVE UNCHANGED Attempts!vars
    BY <2>0, <2>1, OthersStutter
  <2>2. CASE \E w \in Workers, S \in SUBSET (Reservations \ Locked) : Claim(w, S)
    BY <2>1, <2>2 DEF Claim
  <2>3. CASE \E w \in Workers : Call(w) \/ Rollback(w)
    BY <2>1, <2>3 DEF Call, Rollback
  <2>4. CASE \E w \in Workers : Commit(w)
    BY <2>4, CommitAttempts
  <2>5. CASE Tick
    <3>1. \A l \in Lines : op'[l].status = op[l].status /\ op'[l].attempts = op[l].attempts
      BY <2>5, TickKeepsAttempts DEF IInv
    <3>2. retried' = retried
      BY <2>5 DEF Tick
    <3> QED
      BY <2>0, <3>1, <3>2, OthersStutter
  <2>6. CASE UNCHANGED work
    BY <2>1, <2>6 DEF work
  <2> QED
    BY StepCases, <2>2, <2>3, <2>4, <2>5, <2>6
<1> QED
  BY Invariance, <1>1, <1>2, PTL DEF Spec, KeepsToRetry, Attempts!Spec

-----------------------------------------------------------------------------
(* Types *)

\* There are 2^n subsets of n elements.
LEMMA PowerIsNatural == ASSUME NEW n \in Nat PROVE 2^n \in Nat
<1>1. IsFiniteSet(1 .. n) /\ Cardinality(1 .. n) = n
  BY FS_Interval
<1>2. IsFiniteSet(SUBSET (1 .. n)) /\ Cardinality(SUBSET (1 .. n)) = 2^n
  BY <1>1, FS_SUBSET, Zenon
<1> QED
  BY <1>2, FS_CardinalityType

LEMMA BackoffIsNatural == ASSUME NEW n \in Nat PROVE Backoff(n) \in Nat
<1> DEFINE k == IF n > 2 THEN n - 2 ELSE 0
<1>1. k \in Nat
  OBVIOUS
<1> HIDE DEF k
<1>2. 2^k \in Nat
  BY <1>1, PowerIsNatural
<1>3. Backoff(n) = BaseDelay * 2^k
  BY DEF Backoff, k
<1> DEFINE power == 2^k
<1> HIDE DEF power
<1>4. power \in Nat /\ Backoff(n) = BaseDelay * power /\ BaseDelay \in Nat
  BY <1>2, <1>3, BatchesAssumption DEF power, BatchesAssumption
<1> QED
  BY <1>4

WaitsAreNatural == \A l \in Lines : op[l].wait \in Nat /\ draft[l].wait \in Nat

\* What the loop of a worker is at.
LoopTypes ==
  /\ mode \in [Workers -> {"working", "waiting", "stopped"}]
  /\ \A w \in Workers : batch[w] # {} => mode[w] = "working"
  /\ asked \subseteq Stoppable
  /\ raised \in 0 .. MaxRaises
  /\ crashes \in 0 .. MaxCrashes

LEMMA WaitsStep ==
  ASSUME IInv, WaitsAreNatural, [Next]_vars
  PROVE  WaitsAreNatural'
<1>0. /\ op = [l \in Lines |-> op[l]] /\ draft = [l \in Lines |-> draft[l]]
      /\ \A l \in Lines : op[l].wait \in Nat /\ draft[l].wait \in Nat
      /\ \A w \in Workers : todo[w] \subseteq Lines
      /\ \A l \in Lines : op[l].attempts \in Nat
  BY DEF IInv, Types, IsOperation, WaitsAreNatural
<1>1. CASE UNCHANGED <<op, draft>>
  BY <1>0, <1>1 DEF WaitsAreNatural
<1>2. ASSUME NEW w \in Workers, Call(w) PROVE WaitsAreNatural'
  <2>1. PICK l \in todo[w], outcome \in {"succeeded", "unknown", "failed"} :
          draft' = [draft EXCEPT ![l] = Called(op[l], outcome, w \in Reconcilers)]
    BY <1>2 DEF Call
  <2>2. Counted(op[l]) \in Nat
    BY <1>0, <2>1 DEF Counted
  <2>3. Called(op[l], outcome, w \in Reconcilers).wait \in Nat
    BY <2>2, BackoffIsNatural DEF Called
  <2>4. op' = op
    BY <1>2 DEF Call
  <2>5. \A k \in Lines : draft'[k].wait \in Nat
    <3> DEFINE o == Called(op[l], outcome, w \in Reconcilers)
    <3>1. draft' = [draft EXCEPT ![l] = o] /\ o.wait \in Nat
      BY <2>1, <2>3
    <3> HIDE DEF o
    <3> QED
      BY <1>0, <3>1
  <2> QED
    BY <1>0, <2>4, <2>5 DEF WaitsAreNatural
<1>3. ASSUME NEW w \in Workers, Rollback(w) PROVE WaitsAreNatural'
  BY <1>0, <1>3 DEF Rollback, WaitsAreNatural
<1>4. ASSUME NEW w \in Workers, Commit(w) PROVE WaitsAreNatural'
  BY <1>0, <1>4 DEF Commit, WaitsAreNatural
<1>5. CASE Tick
  <2>1. /\ op' = [l \in Lines |-> [op[l] EXCEPT !.wait = IF @ > 0 THEN @ - 1 ELSE 0]]
        /\ draft' = op'
    BY <1>5 DEF Tick
  <2>2. ASSUME NEW l \in Lines PROVE op'[l].wait \in Nat
    <3>1. PICK s, a, t : op[l] = [status |-> s, attempts |-> a, wait |-> t]
      BY DEF IInv, Types, IsOperation
    <3>2. t \in Nat /\ op'[l] = [op[l] EXCEPT !.wait = IF @ > 0 THEN @ - 1 ELSE 0]
      BY <1>0, <2>1, <3>1
    <3>3. op'[l].wait = IF t > 0 THEN t - 1 ELSE 0
      BY <3>1, <3>2
    <3> QED
      BY <3>2, <3>3
  <2> QED
    BY <2>1, <2>2 DEF WaitsAreNatural
<1> QED
  BY <1>1, <1>2, <1>3, <1>4, <1>5, StepCases DEF work, Claim

LEMMA LoopStep ==
  ASSUME IInv, LoopTypes, [Next]_vars
  PROVE  LoopTypes'
<1> DEFINE Modes == {"working", "waiting", "stopped"}
<1>0. /\ mode \in [Workers -> Modes]
      /\ \A w \in Workers : batch[w] # {} => mode[w] = "working"
      /\ batch = [w \in Workers |-> batch[w]]
      /\ asked \subseteq Stoppable /\ raised \in 0 .. MaxRaises /\ crashes \in 0 .. MaxCrashes
      /\ MaxRaises \in Nat /\ MaxCrashes \in Nat
      /\ \A w \in Stoppable : w \in Workers
  BY BatchesAssumption DEF BatchesAssumption, LoopTypes, IInv, Types, Pollers, Workers
<1> HIDE DEF Modes
\* The loop goes on with the next mode when a batch is over, and not before.
<1>1. ASSUME NEW w \in Workers, NEW m \in Modes, mode' = [mode EXCEPT ![w] = m],
             (batch' = batch /\ batch[w] = {}) \/ batch' = [batch EXCEPT ![w] = {}],
             asked' = asked, raised' \in 0 .. MaxRaises, crashes' \in 0 .. MaxCrashes
      PROVE  LoopTypes'
  <2>1. mode' \in [Workers -> Modes]
    BY <1>0, <1>1
  <2>2. \A v \in Workers : batch'[v] # {} => mode'[v] = "working"
    BY <1>0, <1>1
  <2> QED
    BY <1>0, <1>1, <2>1, <2>2 DEF LoopTypes, Modes
<1>2. "working" \in Modes /\ "waiting" \in Modes /\ "stopped" \in Modes
  BY DEF Modes
<1>3. ASSUME NEW w \in Workers, NEW how \in Modes, Continues(w, how), Rollback(w) \/ Commit(w),
             raised' \in 0 .. MaxRaises, crashes' \in 0 .. MaxCrashes
      PROVE  LoopTypes'
  <2>1. batch' = [batch EXCEPT ![w] = {}] /\ asked' = asked
    BY <1>3 DEF Rollback, Commit
  <2>2. \E m \in Modes : mode' = [mode EXCEPT ![w] = m]
    BY <1>2, <1>3 DEF Continues
  <2> QED
    BY <1>1, <1>3, <2>1, <2>2
<1>4. ASSUME NEW w \in Workers, Crash(w) PROVE LoopTypes'
  <2>1. crashes' \in 0 .. MaxCrashes /\ raised' = raised
    BY <1>0, <1>4 DEF Crash
  <2>2. (IF w \in asked THEN "stopped" ELSE "working") \in Modes
    BY <1>2
  <2> QED
    BY <1>0, <1>3, <1>4, <2>1, <2>2 DEF Crash
<1>5. ASSUME NEW w \in Workers, CallRaises(w) PROVE LoopTypes'
  <2>1. raised' \in 0 .. MaxRaises /\ crashes' = crashes
    BY <1>0, <1>5 DEF CallRaises
  <2> QED
    BY <1>0, <1>2, <1>3, <1>5, <2>1 DEF CallRaises
<1>6. ASSUME NEW w \in Workers, Commit(w) PROVE LoopTypes'
  <2>1. raised' = raised /\ crashes' = crashes
    BY <1>6 DEF Commit, bounds
  <2>2. (IF Cardinality(batch[w]) = BatchSize THEN "working" ELSE "waiting") \in Modes
    BY <1>2
  <2> QED
    BY <1>0, <1>3, <1>6, <2>1, <2>2 DEF Commit
<1>7. ASSUME NEW w \in Workers, NEW S, Claim(w, S) PROVE LoopTypes'
  <2>1. /\ mode[w] = "working" /\ UNCHANGED <<mode, asked, raised, crashes>>
        /\ batch' = [batch EXCEPT ![w] = S]
    BY <1>7 DEF Claim, Ready, loop, bounds
  <2>2. \A v \in Workers : batch'[v] # {} => mode'[v] = "working"
    BY <1>0, <2>1
  <2> QED
    BY <1>0, <2>1, <2>2 DEF LoopTypes, Modes
<1>8. CASE UNCHANGED <<batch, loop, bounds>>
  BY <1>0, <1>8 DEF LoopTypes, Modes, loop, bounds
<1>9. ASSUME NEW w \in Workers, Works(w) PROVE LoopTypes'
  <2>1. CASE ExpireBatch(w) \/ ReconcileBatch(w) \/ Request(w)
    BY <1>7, <2>1 DEF ExpireBatch, ReconcileBatch, Request
  <2>2. CASE FindsNothing(w) \/ Stops(w)
    BY <1>0, <1>1, <1>2, <2>2 DEF FindsNothing, Ready, Stops, bounds
  <2>3. CASE Wakes(w)
    <3>1. batch[w] = {} /\ UNCHANGED <<batch, asked, raised, crashes>>
      BY <1>0, <2>3 DEF Wakes, bounds
    <3> QED
      BY <1>0, <1>1, <1>2, <2>3, <3>1 DEF Wakes
  <2>4. CASE Call(w)
    BY <1>8, <2>4 DEF Call
  <2> QED
    BY <1>5, <1>6, <1>9, <2>1, <2>2, <2>3, <2>4 DEF Works
<1>10. ASSUME NEW w \in Stoppable, AskToStop(w) PROVE LoopTypes'
  BY <1>0, <1>10 DEF AskToStop, LoopTypes, bounds, Modes
<1>11. CASE Tick
  BY <1>8, <1>11 DEF Tick
<1>12. CASE UNCHANGED vars
  BY <1>8, <1>12 DEF vars
<1> QED
  BY <1>4, <1>9, <1>10, <1>11, <1>12 DEF Next

\* Every variable keeps to its values: the ticks to the next attempt are natural numbers,
\* the lines that a worker has still to call are of its batch, and one that has a batch
\* neither waits nor has stopped.
THEOREM TypesHold == Spec => []TypeOK
<1> DEFINE Inv == IInv /\ WaitsAreNatural /\ LoopTypes
<1>1. Init => Inv
  BY InitIInv, BatchesAssumption
     DEF BatchesAssumption, Init, WaitsAreNatural, NoOperation, LoopTypes
<1>2. Inv /\ [Next]_vars => Inv'
  BY InvStep, WaitsStep, LoopStep
<1>3. Inv => TypeOK
  <2> SUFFICES ASSUME Inv PROVE TypeOK
    OBVIOUS
  <2>1. ASSUME NEW o, IsOperation(o), o.wait \in Nat PROVE o \in Operations
    BY <2>1 DEF IsOperation, Statuses, Operations
  <2>2. \A l \in Lines : op[l] \in Operations /\ draft[l] \in Operations
    BY <2>1 DEF IInv, Types, WaitsAreNatural
  <2>3. op \in [Lines -> Operations] /\ draft \in [Lines -> Operations]
    BY <2>2 DEF IInv, Types
  <2>4. \A w \in Workers : todo[w] \subseteq LinesIn(batch[w])
    BY DEF IInv, CalledOnce
  <2> QED
    BY <2>3, <2>4 DEF TypeOK, IInv, Types, LoopTypes
<1> QED
  BY <1>1, <1>2, <1>3, PTL DEF Spec
=============================================================================
