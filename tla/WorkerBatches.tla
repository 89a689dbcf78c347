---------------------------- MODULE WorkerBatches ----------------------------
(***************************************************************************)
(* The batches of the two background workers (expire_batch and             *)
(* reconcile_batch, run by ReservationExpirationWorker and                 *)
(* ReservationReconciliationWorker), over overdue reservations whose lines *)
(* are all held by external providers.                                     *)
(*                                                                         *)
(* A batch is one database transaction: it claims reservations with        *)
(* FOR UPDATE SKIP LOCKED, calls the providers line by line, and commits   *)
(* everything or nothing.  What a batch has written is visible to no other *)
(* transaction before the commit; its calls are not undone.                *)
(*                                                                         *)
(* Around its batches a worker runs the loop of run: it waits for the poll *)
(* interval after a batch that fails or is not full, and leaves the loop   *)
(* once it is asked to stop.                                               *)
(*                                                                         *)
(* Only releases are modelled: _confirm_external_hold keeps its operations *)
(* the same way.  The clock moves between batches and not within them.     *)
(***************************************************************************)
EXTENDS Integers, FiniteSetsExt

CONSTANTS
  Reservations,   \* numbered in the order of expires_at and id
  Lines,          \* the allocations of all of them
  LinesOf,        \* per reservation
  Expirers,       \* instances of the expiration worker
  Reconcilers,    \* instances of the reconciliation worker
  Requesters,     \* requests that cancel a reservation, each a transaction of its own
  Stoppable,      \* the workers that get a SIGTERM
  BatchSize,
  MaxAttempts,
  BaseDelay,      \* retry_base_delay, in ticks
  Failing,        \* lines whose provider may refuse the connection, or answer with
                  \*   a status that raise_for_status turns into an exception, at
                  \*   any call
  MaxRaises,      \* bound on such calls for the other lines
  MaxCrashes      \* bound on the crashes explored

Pollers == Expirers \cup Reconcilers
Workers == Pollers \cup Requesters

\* retry_started_at + retry_base_delay * 2^max(0, attempt_count - 2)
Backoff(attempts) == BaseDelay * 2^(IF attempts > 2 THEN attempts - 2 ELSE 0)

ASSUME BatchesAssumption ==
  /\ Reservations \subseteq Nat
  /\ LinesOf \in [Reservations -> SUBSET Lines]
  /\ \A r, q \in Reservations : r # q => LinesOf[r] \cap LinesOf[q] = {}
  /\ Reconcilers \cap (Expirers \cup Requesters) = {}
  /\ BatchSize \in Nat \ {0}
  /\ MaxAttempts \in Nat \ {0}
  /\ BaseDelay \in Nat \ {0}
  /\ Stoppable \subseteq Pollers
  /\ Failing \subseteq Lines
  /\ MaxRaises \in Nat
  /\ MaxCrashes \in Nat

VARIABLES
  stage,    \* committed reservations.status: overdue pending, releasing, released
  op,       \* committed release operation of each line, wait being the ticks to
            \*   next_attempt_at
  batch,    \* the reservations that the transaction of each worker keeps locked
  todo,     \* the lines it has still to call
  draft,    \* release operations as the open transactions have written them
  mode,     \* working: at the head of the loop of run or in a batch
  asked,    \* the workers whose stop_event is set
  retried,  \* history: whether the last batch committed was a reconciliation's
  raised,   \* counters of the bounds
  crashes

loop == <<mode, asked>>
bounds == <<raised, crashes>>
vars == <<stage, op, batch, todo, draft, loop, retried, bounds>>

NoOperation == [status |-> "none", attempts |-> 0, wait |-> 0]

Init ==
  /\ stage = [r \in Reservations |-> "pending"]
  /\ op = [l \in Lines |-> NoOperation]
  /\ batch = [w \in Workers |-> {}]
  /\ todo = [w \in Workers |-> {}]
  /\ draft = op
  /\ mode = [w \in Workers |-> "working"]
  /\ asked = {}
  /\ retried = FALSE
  /\ raised = 0
  /\ crashes = 0

LinesIn(S) == UNION {LinesOf[r] : r \in S}

\* Faulty variant of Callable: requests repeat a call whose outcome is unknown.
CallableByAll(o, retry) ==
  /\ o.status # "succeeded"
  /\ o.status = "unknown" => o.attempts < MaxAttempts

\* An operation that succeeded is not called again; one that is unknown only by
\* the reconciliation worker, below the limit.
Callable(o, retry) ==
  /\ o.status # "succeeded"
  /\ o.status = "unknown" => retry /\ o.attempts < MaxAttempts

-----------------------------------------------------------------------------
(* Selection *)

\* Faulty variant of Locked: the rows that others have claimed are not skipped.
NoneLocked == {}

Locked == UNION {batch[w] : w \in Workers}

\* The first of S, as many as a batch takes.
FirstOf(S) == {r \in S : Cardinality({q \in S : q < r}) < BatchSize}

\* while not stop_event.is_set().  A request comes once.
Ready(w) == mode[w] = "working" /\ batch[w] = {} /\ w \notin asked

Claim(w, S) ==
  /\ Ready(w)
  /\ S # {}
  /\ batch' = [batch EXCEPT ![w] = S]
  /\ todo' = [todo EXCEPT ![w] =
            {l \in LinesIn(S) : Callable(op[l], w \in Reconcilers)}]
  /\ UNCHANGED <<stage, op, retried, draft, loop, bounds>>

Overdue == {r \in Reservations : stage[r] = "pending"}

ExpireBatch(w) == Claim(w, FirstOf(Overdue \ Locked))

\* has_reconcilable_operation: unknown, below the limit, and due.
Reconcilable(o) == o.status = "unknown" /\ o.attempts < MaxAttempts

Due ==
  {r \in Reservations :
     stage[r] = "releasing" /\ \E l \in LinesOf[r] : Reconcilable(op[l]) /\ op[l].wait = 0}

\* The order of updated_at is left open: any full batch of the due reservations.
ReconcileBatch(w) ==
  LET free == Due \ Locked
      size == IF Cardinality(free) < BatchSize THEN Cardinality(free) ELSE BatchSize
  IN \E S \in kSubset(size, free) : Claim(w, S)

\* cancel waits for the lock of the reservation's row.
Request(w) ==
  \E r \in Reservations \ Locked : stage[r] # "released" /\ Claim(w, {r})

\* A batch of no reservations commits and changes nothing.
FindsNothing(w) ==
  /\ Ready(w)
  /\ (IF w \in Expirers THEN Overdue ELSE Due) \ Locked = {}
  /\ mode' = [mode EXCEPT ![w] = "waiting"]
  /\ UNCHANGED <<stage, op, retried, batch, todo, draft, asked, bounds>>

-----------------------------------------------------------------------------
(* The loop *)

\* Faulty variant of Wakes: the event is reset by the wait for it.
WakesAndForgets(w) ==
  /\ mode[w] = "waiting"
  /\ mode' = [mode EXCEPT ![w] = "working"]
  /\ asked' = asked \ {w}
  /\ UNCHANGED <<stage, op, retried, batch, todo, draft, bounds>>

\* The poll interval is over, or the event is set.
Wakes(w) ==
  /\ mode[w] = "waiting"
  /\ mode' = [mode EXCEPT ![w] = "working"]
  /\ UNCHANGED <<stage, op, retried, batch, todo, draft, asked, bounds>>

\* The signal handler sets stop_event, whatever the worker is at.
AskToStop(w) ==
  /\ asked' = asked \cup {w}
  /\ UNCHANGED <<stage, op, retried, batch, todo, draft, mode, bounds>>

Stops(w) ==
  /\ mode[w] = "working"
  /\ batch[w] = {}
  /\ w \in asked
  /\ mode' = [mode EXCEPT ![w] = "stopped"]
  /\ UNCHANGED <<stage, op, retried, batch, todo, draft, asked, bounds>>

-----------------------------------------------------------------------------
(* Calls and the end of a batch *)

\* Attempts past the limit are not told apart.
Counted(o) == IF o.attempts > MaxAttempts THEN o.attempts ELSE o.attempts + 1

\* Faulty variant of Called: a retry is not counted.
CalledUncounted(o, outcome, retry) ==
  [status   |-> outcome,
   attempts |-> 1,
   wait     |-> IF outcome = "unknown" /\ retry THEN Backoff(Counted(o)) ELSE 0]

\* The operation row after a call: only the reconciliation worker sets next_attempt_at.
Called(o, outcome, retry) ==
  [status   |-> outcome,
   attempts |-> Counted(o),
   wait     |-> IF outcome = "unknown" /\ retry THEN Backoff(Counted(o)) ELSE 0]

\* released, unknown or temporarily unavailable
Call(w) ==
  /\ \E l \in todo[w], outcome \in {"succeeded", "unknown", "failed"} :
       /\ draft' = [draft EXCEPT ![l] = Called(op[l], outcome, w \in Reconcilers)]
       /\ todo' = [todo EXCEPT ![w] = @ \ {l}]
  /\ UNCHANGED <<stage, op, retried, batch, loop, bounds>>

\* Faulty variant of Rollback: the loop goes on after the transaction is gone.
RollbackGoesOn(w) ==
  /\ batch' = [batch EXCEPT ![w] = {}]
  /\ draft' = [l \in Lines |-> IF l \in LinesIn(batch[w]) THEN op[l] ELSE draft[l]]
  /\ UNCHANGED <<stage, op, retried, todo, asked>>

Rollback(w) ==
  /\ batch' = [batch EXCEPT ![w] = {}]
  /\ todo' = [todo EXCEPT ![w] = {}]
  /\ draft' = [l \in Lines |-> IF l \in LinesIn(batch[w]) THEN op[l] ELSE draft[l]]
  /\ UNCHANGED <<stage, op, retried, asked>>

\* A request has been answered, a worker goes on as said.
Continues(w, how) ==
  mode' = [mode EXCEPT ![w] = IF w \in Requesters THEN "stopped" ELSE how]

\* The exception leaves the loop over the batch and the transaction.
CallRaises(w) ==
  /\ \E l \in todo[w] :
       /\ l \notin Failing => raised < MaxRaises
       /\ raised' = IF l \in Failing THEN raised ELSE raised + 1
  /\ Rollback(w)
  /\ Continues(w, "waiting")
  /\ UNCHANGED crashes

\* The process is started again, unless it was being stopped.
Crash(w) ==
  /\ batch[w] # {}
  /\ crashes < MaxCrashes
  /\ crashes' = crashes + 1
  /\ Rollback(w)
  /\ Continues(w, IF w \in asked THEN "stopped" ELSE "working")
  /\ UNCHANGED raised

StageOf(r) ==
  IF \A l \in LinesOf[r] : draft[l].status = "succeeded" THEN "released" ELSE "releasing"

\* Faulty variant of Commit: each reservation is committed for itself.
CommitEach(w) ==
  /\ \E r \in batch[w] :
       /\ todo[w] \cap LinesOf[r] = {}
       /\ op' = [l \in Lines |-> IF l \in LinesOf[r] THEN draft[l] ELSE op[l]]
       /\ stage' = [stage EXCEPT ![r] = StageOf(r)]
       /\ batch' = [batch EXCEPT ![w] = @ \ {r}]
  /\ retried' = (w \in Reconcilers)
  /\ Continues(w, IF batch'[w] = {} THEN "waiting" ELSE "working")
  /\ UNCHANGED <<todo, draft, asked, bounds>>

\* After a full batch the next one follows without a wait.
Commit(w) ==
  /\ batch[w] # {}
  /\ todo[w] = {}
  /\ op' = [l \in Lines |-> IF l \in LinesIn(batch[w]) THEN draft[l] ELSE op[l]]
  /\ stage' = [r \in Reservations |-> IF r \in batch[w] THEN StageOf(r) ELSE stage[r]]
  /\ batch' = [batch EXCEPT ![w] = {}]
  /\ retried' = (w \in Reconcilers)
  /\ Continues(w, IF Cardinality(batch[w]) = BatchSize THEN "working" ELSE "waiting")
  /\ UNCHANGED <<todo, draft, asked, bounds>>

\* Time passes to the next due operation or towards it.
Tick ==
  /\ Locked = {}
  /\ \E l \in Lines : op[l].wait > 0
  /\ op' = [l \in Lines |-> [op[l] EXCEPT !.wait = IF @ > 0 THEN @ - 1 ELSE 0]]
  /\ draft' = op'
  /\ UNCHANGED <<stage, retried, batch, todo, loop, bounds>>

Works(w) ==
  \/ w \in Expirers /\ ExpireBatch(w)
  \/ w \in Reconcilers /\ ReconcileBatch(w)
  \/ w \in Pollers /\ FindsNothing(w)
  \/ w \in Requesters /\ Request(w)
  \/ Call(w) \/ CallRaises(w) \/ Commit(w)
  \/ Wakes(w) \/ Stops(w)

Next ==
  \/ \E w \in Workers : Works(w) \/ Crash(w)
  \/ \E w \in Stoppable : AskToStop(w)
  \/ Tick

Spec == Init /\ [][Next]_vars

\* run polls until it is asked to stop, and a crashed process is started again.
\* A request need not come, but one that has locked its row goes on.
FairSpec ==
  /\ Spec
  /\ \A w \in Pollers : WF_vars(Works(w))
  /\ \A w \in Requesters : WF_vars(batch[w] # {} /\ Works(w))
  /\ WF_vars(Tick)

-----------------------------------------------------------------------------
Operations ==
  [status : {"none", "succeeded", "unknown", "failed"}, attempts : Nat, wait : Nat]

TypeOK ==
  /\ stage \in [Reservations -> {"pending", "releasing", "released"}]
  /\ op \in [Lines -> Operations]
  /\ draft \in [Lines -> Operations]
  /\ batch \in [Workers -> SUBSET Reservations]
  /\ \A w \in Workers : todo[w] \subseteq LinesIn(batch[w])
  /\ mode \in [Workers -> {"working", "waiting", "stopped"}]
  /\ \A w \in Workers : batch[w] # {} => mode[w] = "working"
  /\ asked \subseteq Stoppable
  /\ retried \in BOOLEAN
  /\ raised \in 0 .. MaxRaises
  /\ crashes \in 0 .. MaxCrashes

\* A step lets others see something of the reservation r.
Shows(r) == stage'[r] # stage[r] \/ \E l \in LinesOf[r] : op'[l] # op[l]

\* Each reservation of w's batch has had its calls: every operation that the batch
\* found callable has one attempt more, and the status says what all of them came to.
BatchIsSettled(w) ==
  \A r \in batch[w] :
    /\ \A l \in LinesOf[r] :
         op'[l].attempts = IF Callable(op[l], w \in Reconcilers) THEN Counted(op[l])
                           ELSE op[l].attempts
    /\ stage'[r] = IF \A l \in LinesOf[r] : op'[l].status = "succeeded" THEN "released"
                   ELSE "releasing"

\* A batch (expire_batch, reconcile_batch) shows as a whole or not at all, wherever a
\* worker crashes or a call raises: the step that shows something of one of its
\* reservations ends the batch and settles all of them.  Nothing shows of a
\* reservation that is in no batch but that time has passed.
BatchIsAtomic ==
  [][/\ \A w \in Workers :
          (\E r \in batch[w] : Shows(r)) => batch'[w] = {} /\ BatchIsSettled(w)
     /\ \A r \in Reservations \ Locked :
          /\ stage'[r] = stage[r]
          /\ \A l \in LinesOf[r] : /\ op'[l].status = op[l].status
                                  /\ op'[l].attempts = op[l].attempts]_vars

\* What is committed of the operations is what Retry allows, however batches and
\* requests overlap, raise and crash: what one has committed, another does not undo
\* or overwrite, no attempt is lost, and an unknown outcome is called again below
\* the limit and in a batch of the reconciliation worker only, never by a request or
\* the expiration worker.
Attempts == INSTANCE Retry WITH
  outcome <- [l \in Lines |-> op[l].status],
  tries   <- [l \in Lines |-> op[l].attempts]

KeepsToRetry == Attempts!Spec

\* In the end no reservation is overdue and no operation is left to reconcile:
\* the workers drain what there is, through crashes and backoff.
WorkIsDrained ==
  <>[](Overdue = {} /\ \A l \in Lines : ~Reconcilable(op[l]))

\* A worker that is asked to stop does so, after the batch that it is at: whether it
\* works or waits when it is asked, and whether its batches fail or are full.
StopsWhenAsked == \A w \in Stoppable : w \in asked ~> mode[w] = "stopped"

\* An overdue reservation whose providers answer is released, or on its way.
HealthyIsReleased ==
  \A r \in Reservations :
    LinesOf[r] \cap Failing = {} => <>(stage[r] # "pending")
=============================================================================
