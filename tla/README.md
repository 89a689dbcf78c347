# Verification of the inventory reservation service

TLA+ models of `src/inventory_reservation/`, their TLC configurations, and
proofs for TLAPS.  Paths below are relative to `src/inventory_reservation/`
unless they start with a document's name.

## The system

A checkout creates a *reservation* of items, each of one product with one
selected provider, and later confirms it (payment succeeded) or cancels it.  An
overdue reservation is expired.  Everything durable is in PostgreSQL; stock of
*internal* providers is a row of `product_offers`, stock of *external*
providers is theirs and is reached over HTTP.

| Component | State | Operations | Talks to |
|---|---|---|---|
| Reservation service and repository (`service/reservation.py`, `repository/reservation.py`) | `reservations`, `reservation_items`, `inventory_allocations`, `provider_operations`, `orders` | create, confirm, cancel, `expire_batch`, `reconcile_batch` | stock rows in the same transaction; providers from inside it |
| Internal stock (`repository/inventory.py`, `repository/inventory_management.py`) | `on_hand`, `reserved`, priority, routing group | `try_hold`, `confirm_hold`, `release_hold`, `set_level`, `remove_level` | |
| Provider router (`service/provider.py`, `try_hold_selected`) | none | `hold`: candidates in order, availability first | adapters, internal stock |
| External provider adapter (`repository/provider.py`) | none; the provider keeps holds by idempotency key | availability, hold, confirm, release | HTTP |
| Circuit breaker (`service/provider.py`) | failures, opening time, probe flag, per operation, adapter and process | `_execute` | the adapter |
| Provider registry (`repository/provider.py`) | the adapter of each provider, with its settings, per process | `get_external` | asked by every transaction that calls a provider |
| Workers (`service/reservation.py`, `controller/*_worker.py`) | the stop event | poll, run a batch, back off, stop | the repository |
| API (`controller/`) | none | the endpoints | the services |
| Provider management, product catalogue | configuration rows | register, update, enable, disable, credentials | `create` reads the rows to find its candidates |
| Telemetry, migrations, provider mock | | | |

What is hard in it:

* A transaction calls providers before it commits.  A call may time out before
  or after its effect, and a rollback does not undo it.
* A reservation has several lines, internal and external, whose outcomes mix.
* Requests, two kinds of worker and operators meet on the same rows in any order.
* Unknown outcomes are retried by the worker only, with a limit and a backoff,
  while the unit of selection is a reservation and the unit of commit a batch.
* The circuit breaker's state is read before an `await` and written after it, and
  the circuit itself may be replaced in between.
* Stock rows are locked one after the other, in an order that callers and queries
  choose, and keep their locks through remote calls.

`PROJECT.json` lists every hazard at its line, with the properties aimed at it.
What makes the components correct, in short: stock is never oversold and every
reserved unit belongs to a live hold; a final outcome is complete and final; the
database never claims of a provider what the provider did not do; an unknown
outcome is neither guessed nor blindly repeated; everything begun is finished.

## The modules

### ReservationLifecycle

One action is one database transaction.  That is what the code's locks give: a
transaction keeps its reservation row (`with_for_update`) and every stock row
it has updated until it commits, and a stock row is tested and changed by one
conditional `UPDATE`.

| TLA+ | Code |
|---|---|
| `status`, `target` | `reservations.status`, `release_target_status`; `"lost"` stands for a create that was rolled back |
| `alloc`, `holder` | `inventory_allocations.status`, `provider_id`, per line |
| `confirmOp`, `releaseOp` | the `provider_operations` row of a line's confirmation or release |
| `on_hand`, `reserved`, `orders` | the columns of internal offers; the reservations with an order |
| `remote` | the hold as the external provider knows it (external) |
| `known` | the reservation ids that answers have disclosed |
| `by` | history variable: who ran the last transaction that confirms or releases (`Actors`), so that properties can say who repeats a call, late or not |
| `CreateHeld`, `CreateRefused`, `CreateLost`, `CreateAgain` | `create` and `add_with_hold`: success, compensation, rollback after remote effects, repeated key |
| `Confirm`, `ConfirmAgain`, `Cancel` | the requests, with their refusals as guards |
| `Expire`, `ReconcileRelease`, `ReconcileConfirm` | the workers, one reservation at a time |
| `ConfirmAborts`, `ReleaseAborts` | a rollback or crash after the provider acted |
| `SetLevel` | `set_level` on an existing offer |

`ConfirmEffects` and `ReleaseEffects` say what a call can answer and do: a
timeout before or after the effect, a rejection, an unavailability without an
effect.  An external provider honours idempotency keys (ARCHITECTURE.md:259): a
repeated confirmation of a confirmed hold confirms.  A confirmed hold cannot be
released.

A refusal is decided at the commit, while in the code the stock that refused may
have been seen a little earlier; `Checkout` has that detail.

Left out: time (an overdue reservation is a pending one that may expire at any
moment; that a deadline is in the future restricts behaviours only), users,
failure texts, audit columns, changes of a route while the system runs,
capabilities switched off (they raise, as `ConfirmAborts` does), the removal of
offers.

`LateCalls` separates two questions.  With `TRUE`, callers confirm and cancel
whenever the code lets them.  With `FALSE`, they leave alone what is already
decided otherwise: confirm only pending or confirming reservations, cancel only
pending ones or those being cancelled.  It restricts callers, not the code.

### WorkerBatches and Retry

The two workers at the grain of a batch: `ExpireBatch` and `ReconcileBatch`
claim rows (`SKIP LOCKED`), `Call` calls the provider of one line, `Commit`,
`CallRaises` and `Crash` end the transaction.  `Request` is a cancel call with a
transaction of its own.  `op` is what is committed, `draft` what open
transactions have written; `wait` counts the ticks to `next_attempt_at`.

Around the batches is the loop of `run`: `mode` tells a worker at the head of
the loop or in a batch from one that waits for the poll interval, `asked` is the
set of workers whose `stop_event` is set.  `FindsNothing` is the batch of no
reservations, `Continues` where the loop goes after a batch, `Wakes` the end of
a wait, `AskToStop` the signal handler, `Stops` the exit.

A reservation here has external lines only, and releases stand for confirmations,
which keep their operation rows in the same way.  The clock does not move during
a batch; the order of `updated_at` is left open, the order of `expires_at` kept.

`Retry` is what all of them together promise of the committed operations: some
are attempted at a time, all at once, where the last attempt leaves it open: what is
unknown by a retry only.  `KeepsToRetry` is the refinement (`outcome` and `tries`
are fields of `op`).  The history variable `retried`, in both modules, says whether the
last attempts on record were made by a batch of the reconciliation worker; without
it a request that repeats an unknown call would look like a retry.

### Checkout and CreateOnce

The create transaction of `ReservationLifecycle` taken apart, because that is
where two transactions meet before either has committed.  `Lookup`, `Insert`
and `LookupAgain` are the two lookups of `ReservationService.create` and the
flush between them; `KeyFree` and `KeyTaken` the unique constraint on user and
idempotency key.  `CheckAvailability`, `Observe`, `HoldInternal`, `HoldExternal`,
`HoldUnknown` are the loop of `ProviderRouter.hold`; `GiveUp`, `ReleaseInternal`,
`ReleaseExternal` and `EndUndo` the compensation in `add_with_hold`; `Commit`,
`Fail` and `Abort` the ends of a transaction.  `reserved` is what transactions
have written, `committed` what the others see, `lock` who has written a row.
PostgreSQL is modelled by what the statements rely on: an `UPDATE` finds its row
by the committed value, waits for the row's writer and tests again; an `INSERT`
waits for another with its key; of a circle of waiting transactions one is
aborted (`InCircle`).

`CreateOnce` is what create promises of a key, and `Checkout` implements it
(`KeepsPromise`): the first committed call decides, and every answer is that
decision.

Left out: the value that `observe_availability` writes (`StockRows` has it),
confirm and cancel of the reservation just made, routes that change, holds that
no call asked for.  A server error of a provider is taken for a refusal, as the
code does.  `CheckAvailability` takes its answer as exact, while the adapter may
answer from a cache of up to 60 seconds; the hold that follows decides either way.
Lines are released in the order of the items; the query leaves the
order open, and the rows are already locked.

### StockRows and StockLedger

The rows of `product_offers` at the grain of SQL statements, under every
transaction that writes them, where `ReservationLifecycle` takes the
transactions as one step and `Checkout` has creates only.

| TLA+ | Code |
|---|---|
| `row`, `draft`, `lock` | a row as committed, as the transaction that has it locked has written it, and that transaction |
| `Begin`, `HoldLine`, `ObserveLine`, `CommitCreate` | `add_with_hold`, `try_hold`, `observe_availability` |
| `Claim`, `SettleLine`, `CommitSettled` | `_confirm_reservation`, `_release_reservation` and `expire_batch`, with `confirm_hold` and `release_hold` |
| `Upsert`, `Delete`, `Read`, `CommitOperator` | `set_level` and `remove_level`: the statement, the `SELECT` after one that returned no row, the end |
| `Fits`/`Hold`, `Confirmable`/`Confirm`, `Releasable`/`Release` | the `WHERE` and the `SET` of the three updates |
| `Fail`, `Break`, `Abort` | a rollback: a row not found, a crash or an exception, a deadlock that the database breaks |

PostgreSQL is again modelled by what the statements rely on: a row that the
committed version rules out is passed over without a wait (`Seen`), the `WHERE`
is tested anew when a wait is over, and the upsert locks the row it conflicts
with even where its own `WHERE` fails.  On the last of these rests that the
`SELECT` of `set_level` finds its row (`UpsertUnlocked` is the variant without).

`StockLedger` is the promise: a transaction happens at once or not at all, a
reservation takes what is free, and what is reserved is counted over the
reservations that are held instead of stored.  `KeepsLedger` is the refinement.
It is where the sum of the holds and the column `reserved` are shown to agree.

Left out: routing (a line has one offer), external calls (a line of an external
offer observes and then holds or refuses), what a second settlement of the same
reservation does (the lifecycle has it), priorities and routing groups.
`ObserveLine` writes whenever the row exists: a stale or unavailable answer, which
writes nothing and locks nothing, has no case of its own.

### ProviderConfiguration

Each operation of `ProviderManagementService` is a read (`ReadFor...`), with the
checks made on it, and a write in a transaction of its own (`Update`,
`SetEnabled`, `UpsertCredentials`); `Register` is one transaction.  A request
that ends at its read changes nothing and has no step.  The whole-row `UPDATE`
of the mutable columns without `is_enabled` is what both properties rest on.
Left out of the validation are the checks on the fields of `public_config`
(service/provider_management.py:287-310: sensitive values, user name, header name),
which concern no column of the model.

### CircuitBreaker

One `_CircuitState` with concurrent coroutines.  `_execute` runs without a
pause before and after its only `await`, so `Start` or `Probe` and `Completes`
are its steps.  `age` is the time since the opening, up to the recovery timeout.
A rejected call changes nothing and has no action.  `TimeoutCounts` tells the
hold, confirm and release circuits (`TRUE`) from availability (`FALSE`), whose
timeouts count as successes.  `streak` is a history variable.

### ProviderRegistry

`get_external` for one external provider.  A transaction reads the settings
(`Begin`), gets an adapter for a line (`Get`) and calls through it (`Start` or
`Probe`, `Complete`, `Denied`); an operator changes the settings in between
(`Change`).  `adapter` is the object each transaction refers to, `registered` the
one in `_providers`, `circuit` the circuit of each.  Objects that nothing refers
to are reused, so that one more than there are transactions is enough.  Each
adapter's circuit is `CircuitBreaker`, by the refinement `Circuit(a)`, from the
step that registers it; `EachHasItsCircuit` says so of all adapters at once.  The
four operations of an adapter have circuits that share nothing, so that one is
followed.

### MC modules and faulty variants

`MCReservationLifecycle`, `MCCheckout`, `MCWorkerBatches`, `MCStockRows`,
`MCCircuitBreaker`, `MCProviderRegistry` and `MCProviderConfiguration` give the constants their values.  Definitions commented *Faulty variant of X* are what X
would be with a plausible bug (a dropped guard, an `all` for an `any`, a missing
reset).  No specification uses them.  `PROJECT.json` pairs each with the run and
the property that it breaks.

## The runs

### Runs that pass

| Run | Question | Bounds |
|---|---|---|
| `MCReservationAnyCaller` | what holds whatever callers do, also when the outcomes of two external lines mix: who repeats an unknown call, who alone consumes stock not held or turns a release elsewhere | 2 reservations, 3 lines of one and 1 of the other, an internal and an external provider, operator updates to one level, 2 attempts |
| `MCReservationContract` | the documented contract with `LateCalls = FALSE`; a pending reservation comes to an outcome that stays and reconciliation rests, under fairness | 3 reservations, claims of 1, 2 and 1 on 3 units, a fallback, 2 attempts |
| `MCCheckout` | one decision per key, one provider per line, stock accounted for, every call ends | 4 calls, 3 of them under one key (a repetition with its items in another order, and a different request), 2 products, an internal and two external providers with one unit each, fairness |
| `MCProviderConfiguration` | overlapping operators neither make a provider that holds and cannot settle nor switch one on or off by an update | 2 providers, 2 calls at a time, 5 registrations, 6 patches, 3 credentials, some of each invalid; symmetric in providers and calls |
| `MCCircuitBreaker` | probe and counter under interleaving; a probe ends | 4 callers, threshold 3, recovery 3 ticks, fairness |
| `MCProviderRegistry` | each adapter has its own circuit; calls come to share the registered one | 2 transactions of 2 calls each, again and again, 3 adapters, one change between 2 settings, threshold 2, fairness |
| `MCWorkerBatches` | a batch shows whole or not at all, `Retry` is implemented, work is drained, a worker stops when asked | an expirer, 2 reconcilers (one is asked to stop), a request, 2 reservations, 3 lines, batches of 2, 2 attempts, a crash, a call that raises, fairness |
| `MCStockRows` | `StockLedger` is implemented, operators are told the truth, all is settled | 2 reservations with lines in opposite orders, 2 settlers, 2 operators that set and remove, 2 internal offers and an observed one, a transaction that breaks off, fairness |

Why the bounds are enough for the cases that matter: claims of four units on
three, so that one is refused or falls back; in `MCCheckout` two calls lock a book and a
lamp in opposite orders, so that circles of waiting transactions come about
(without `Abort`, `EveryCallEnds` fails); two attempts let an operation be
unknown, be retried and be exhausted; with a batch of two, a batch is full, short or empty;
two external lines show every pair of
outcomes, and a third would add no new branch of `any`; two reconciliation
workers and a request meet on one row; the circuit threshold below the number of
callers lets calls outlive the opening.  Attempts past the limit, failures past
the threshold and ages past the recovery are not told apart by the code, and
saturate.  `MCCircuitBreaker` takes the availability circuit
(`TimeoutCounts = FALSE`): in the others a timeout does what `Fails` does.

`PendingResolves` says that a pending reservation comes to be confirmed, cancelled,
expired or failed for good, or stays confirming or releasing for one reason:
every open line was refused for the moment or has used up its attempts
(`GivenUp`).  That this second end exists is what `MCReservationReleaseStranded` shows.

`CHECK_DEADLOCK FALSE` stands where the system may come to rest: all
reservations decided and no call made, or in `MCStockRows` all requests answered.

### Runs that show a disagreement

Each checks one statement of a document or of the code's own texts against what
the code does (`findings` in `PROJECT.json` quotes them):

| Run | What happens |
|---|---|
| `MCReservationLateConfirm` | an expired reservation is confirmed, with stock it gave back |
| `MCReservationReleaseStranded` | an unavailable provider leaves a release that nothing finishes |
| `MCCircuitOutage` | refused connections never open a circuit |
| `MCWorkerPoisonedBatch` | one unreachable provider keeps others' reservations from expiring |

More of the kind, without a run of their own.  The guard that lets the late
confirmation through (`confirm` refuses only cancelled reservations) also lets a
refused one be confirmed, with an order for lines that were never allocated:
`EveryOrderIsFilled` fails when `LateCalls = TRUE`, although "a reservation is
successful only when every requested item is allocated" (CONTEXT.md:62).  When another line is rejected, a
reservation with an unknown confirmation is failed, can be cancelled and the
hold released, although cancel's 409 is for "an unknown provider outcome
requiring reconciliation" (controller/reservation.py:294-297).  Requests count
their attempts in the worker's counter: an operation can be past the limit when
its outcome first becomes unknown, and is then never retried.  A patch may
withdraw a provider's confirm or release capability while it has holds; the
calls that settle them then raise.  Of two overlapping patches one is lost, and
the answer to a patch may show an `is_enabled` that an overlapping disable has
changed.  With `LateCalls = TRUE`,
`RefusedStaysRefused` fails (a refused reservation is confirmed or cancelled and
its create call is then answered with success), and so do `ReservedIsHeld` (a late
confirmation takes what others hold) and `PendingResolves` (stock so taken leaves the
release of another reservation short, at every attempt).  A cancel replaces the target
of an expiry under way, and a confirm takes a release over: `ReleaseReachesTarget`
names the two, and that nothing else does it.  Likewise `TakenWasHeld` leaves
stock that was not held to a confirm of a reservation already failed, releasing or
expired, which is the one way to it.  In `WorkerBatches` an unknown
line is called before its own `next_attempt_at` when another line of its
reservation is due, and a call that raises is rolled back with its attempt
count.  In `CircuitBreaker` the success of a call begun before the opening
closes the circuit within its recovery window.  External holds are not counted in
`reserved`, so `remove_level` removes an offer that has them, although "Inventory
with active reservations cannot be unassigned" (service/inventory_management.py:63);
the holds are still settled, through the allocation.  A removal that is refused
reads `reserved` in a second statement and may report 0.  A transaction that still
has a provider's old settings registers an adapter of its own over the new one, and
the next that has the new settings another: while they take turns each begins with
a closed circuit, and adapters of one provider may probe at the same time.

### Fairness

`ReservationLifecycle`: weak fairness of `Expire`, `ReconcileRelease` and
`ReconcileConfirm` per reservation.  The workers poll until they are stopped
(`ReservationExpirationWorker.run`), a failed batch is tried again, and a
deployment restarts them.  This supposes that a batch commits in the end, which
`MCWorkerPoisonedBatch` shows to fail when a provider's calls raise for ever;
callers need not call again.  `WorkerBatches`: weak fairness of each worker and
of the clock; a request need not come, but one that has a lock goes on.  A worker
that crashes after it has been asked to stop is not started again.
`Checkout`: a call that can take a step takes one; its waits for providers end by
their timeouts, those for the database by commits, rollbacks and deadlock
detection.  `StockRows`: strong fairness of each transaction, because several wait for
one row and PostgreSQL gives it to the waiting in their order, so none is passed
over for ever; weak fairness of the deadlock detector.  That held reservations come
to be settled is the expiration worker's doing, whose polling `WorkerBatches` has.
`ProviderRegistry`: a transaction goes on to its end.  `CircuitBreaker`: a call ends, since every HTTP request has a timeout; nothing
is assumed about new calls or the outcome.

## The proofs

`ReservationLifecycleProofs` proves for any reservations, products, providers,
routes, quantities, stock and limits, from `ConfigurationAssumption` only:
`TypeCorrect`, `StockIsNeverOversold`, `OutcomesAreComplete`,
`AnswersStayTrue`, `FinalStaysFinal`, `UnknownIsNotRepeated`, `OnlyHeldIsTaken`,
`ReleasesReachTheirTarget`.

The argument is the invariant `IInv`.  `AnswersAreTrue` is not inductive: a
line may become confirmed because its operation row says `succeeded`, without a
call, so the row itself must be true of the provider (`OperationsAreTrue`); and
a step that creates a reservation must find its rows blank (`UnstoredIsBlank`).
`StockWithinBounds` is inductive given types, because every transaction tests
what it takes in the update itself.  It needs nothing about who holds what, so it
survives the late confirmations above: they steal stock, they do not oversell
it.  Lemmas state what the calls answer (`ConfirmAnswers`, `ReleaseAnswers`) and
what `ConfirmReservation` and `ReleaseReservation` do to one reservation; the
step lemmas go action by action.

`UnknownIsNotRepeated` needs of it the types and `UnstoredIsBlank`: an unknown call
belongs to a reservation that exists; it is open to a retry below the limit only (`UnknownConfirmIsLeft`,
`UnknownReleaseIsLeft`), and a transaction that is rolled back leaves alone at the
provider what it was blocked from (`AbortLeavesBlocked`).  `OnlyHeldIsTaken` and
`ReleasesReachTheirTarget` rest on `OpenFits`, the part of the books that late
callers cannot break: every line of a pending reservation is held, and a confirming
one has its internal lines consumed already, so that its reconciliation takes none.

The rest holds of callers that keep to the contract, `LateCalls = FALSE`.  That
restricts the callers, not the service; what fails without it is under
[disagreements](#runs-that-show-a-disagreement), with `MCReservationLateConfirm`.  `ReservedStaysHeld`, `StockStaysConserved`
and `RefusalsStand` follow from `ContractInv`: `IInv`, what the lines of a
reservation can be in each status (`Fits`), and for each offer that its columns are
the sums of what the lines there claim (`Balanced`).  `Fits` is what a late
confirmation breaks: it finds a released line to confirm.  With it a transaction moves
only lines of its own reservation, each out of the column that counts it, so the
books stay in balance (`BooksKept`).  `StockIsConserved` speaks of configurations in
which operators set no levels, and `Balanced` says so with it.

`SumTheorems` has what these proofs, and those of `Checkout` and `StockRows`, need of a
sum over a finite set: it exists, it is a natural number where the terms are,
an element added to the set adds its term (`SumStep`, `SumAdd`), and sets on which the
terms agree have one sum.  The library defines the sum by a fold and proves nothing of
it.  `SubsetInduction` inducts over the subsets of a finite set, with the subsets for
which a statement holds as a set, since no operator can be passed to a theorem here.

`CircuitBreakerProofs` proves `TypeCorrect`, `SingleProbe` and
`OpensAtThreshold` for any callers and threshold.  `SingleProbe` is inductive
with the types; `OpensAtThreshold` needs that the counter saturates at the
threshold and that only `CountSuccess` resets, both at once.

`ProviderConfigurationProofs` proves `HoldsCanBeSettled` and `UpdatesDoNotSwitch`
for any number of overlapping calls.  Valid rows alone are not inductive: what a
call writes was validated against a row that may have changed since.  The
invariant adds that every call under way carries a valid row of its provider's
kind and driver, which no call changes; so writing it whole keeps the row valid
(`UpdateFacts`, `EnabledIsFree`).  A write of the changed columns alone would not.
`TypesHold` adds the columns: an id is registered under a name that no other has, and
an update may take only a free one.

`WorkerBatchesProofs` proves `BatchesAreAtomic` and `WorkersKeepToRetry`, for any
workers, requests and lines.  `BatchIsAtomic` speaks of a step that shows anything of
a reservation in a batch: it ends the batch and settles every reservation of it.  What
shows is committed, while the commit writes what is drafted, so the invariant is about
both: no two
transactions have a reservation locked; what nobody has locked is drafted as it is
committed; and of a line in a batch, either the draft is the committed row, and a
call is still to be made if `Callable` allows it, or the call was allowed and the
draft is one attempt further.  At the commit no call is owed, so all of the batch is
settled (`CommitSettles`) and nothing outside it shows (`CommitShowsItsOwn`).  The step of `Retry` is then the commit:
its lines are those of the batch that were called.  `TypesHold` needs that the
backoff, a power of two, is a natural number; of powers the provers know
nothing, so `PowerIsNatural` takes it as the number of subsets of `1 .. n`.

`StockRowsProofs` proves `RowsStaySound` and `OperatorsAreToldTheTruth`, for any
offers, transactions, levels and observations.  `RowsAreSound` holds of drafts and
committed rows together, since each becomes the other.  For the answers the
invariant adds what each stage of an operator's transaction knows: the row it has
written or found wanting is locked by it and stands as it said, and before its
`SELECT` the row is locked, present, and either at the level asked for or reserved
above it.  That the lock is kept though nothing was written is the essential part.

`TransactionsKeepLedger`, that `StockRows` implements `StockLedger`, and the types
(`TypesHold`) rest on `StockInv`.  A transaction writes its rows one by one, while the
ledger changes at the commit; so the invariant says, for each line, whether the
transaction has written its row already (`Moved`): from its place in its lines, and
backwards while it gives its holds back.  Then
- what is moved is locked by the transaction that moved it, claims are exclusive, and
  what is claimed is held (`Books`);
- of each row, the committed version reserves what the held reservations take of it,
  and the draft what they take with the moved lines counted as they will be
  (`Account`);
- what the transaction with the lock may have changed of the level is what its kind
  changes: a creation nothing, a confirmation as much as it took from `reserved`, a
  release nothing, an operator the level alone (`LevelOf`).

`KeepsStock` puts this as a condition on a step of one transaction, shown
action by action; `OthersBooked` has the rest.  Every step before the commit is
then a stutter of the ledger.  At the commit nothing is left, so everything is moved
and the draft is the row of the ledger's next state: `CommitCreate` is `Create` (there
is room, `HoldFits`, because the holds were made on locked rows), `CommitSettled` is
`Confirm` or `Release` (`SettledRow`), `CommitOperator` is `SetLevel`, `RemoveLevel` or
a stutter.  TLC found `StockInv` to hold in the instance of `MCStockRows` first.

`ProviderRegistryProofs` proves `EachAdapterHasItsCircuit`, for any transactions,
adapters and settings.  The invariant is that who is about to call, or calls, has an
adapter; the object that `get_external` makes is referred to by no one, so its circuit
begins without calls.  Every step is then, for each adapter, its initial state, a
step of `CircuitBreaker` or none.

`CheckoutProofs` proves `CreatePromises` (that `Checkout` implements `CreateOnce`),
`OneProviderForALine`, `HoldsStayOnRecord` and `LosersAskNobody`, for any calls, keys,
items, routes and providers.  Three facts make the invariant `CInv` inductive.
The unique constraint (`KeysExclude`): of the calls under a key one at most has
inserted its reservation, and none where one is committed, so a commit finds the
key undecided.  What is still to be held is blank (`Ahead`): a provider is asked
only for a line nobody holds, and a call that gives up always has a blank line to
end its releases at.  And each external hold is the one its line names
(`Recorded`), until a rollback, whose caller gets an error, forgets the line.  Each
is about one call, so a step has to show it for its own call only (`Keeps`), and
`OthersKeep` has the rest.

`StockStaysAccounted` and the types (`TypesHold`: `reserved` never falls below zero)
need two more facts, which make `AInv`.  A row is written by one open transaction, the one
that has it locked, so the lines that hold it are that call's and those of calls
that are done (`Accounts`): what is reserved is the sum over all of them, what is
committed the sum over the latter, and a rollback, which restores the one to the other,
forgets exactly the lines of the call.  And a call that gives up has every line before
its place held or blank (`Standing`), so that what it returns was taken.

Assumed are the conditions on constants that the modules name
(`ConfigurationAssumption`, `BatchesAssumption`, `StockAssumption`,
`RegistryAssumption` and so on), which TLC evaluates in the runs.

With this every action property, every refinement and all but one of the invariants that
the passing runs check are theorems.  The one is `EveryOrderIsFilled`, which only TLC
shows: `confirm` does not look for lines without an allocation, so that it speaks of
callers that keep to the contract and a theorem would say no more of the code.  Else
only model-checked: liveness, for which the prover has no
rules of fairness and no `ENABLED`: `PendingResolves`, `ReconciliationComesToRest`,
`ProbeEnds`, `WorkIsDrained`, `StopsWhenAsked`, `AllIsSettled`, `SettlesOnStored` and
`EveryCallEnds`.  The runs that show a disagreement are counterexamples and stand for
themselves.

## Not modelled

Product catalogue (independent inserts), telemetry (output only), migrations,
the provider mock (a stand-in for what `remote` models), validation and mapping
of HTTP requests, the building of authentication headers beyond their failure.

Of what is modelled: routing groups and capabilities that change between the
candidates of a line; reconciliation of confirmations in batches (the lifecycle
reconciles them one by one); more than one provider in the registry, whose entries
share nothing.

## Plan

1. Routes that change under `Checkout`: offers removed or regrouped between the
   query for the candidates and the hold.
2. Confirmations next to releases in `WorkerBatches`, with two kinds of operation
   per line.
3. Proofs: the safety halves of the liveness properties (that what is begun and not
   finished always has a step to finish it, as an invariant on the state), and the
   models above as they grow.
