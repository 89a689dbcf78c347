------------------------ MODULE ReservationLifecycle ------------------------
(***************************************************************************)
(* The life of reservations in the checkout: create with hold, confirm,    *)
(* cancel, expiry and reconciliation (SqlAlchemyReservationRepository,     *)
(* ReservationService and the two workers), over the internal stock rows   *)
(* (InventoryRepository) and the holds kept by external providers.         *)
(*                                                                         *)
(* One action is one database transaction.  A transaction keeps the rows   *)
(* of its reservation locked (with_for_update) and each stock row from its *)
(* update to the commit, so transactions that meet are serialised.  The    *)
(* effect of a call on an external provider is not rolled back with the    *)
(* transaction: CreateLost, ConfirmAborts and ReleaseAborts leave it.      *)
(*                                                                         *)
(* Time is left out: an unexpired reservation may expire at any moment and *)
(* an operation whose outcome is unknown may be due at any moment.         *)
(***************************************************************************)
EXTENDS Integers, Sequences, FiniteSetsExt

CONSTANTS
  Reservations,  \* reservation ids, one for each create call that finds no reservation under its key
  Products,
  Providers,
  NoProvider,    \* the holder of a line without an allocation
  External,      \* the providers reached over HTTP; the others are internal
  LinesOf,       \* per reservation: its products, each with a quantity and the
                 \*   providers the router tries for it, in allocation order
  Stock0,        \* initial on_hand of every internal offer
  Levels,        \* on_hand values an operator may set
  MaxAttempts,   \* attempt limit of the reconciliation worker
  LateCalls      \* whether callers also confirm or cancel reservations whose
                 \*   outcome is already decided otherwise

Internal == Providers \ External
Offers == Products \X Internal
Lines(r) == DOMAIN LinesOf[r]
Quantity(r, p) == LinesOf[r][p].quantity
Route(r, p) == LinesOf[r][p].route

ASSUME ConfigurationAssumption ==
  /\ External \subseteq Providers
  /\ NoProvider \notin Providers
  /\ DOMAIN LinesOf = Reservations
  /\ \A r \in Reservations :
       /\ Lines(r) \subseteq Products
       /\ Lines(r) # {}
       /\ \A p \in Lines(r) :
            /\ Quantity(r, p) \in Nat \ {0}
            /\ Route(r, p) \in Seq(Providers)
  /\ Stock0 \in [Offers -> Nat]
  /\ Levels \subseteq Nat
  /\ MaxAttempts \in Nat \ {0}
  /\ LateCalls \in BOOLEAN

VARIABLES
  status,     \* reservations.status; "absent" before the row exists, "lost"
              \*   when the create transaction of the id was rolled back
  target,     \* reservations.release_target_status
  alloc,      \* inventory_allocations.status per line, "none" without a row
  holder,     \* inventory_allocations.provider_id per line
  confirmOp,  \* the provider_operations row of each line's confirmation
  releaseOp,  \* and of its release
  on_hand,    \* product_offers.on_hand of the internal offers
  reserved,   \* product_offers.reserved
  orders,     \* the reservations that have an order
  remote,     \* the hold of each line as its external provider knows it
  known,      \* the reservation ids that callers have been told
  by          \* history: who ran the last transaction that confirms or releases

vars == <<status, target, alloc, holder, confirmOp, releaseOp,
          on_hand, reserved, orders, remote, known, by>>

Targets == {"cancelled", "expired", "failed"}
Stored == {"pending", "confirming", "confirmed", "releasing"} \cup Targets
Statuses == Stored \cup {"absent", "lost"}
AllocStatuses == {"none", "held", "confirmed", "released", "failed", "unknown"}
OpStatuses == {"none", "succeeded", "failed", "unknown"}
RemoteStates == {"none", "held", "confirmed", "gone"}
Operations == [status : OpStatuses, attempts : 0 .. MaxAttempts]
Actors == {"confirm", "cancel", "expiry", "reconciliation"}

NoOperation == [status |-> "none", attempts |-> 0]

Init ==
  /\ status = [r \in Reservations |-> "absent"]
  /\ target = [r \in Reservations |-> "none"]
  /\ alloc = [r \in Reservations |-> [p \in Products |-> "none"]]
  /\ holder = [r \in Reservations |-> [p \in Products |-> NoProvider]]
  /\ confirmOp = [r \in Reservations |-> [p \in Products |-> NoOperation]]
  /\ releaseOp = [r \in Reservations |-> [p \in Products |-> NoOperation]]
  /\ on_hand = Stock0
  /\ reserved = [o \in Offers |-> 0]
  /\ orders = {}
  /\ remote = [r \in Reservations |-> [p \in Products |-> "none"]]
  /\ known = {}
  /\ by = "none"

-----------------------------------------------------------------------------
(* Stock rows *)

Allocated(r) == {p \in Lines(r) : alloc[r][p] # "none"}

\* What the lines S of r, held by h, take from each internal offer.
Share(r, S, h) ==
  [o \in Offers |-> IF o[1] \in S /\ h[o[1]] = o[2] THEN Quantity(r, o[1]) ELSE 0]

\* f with the lines of g replaced.
Overlay(f, g) == [p \in Products |-> IF p \in DOMAIN g THEN g[p] ELSE f[p]]

\* The router gets to the i-th provider of the route when every one before it
\* had too little stock or could not be reached.
Refuses(r, p, v) ==
  v \in Internal => on_hand[p, v] - reserved[p, v] < Quantity(r, p)

\* Faulty variant of Grants: stock that others have reserved is given away.
GrantsReservedStock(r, p, v) == v \in Internal => on_hand[p, v] >= Quantity(r, p)

Grants(r, p, v) ==
  v \in Internal => on_hand[p, v] - reserved[p, v] >= Quantity(r, p)

HeldBy(r, p, v) ==
  \E i \in 1 .. Len(Route(r, p)) :
    /\ Route(r, p)[i] = v
    /\ Grants(r, p, v)
    /\ \A j \in 1 .. (i - 1) : Refuses(r, p, Route(r, p)[j])

RefusedByAll(r, p) ==
  \A i \in 1 .. Len(Route(r, p)) : Refuses(r, p, Route(r, p)[i])

ReachesExternal(r, p) ==
  \E i \in 1 .. Len(Route(r, p)) :
    /\ Route(r, p)[i] \in External
    /\ \A j \in 1 .. (i - 1) : Refuses(r, p, Route(r, p)[j])

-----------------------------------------------------------------------------
(* Calls on an external provider.  What the provider answers and what       *)
(* becomes of the hold: a timeout ("unknown") may come before or after the  *)
(* effect, an open circuit or a 5xx ("unavailable") has none, and a         *)
(* confirmed hold stays confirmed.                                          *)

ConfirmEffects(m) ==
  {<<"unknown", m>>, <<"unavailable", m>>} \cup
  (CASE m = "held"      -> {<<"confirmed", "confirmed">>, <<"unknown", "confirmed">>,
                            <<"rejected", "held">>, <<"rejected", "gone">>}
     [] m = "confirmed" -> {<<"confirmed", "confirmed">>}
     [] OTHER           -> {<<"rejected", m>>})

ReleaseEffects(m) ==
  {<<"unknown", m>>, <<"unavailable", m>>, <<"released", IF m = "held" THEN "gone" ELSE m>>}
  \cup (IF m = "held" THEN {<<"unknown", "gone">>} ELSE {})

\* Faulty variant of Attempted: a retry is not counted.
AttemptedOnce(op, outcome) ==
  [status   |-> CASE outcome \in {"confirmed", "released"} -> "succeeded"
                  [] outcome = "unknown" -> "unknown"
                  [] OTHER -> "failed",
   attempts |-> 1]

\* The operation row after one more call; attempts past the limit are not told apart.
Attempted(op, outcome) ==
  [status   |-> CASE outcome \in {"confirmed", "released"} -> "succeeded"
                  [] outcome = "unknown" -> "unknown"
                  [] OTHER -> "failed",
   attempts |-> IF op.attempts < MaxAttempts THEN op.attempts + 1 ELSE MaxAttempts]

\* Faulty variant of Blocked: requests repeat an unknown call as the worker does.
BlockedAtLimit(op, retry) == op.status = "unknown" /\ op.attempts >= MaxAttempts

\* An unknown outcome is left alone by requests, and by the worker at its limit.
Blocked(op, retry) ==
  op.status = "unknown" /\ (~retry \/ op.attempts >= MaxAttempts)

Answer(outcome, op, m) == [outcome |-> outcome, op |-> op, remote |-> m]
ConfirmOutcomes == {"confirmed", "rejected", "unknown", "unavailable"}
ReleaseOutcomes == {"released", "unknown", "unavailable"}

\* The possible results of _confirm_allocation for a line held by v: done already or
\* internal, blocked, or what the provider makes of the call.
ConfirmAnswers(v, st, op, m, retry) ==
  IF st = "confirmed" \/ v \notin External \/ op.status = "succeeded"
    THEN {Answer("confirmed", op, m)}
  ELSE IF Blocked(op, retry)
    THEN {Answer("unknown", op, m)}
  ELSE {Answer(e[1], Attempted(op, e[1]), e[2]) : e \in ConfirmEffects(m)}

ReleaseAnswers(v, st, op, m, retry) ==
  IF st = "released" \/ v \notin External \/ op.status = "succeeded"
    THEN {Answer("released", op, m)}
  ELSE IF Blocked(op, retry)
    THEN {Answer("unknown", op, m)}
  ELSE {Answer(e[1], Attempted(op, e[1]), e[2]) : e \in ReleaseEffects(m)}

AnswersTo(S, of(_)) ==
  {a \in [S -> UNION {of(p) : p \in S}] : \A p \in S : a[p] \in of(p)}

AfterConfirm(outcome) ==
  CASE outcome = "confirmed" -> "confirmed"
    [] outcome = "rejected"  -> "failed"
    [] outcome = "unknown"   -> "unknown"
    [] OTHER                 -> "held"

\* Faulty variants of AfterRelease: a timeout passes for a release, and the
\* outcome is stored as it came.
ReleasedUnlessUnavailable(outcome) == IF outcome = "unavailable" THEN "held" ELSE "released"
OutcomeAsStatus(outcome) == outcome

AfterRelease(outcome) ==
  CASE outcome = "released" -> "released"
    [] outcome = "unknown"  -> "unknown"
    [] OTHER                -> "held"

\* Faulty variant of Some: all() where the code has any().
Every(a, outcomes) == \A p \in DOMAIN a : a[p].outcome \in outcomes

Some(a, outcomes) == \E p \in DOMAIN a : a[p].outcome \in outcomes

-----------------------------------------------------------------------------
(* Create *)

\* add_with_hold: every line is held by a provider of its route.
CreateHeld(r) ==
  /\ status[r] = "absent"
  /\ \E h \in [Lines(r) -> Providers] :
       /\ \A p \in Lines(r) : HeldBy(r, p, h[p])
       /\ holder' = [holder EXCEPT ![r] = Overlay(holder[r], h)]
       /\ reserved' = [o \in Offers |-> reserved[o] + Share(r, Lines(r), h)[o]]
       /\ remote' = [remote EXCEPT ![r] =
            Overlay(remote[r], [p \in {q \in Lines(r) : h[q] \in External} |-> "held"])]
  /\ alloc' = [alloc EXCEPT ![r] = Overlay(alloc[r], [p \in Lines(r) |-> "held"])]
  /\ status' = [status EXCEPT ![r] = "pending"]
  /\ known' = known \cup {r}
  /\ UNCHANGED <<target, confirmOp, releaseOp, on_hand, orders, by>>

\* add_with_hold: the lines H are held, a next one by no provider; the holds of
\* H are released in the same transaction, and what that leaves is committed.
CreateRefused(r) ==
  /\ status[r] = "absent"
  /\ \E H \in SUBSET Lines(r) : \E h \in [H -> Providers] :
       /\ \E p \in Lines(r) \ H : RefusedByAll(r, p)
       /\ \A p \in H : HeldBy(r, p, h[p])
       /\ \E a \in AnswersTo(H, LAMBDA p :
               ReleaseAnswers(h[p], "held", NoOperation,
                              IF h[p] \in External THEN "held" ELSE "none", FALSE)) :
            /\ holder' = [holder EXCEPT ![r] = Overlay(holder[r], h)]
            /\ alloc' = [alloc EXCEPT ![r] =
                 Overlay(alloc[r], [p \in H |-> AfterRelease(a[p].outcome)])]
            /\ releaseOp' = [releaseOp EXCEPT ![r] =
                 Overlay(releaseOp[r], [p \in H |-> a[p].op])]
            /\ remote' = [remote EXCEPT ![r] =
                 Overlay(remote[r], [p \in H |-> a[p].remote])]
            /\ IF Some(a, {"unknown", "unavailable"})
                 THEN /\ status' = [status EXCEPT ![r] = "releasing"]
                      /\ target' = [target EXCEPT ![r] = "failed"]
                 ELSE /\ status' = [status EXCEPT ![r] = "failed"]
                      /\ UNCHANGED target
  /\ UNCHANGED <<confirmOp, on_hand, reserved, orders, known, by>>

\* The create transaction is rolled back after external providers were reached:
\* a hold timed out, a call raised, the process stopped or the commit failed.
CreateLost(r) ==
  /\ status[r] = "absent"
  /\ \E S \in SUBSET {p \in Lines(r) : ReachesExternal(r, p)} :
       /\ S # {}
       /\ remote' = [remote EXCEPT ![r] = Overlay(remote[r], [p \in S |-> "held"])]
  /\ status' = [status EXCEPT ![r] = "lost"]
  /\ UNCHANGED <<target, alloc, holder, confirmOp, releaseOp,
                 on_hand, reserved, orders, known, by>>

\* Faulty variant of InsufficientInventory: a refusal still being released is overlooked.
FailedOnly(r) == status[r] = "failed"

\* The answer to a create call whose key already has the reservation r.
InsufficientInventory(r) == status[r] = "failed" \/ target[r] = "failed"

\* A create call under the key of r.  With the same items it is answered by r,
\* or by insufficient inventory; with other items by a conflict that names r.
CreateAgain(r) ==
  /\ status[r] \in Stored
  /\ \E sameItems \in BOOLEAN :
       known' = IF sameItems /\ InsufficientInventory(r) THEN known ELSE known \cup {r}
  /\ UNCHANGED <<status, target, alloc, holder, confirmOp, releaseOp,
                 on_hand, reserved, orders, remote, by>>

-----------------------------------------------------------------------------
(* _confirm_reservation and _release_reservation *)

ConfirmAnswersOf(r, p, retry) ==
  ConfirmAnswers(holder[r][p], alloc[r][p], confirmOp[r][p],
                 remote[r][p], retry)

ReleaseAnswersOf(r, p, retry) ==
  ReleaseAnswers(holder[r][p], alloc[r][p], releaseOp[r][p],
                 remote[r][p], retry)

\* Faulty variant of Consumed and Returned: a second pass takes every line again.
EveryLine(r) == Allocated(r)

\* The internal lines whose stock the transaction takes.
Consumed(r) == {p \in Allocated(r) : alloc[r][p] # "confirmed"}
Returned(r) == {p \in Allocated(r) : alloc[r][p] # "released"}

\* confirm_hold and release_hold of every line.  One that finds too little stock
\* raises, and the transaction is rolled back.
ConfirmHold(take) ==
  /\ \A o \in Offers : on_hand[o] >= take[o] /\ reserved[o] >= take[o]
  /\ on_hand' = [o \in Offers |-> on_hand[o] - take[o]]
  /\ reserved' = [o \in Offers |-> reserved[o] - take[o]]

ReleaseHold(give) ==
  /\ \A o \in Offers : reserved[o] >= give[o]
  /\ reserved' = [o \in Offers |-> reserved[o] - give[o]]
  /\ UNCHANGED on_hand

ConfirmReservation(r, retry) ==
  /\ ConfirmHold(Share(r, Consumed(r), holder[r]))
  /\ \E a \in AnswersTo(Allocated(r), LAMBDA p : ConfirmAnswersOf(r, p, retry)) :
       /\ alloc' = [alloc EXCEPT ![r] =
            Overlay(alloc[r], [p \in Allocated(r) |-> AfterConfirm(a[p].outcome)])]
       /\ confirmOp' = [confirmOp EXCEPT ![r] =
            Overlay(confirmOp[r], [p \in Allocated(r) |-> a[p].op])]
       /\ remote' = [remote EXCEPT ![r] =
            Overlay(remote[r], [p \in Allocated(r) |-> a[p].remote])]
       /\ \/ /\ Some(a, {"rejected"})
             /\ status' = [status EXCEPT ![r] = "failed"]
             /\ UNCHANGED orders
          \/ /\ ~Some(a, {"rejected"})
             /\ Some(a, {"unknown", "unavailable"})
             /\ status' = [status EXCEPT ![r] = "confirming"]
             /\ UNCHANGED orders
          \/ /\ ~Some(a, {"rejected", "unknown", "unavailable"})
             /\ status' = [status EXCEPT ![r] = "confirmed"]
             /\ orders' = orders \cup {r}
  /\ UNCHANGED <<target, holder, releaseOp, known>>

ReleaseReservation(r, terminal, retry) ==
  /\ ReleaseHold(Share(r, Returned(r), holder[r]))
  /\ \E a \in AnswersTo(Allocated(r), LAMBDA p : ReleaseAnswersOf(r, p, retry)) :
       /\ alloc' = [alloc EXCEPT ![r] =
            Overlay(alloc[r], [p \in Allocated(r) |-> AfterRelease(a[p].outcome)])]
       /\ releaseOp' = [releaseOp EXCEPT ![r] =
            Overlay(releaseOp[r], [p \in Allocated(r) |-> a[p].op])]
       /\ remote' = [remote EXCEPT ![r] =
            Overlay(remote[r], [p \in Allocated(r) |-> a[p].remote])]
       /\ IF Some(a, {"unknown", "unavailable"})
            THEN /\ status' = [status EXCEPT ![r] = "releasing"]
                 /\ target' = [target EXCEPT ![r] = terminal]
            ELSE /\ status' = [status EXCEPT ![r] = terminal]
                 /\ target' = [target EXCEPT ![r] = "none"]
  /\ UNCHANGED <<holder, confirmOp, orders, known>>

-----------------------------------------------------------------------------
(* Requests and workers *)

\* Faulty variant of MayConfirm: a cancelled reservation is not refused.
MayConfirmCancelled(r) ==
  /\ r \in known
  /\ status[r] \in Stored \ {"confirmed"}

MayConfirm(r) ==
  /\ r \in known
  /\ status[r] \in Stored \ {"confirmed", "cancelled"}
  /\ LateCalls \/ status[r] \in {"pending", "confirming"}

MayCancel(r) ==
  /\ r \in known
  /\ status[r] \in Stored \ {"confirmed", "cancelled", "confirming"}
  /\ LateCalls \/ status[r] = "pending" \/ target[r] = "cancelled"

Confirm(r) == MayConfirm(r) /\ ConfirmReservation(r, FALSE) /\ by' = "confirm"

\* Faulty variant of ConfirmAgain: the order does not wait for unknown outcomes.
OrderBeforeConfirmed(r) ==
  /\ r \in known
  /\ status[r] \in {"confirmed", "confirming"}
  /\ orders' = orders \cup {r}
  /\ UNCHANGED <<status, target, alloc, holder, confirmOp, releaseOp,
                 on_hand, reserved, remote, known, by>>

\* A confirmed reservation: _ensure_order only.
ConfirmAgain(r) ==
  /\ r \in known
  /\ status[r] = "confirmed"
  /\ orders' = orders \cup {r}
  /\ UNCHANGED <<status, target, alloc, holder, confirmOp, releaseOp,
                 on_hand, reserved, remote, known, by>>

Cancel(r) == MayCancel(r) /\ ReleaseReservation(r, "cancelled", FALSE) /\ by' = "cancel"

Expire(r) ==
  status[r] = "pending" /\ ReleaseReservation(r, "expired", FALSE) /\ by' = "expiry"

\* reconcile_batch selects the reservations with an operation of this kind.
Reconcilable(r, op) ==
  \E p \in Allocated(r) :
    op[r][p].status = "unknown" /\ op[r][p].attempts < MaxAttempts

ReleaseDue(r) ==
  status[r] = "releasing" /\ target[r] \in Targets /\ Reconcilable(r, releaseOp)

\* Faulty variant of ConfirmDue: the kind of the operation is not looked at.
AnyKindDue(r) ==
  /\ status[r] \in {"confirming", "releasing"}
  /\ Reconcilable(r, confirmOp) \/ Reconcilable(r, releaseOp)

ConfirmDue(r) == status[r] = "confirming" /\ Reconcilable(r, confirmOp)

\* Faulty variant of ReconcileRelease: the stored target is not read back.
ReconcileAsCancelled(r) ==
  ReleaseDue(r) /\ ReleaseReservation(r, "cancelled", TRUE) /\ by' = "reconciliation"

ReconcileRelease(r) ==
  ReleaseDue(r) /\ ReleaseReservation(r, target[r], TRUE) /\ by' = "reconciliation"

ReconcileConfirm(r) ==
  ConfirmDue(r) /\ ConfirmReservation(r, TRUE) /\ by' = "reconciliation"

\* A confirming transaction that is rolled back after its calls took effect: a
\* later line raised, the process stopped or the commit failed.
ConfirmAborts(r) ==
  /\ \E retry \in BOOLEAN :
       /\ IF retry THEN ConfirmDue(r) ELSE MayConfirm(r)
       /\ by' = IF retry THEN "reconciliation" ELSE "confirm"
       /\ \E S \in SUBSET Allocated(r) :
            /\ S # {}
            /\ \A p \in S :
                 /\ remote[r][p] = "held"
                 /\ \E e \in ConfirmAnswersOf(r, p, retry) : e.remote = "confirmed"
            /\ remote' = [remote EXCEPT ![r] =
                 Overlay(remote[r], [p \in S |-> "confirmed"])]
  /\ UNCHANGED <<status, target, alloc, holder, confirmOp, releaseOp,
                 on_hand, reserved, orders, known>>

ReleaseAborts(r) ==
  /\ \E who \in {"cancel", "expiry", "reconciliation"} :
       /\ CASE who = "cancel" -> MayCancel(r)
            [] who = "expiry" -> status[r] = "pending"
            [] OTHER -> ReleaseDue(r)
       /\ by' = who
       /\ \E S \in SUBSET Allocated(r) :
            /\ S # {}
            /\ \A p \in S :
                 /\ remote[r][p] = "held"
                 /\ \E e \in ReleaseAnswersOf(r, p, who = "reconciliation") : e.remote = "gone"
            /\ remote' = [remote EXCEPT ![r] =
                 Overlay(remote[r], [p \in S |-> "gone"])]
  /\ UNCHANGED <<status, target, alloc, holder, confirmOp, releaseOp,
                 on_hand, reserved, orders, known>>

\* An operator sets the stock of an offer, never below what is reserved.
SetLevel(o) ==
  /\ \E n \in Levels : n >= reserved[o] /\ on_hand' = [on_hand EXCEPT ![o] = n]
  /\ UNCHANGED <<status, target, alloc, holder, confirmOp, releaseOp,
                 reserved, orders, remote, known, by>>

Next ==
  \/ \E r \in Reservations :
       \/ CreateHeld(r) \/ CreateRefused(r) \/ CreateLost(r) \/ CreateAgain(r)
       \/ Confirm(r) \/ ConfirmAgain(r) \/ Cancel(r) \/ Expire(r)
       \/ ReconcileRelease(r) \/ ReconcileConfirm(r)
       \/ ConfirmAborts(r) \/ ReleaseAborts(r)
  \/ \E o \in Offers : SetLevel(o)

Spec == Init /\ [][Next]_vars

\* The workers poll for as long as the service runs: a reservation past its
\* deadline and a due operation are taken up in the end.
Fairness ==
  \A r \in Reservations :
    /\ WF_vars(Expire(r))
    /\ WF_vars(ReconcileRelease(r))
    /\ WF_vars(ReconcileConfirm(r))

FairSpec == Spec /\ Fairness

-----------------------------------------------------------------------------
(* Properties, whatever the callers do *)

\* Every variable keeps to the values its column admits.
TypeOK ==
  /\ status \in [Reservations -> Statuses]
  /\ target \in [Reservations -> Targets \cup {"none"}]
  /\ alloc \in [Reservations -> [Products -> AllocStatuses]]
  /\ holder \in [Reservations -> [Products -> Providers \cup {NoProvider}]]
  /\ confirmOp \in [Reservations -> [Products -> Operations]]
  /\ releaseOp \in [Reservations -> [Products -> Operations]]
  /\ on_hand \in [Offers -> Int]
  /\ reserved \in [Offers -> Int]
  /\ orders \subseteq Reservations
  /\ remote \in [Reservations -> [Products -> RemoteStates]]
  /\ known \subseteq Reservations
  /\ by \in Actors \cup {"none"}

\* No internal offer is ever reserved beyond its stock or below zero, however
\* holds, confirmations, releases and operator updates interleave.
StockWithinBounds ==
  \A o \in Offers : 0 <= reserved[o] /\ reserved[o] <= on_hand[o]

\* A reservation has its order exactly when it is confirmed, and a confirmed,
\* cancelled or expired reservation has no line with another outcome: partial
\* progress of _confirm_reservation and _release_reservation never shows as done.
OutcomeIsComplete ==
  \A r \in Reservations :
    /\ r \in orders <=> status[r] = "confirmed"
    /\ status[r] = "confirmed" => \A p \in Allocated(r) : alloc[r][p] = "confirmed"
    /\ status[r] \in {"cancelled", "expired"} =>
         \A p \in Allocated(r) : alloc[r][p] = "released"

\* What the allocations say of an external hold is what the provider did,
\* through timeouts, retries and rolled-back transactions: a confirmed line is
\* confirmed there, a released one holds nothing there.
AnswersAreTrue ==
  \A r \in Reservations : \A p \in Allocated(r) :
    holder[r][p] \in External =>
      /\ alloc[r][p] = "confirmed" => remote[r][p] = "confirmed"
      /\ alloc[r][p] = "released" => remote[r][p] # "held"

\* A confirmed or cancelled reservation is never changed again, neither by a
\* late request or a worker nor by the rest of a transaction that was under way.
ConfirmedAndCancelledAreFinal ==
  [][\A r \in Reservations :
       status[r] \in {"confirmed", "cancelled"} =>
         UNCHANGED <<status[r], alloc[r], confirmOp[r], releaseOp[r], remote[r]>>]_vars

\* A call whose outcome is unknown is repeated by the reconciliation worker only, on a
\* reservation of its kind and below the limit: a request or the expiration worker
\* that meets it neither records another attempt nor reaches the provider, not even
\* in a transaction that is rolled back.
UnknownIsRetriedByWorkerOnly ==
  [][\A r \in Reservations : \A p \in Products :
       /\ confirmOp[r][p].status = "unknown" =>
            /\ confirmOp'[r][p] # confirmOp[r][p] =>
                 /\ by' = "reconciliation"
                 /\ ConfirmDue(r) /\ confirmOp[r][p].attempts < MaxAttempts
            /\ by' = "confirm" => remote'[r][p] = remote[r][p]
       /\ releaseOp[r][p].status = "unknown" =>
            /\ releaseOp'[r][p] # releaseOp[r][p] =>
                 /\ by' = "reconciliation"
                 /\ ReleaseDue(r) /\ releaseOp[r][p].attempts < MaxAttempts
            /\ by' \in {"cancel", "expiry"} => remote'[r][p] = remote[r][p]]_vars

\* Internal stock is consumed from a held line, unless a caller confirms a reservation
\* whose outcome is decided otherwise: no retry, repeated confirmation or worker
\* consumes what was released or given to another reservation.
TakenWasHeld ==
  [][\A r \in Reservations : \A p \in Products :
       /\ holder[r][p] \in Internal
       /\ alloc[r][p] # "confirmed"
       /\ alloc'[r][p] = "confirmed"
       => \/ alloc[r][p] = "held"
          \/ by' = "confirm" /\ status[r] \notin {"pending", "confirming"}]_vars

\* A release under way ends in the status it was begun for, unless a caller decides
\* otherwise: a cancel makes it a cancellation, a confirm a confirmation.  Neither
\* worker changes what a release was begun for.
ReleaseReachesTarget ==
  [][\A r \in Reservations :
       status[r] = "releasing" =>
         \/ status'[r] = "releasing" /\ target'[r] = target[r]
         \/ status'[r] = target[r]
         \/ /\ by' = "cancel"
            /\ \/ status'[r] = "cancelled"
               \/ status'[r] = "releasing" /\ target'[r] = "cancelled"
         \/ by' = "confirm" /\ status'[r] \in {"confirmed", "confirming", "failed"}]_vars

-----------------------------------------------------------------------------
(* Properties of the documented contract *)

\* The reservations with a line in this state at the offer o.
Claims(o, st) ==
  {r \in Reservations : /\ o[1] \in Allocated(r)
                        /\ holder[r][o[1]] = o[2]
                        /\ alloc[r][o[1]] = st}

\* What the reservations S have of the product of o, and what is claimed so.
QuantityOf(S, o) == MapThenSumSet(LAMBDA r : Quantity(r, o[1]), S)
Claimed(o, st) == QuantityOf(Claims(o, st), o)

\* The reserved column is exactly what live allocations hold: no hold is
\* returned twice, kept by nobody or taken by another reservation.
ReservedIsHeld == \A o \in Offers : reserved[o] = Claimed(o, "held")

\* With no operator updates, stock leaves an offer only into confirmed lines.
StockIsConserved ==
  Levels = {} => \A o \in Offers : on_hand[o] + Claimed(o, "confirmed") = Stock0[o]

\* An order stands only for a reservation with every line allocated and confirmed: the
\* status pending is given to whole reservations alone, and none loses a line on its
\* way.  confirm does not itself look for lines without an allocation.
EveryOrderIsFilled ==
  \A r \in orders : \A p \in Lines(r) : alloc[r][p] = "confirmed"

\* A confirmation consumes internal stock only from a line that is held.
ConsumedWasHeld ==
  [][\A r \in Reservations : \A p \in Products :
       /\ holder[r][p] \in Internal
       /\ alloc[r][p] # "confirmed"
       /\ alloc'[r][p] = "confirmed"
       => alloc[r][p] = "held"]_vars

\* A create call that was refused, leaving lines without an allocation, is
\* answered with insufficient inventory whenever it is repeated.
RefusedStaysRefused ==
  \A r \in Reservations :
    status[r] \in Stored /\ Allocated(r) # Lines(r) => InsufficientInventory(r)

\* A releasing reservation is one that reconciliation can finish, or has given
\* up on after its last attempt.
ReleasingIsReconcilable ==
  \A r \in Reservations :
    status[r] = "releasing" =>
      \E p \in Allocated(r) : releaseOp[r][p].status = "unknown"

Resolved(r) == status[r] \in {"confirmed"} \cup Targets

\* The open lines S have no call left: the last attempt at each was refused for the
\* moment, or what became of it is unknown at the limit.
NoneLeft(S, op) ==
  /\ S # {}
  /\ \A p \in S : \/ op[p].status = "failed"
                  \/ op[p].status = "unknown" /\ op[p].attempts >= MaxAttempts

GivenUp(r) ==
  \/ /\ status[r] = "confirming"
     /\ NoneLeft({p \in Allocated(r) : alloc[r][p] # "confirmed"}, confirmOp[r])
  \/ /\ status[r] = "releasing"
     /\ NoneLeft({p \in Allocated(r) : alloc[r][p] # "released"}, releaseOp[r])

\* Every pending reservation comes to an outcome that stays: it is confirmed, cancelled,
\* expired or failed, or it is left confirming or releasing because each open line was
\* refused for the moment or has used up its attempts, and for no other reason.
PendingResolves ==
  \A r \in Reservations : status[r] = "pending" ~> [](Resolved(r) \/ GivenUp(r))

\* Reconciliation comes to rest: no reservation stays due for ever.
ReconciliationComesToRest ==
  \A r \in Reservations : <>[](~ReleaseDue(r) /\ ~ConfirmDue(r))
=============================================================================
