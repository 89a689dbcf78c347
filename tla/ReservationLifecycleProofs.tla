---------------------- MODULE ReservationLifecycleProofs ----------------------
(***************************************************************************)
(* Proofs that the safety properties of ReservationLifecycle hold for      *)
(* every set of reservations, every route, every stock and every caller;   *)
(* and what callers that confirm and cancel in time can rely on.           *)
(***************************************************************************)
EXTENDS ReservationLifecycle, SumTheorems

\* An operation recorded as succeeded says what the provider did: this is what
\* lets _confirm_external_hold and _release_external_hold answer from the row.
OperationsAreTrue ==
  \A r \in Reservations : \A p \in Products :
    /\ confirmOp[r][p].status = "succeeded" => remote[r][p] = "confirmed"
    /\ releaseOp[r][p].status = "succeeded" => remote[r][p] # "held"

\* A reservation that was never stored has no allocation and no operation.
UnstoredIsBlank ==
  \A r \in Reservations :
    status[r] \in {"absent", "lost"} =>
      \A p \in Products : /\ alloc[r][p] = "none"
                          /\ confirmOp[r][p] = NoOperation
                          /\ releaseOp[r][p] = NoOperation

IInv ==
  /\ TypeOK
  /\ StockWithinBounds
  /\ OutcomeIsComplete
  /\ AnswersAreTrue
  /\ OperationsAreTrue
  /\ UnstoredIsBlank

-----------------------------------------------------------------------------
(* The helpers *)

\* Overlaying the lines S keeps the type of a row of lines and leaves the rest.
LEMMA OverlayFacts ==
  ASSUME NEW T, NEW S \in SUBSET Products, NEW f \in [Products -> T], NEW g \in [S -> T]
  PROVE  /\ Overlay(f, g) \in [Products -> T]
         /\ \A p \in S : Overlay(f, g)[p] = g[p]
         /\ \A p \in Products \ S : Overlay(f, g)[p] = f[p]
BY DEF Overlay

\* The lines of a reservation are products, and so are its allocated lines.
LEMMA LinesFacts ==
  ASSUME NEW r \in Reservations
  PROVE  /\ Lines(r) \subseteq Products
         /\ Allocated(r) \subseteq Lines(r)
         /\ \A p \in Lines(r) : Quantity(r, p) \in Nat
BY ConfigurationAssumption DEF Allocated

\* A share of the stock is a quantity of every offer.
LEMMA ShareType ==
  ASSUME NEW r \in Reservations, NEW S \in SUBSET Lines(r), NEW h
  PROVE  Share(r, S, h) \in [Offers -> Nat]
BY LinesFacts DEF Share

\* Attempts never pass the limit that tells them apart.
LEMMA AttemptedType ==
  ASSUME NEW op \in Operations, NEW outcome
  PROVE  Attempted(op, outcome) \in Operations
<1>1. op.attempts \in 0 .. MaxAttempts
  BY DEF Operations
<1>2. MaxAttempts \in Nat \ {0}
  BY ConfigurationAssumption
<1>3. (IF op.attempts < MaxAttempts THEN op.attempts + 1 ELSE MaxAttempts) \in 0 .. MaxAttempts
  BY <1>1, <1>2
<1> QED
  BY <1>3 DEF Attempted, Operations, OpStatuses

\* An answer a to a confirmation claims no more than the provider did, for a
\* line held by v in the state st, op and m: the hold moves only forward, and
\* success is reported only for a confirmed hold.
HonestConfirm(a, v, st, op, m) ==
  /\ a.outcome \in ConfirmOutcomes
  /\ a.op \in Operations
  /\ a.remote \in RemoteStates
  /\ a.remote = m \/ (m = "held" /\ a.remote \in {"confirmed", "gone"})
  /\ a.op.status = "succeeded" => op.status = "succeeded" \/ a.remote = "confirmed"
  /\ v \in External /\ a.outcome = "confirmed" =>
       st = "confirmed" \/ op.status = "succeeded" \/ a.remote = "confirmed"

\* The same of an answer to a release.
HonestRelease(a, v, st, op, m) ==
  /\ a.outcome \in ReleaseOutcomes
  /\ a.op \in Operations
  /\ a.remote \in RemoteStates
  /\ a.remote = m \/ (m = "held" /\ a.remote = "gone")
  /\ a.op.status = "succeeded" => op.status = "succeeded" \/ a.remote # "held"
  /\ v \in External /\ a.outcome = "released" =>
       st = "released" \/ op.status = "succeeded" \/ a.remote # "held"

\* Every answer that _confirm_allocation can give is honest.
LEMMA ConfirmAnswerFacts ==
  ASSUME NEW v, NEW st \in AllocStatuses, NEW op \in Operations, NEW m \in RemoteStates,
         NEW retry, NEW a \in ConfirmAnswers(v, st, op, m, retry)
  PROVE  HonestConfirm(a, v, st, op, m)
<1> USE DEF HonestConfirm
<1>1. CASE st = "confirmed" \/ v \notin External \/ op.status = "succeeded"
  BY <1>1 DEF ConfirmAnswers, Answer, ConfirmOutcomes
<1>2. CASE /\ ~(st = "confirmed" \/ v \notin External \/ op.status = "succeeded")
           /\ Blocked(op, retry)
  BY <1>2 DEF ConfirmAnswers, Answer, ConfirmOutcomes
<1>3. CASE /\ ~(st = "confirmed" \/ v \notin External \/ op.status = "succeeded")
           /\ ~Blocked(op, retry)
  <2>1. PICK e \in ConfirmEffects(m) : a = Answer(e[1], Attempted(op, e[1]), e[2])
    BY <1>3 DEF ConfirmAnswers
  <2>2. /\ e[1] \in ConfirmOutcomes
        /\ e[2] \in RemoteStates
        /\ e[2] = m \/ (m = "held" /\ e[2] \in {"confirmed", "gone"})
        /\ e[1] = "confirmed" => e[2] = "confirmed"
        /\ e[1] # "released"
    BY DEF ConfirmEffects, ConfirmOutcomes, RemoteStates
  <2>3. Attempted(op, e[1]).status = "succeeded" => e[1] = "confirmed"
    BY <2>2 DEF Attempted
  <2> QED
    BY <2>1, <2>2, <2>3, AttemptedType DEF Answer
<1> QED
  BY <1>1, <1>2, <1>3

\* Every answer that _release_allocation can give is honest.
LEMMA ReleaseAnswerFacts ==
  ASSUME NEW v, NEW st \in AllocStatuses, NEW op \in Operations, NEW m \in RemoteStates,
         NEW retry, NEW a \in ReleaseAnswers(v, st, op, m, retry)
  PROVE  HonestRelease(a, v, st, op, m)
<1> USE DEF HonestRelease
<1>1. CASE st = "released" \/ v \notin External \/ op.status = "succeeded"
  BY <1>1 DEF ReleaseAnswers, Answer, ReleaseOutcomes
<1>2. CASE /\ ~(st = "released" \/ v \notin External \/ op.status = "succeeded")
           /\ Blocked(op, retry)
  BY <1>2 DEF ReleaseAnswers, Answer, ReleaseOutcomes
<1>3. CASE /\ ~(st = "released" \/ v \notin External \/ op.status = "succeeded")
           /\ ~Blocked(op, retry)
  <2>1. PICK e \in ReleaseEffects(m) : a = Answer(e[1], Attempted(op, e[1]), e[2])
    BY <1>3 DEF ReleaseAnswers
  <2>2. /\ e[1] \in ReleaseOutcomes
        /\ e[2] \in RemoteStates
        /\ e[2] = m \/ (m = "held" /\ e[2] = "gone")
        /\ e[1] = "released" => e[2] # "held"
        /\ e[1] # "confirmed"
    BY DEF ReleaseEffects, ReleaseOutcomes, RemoteStates
  <2>3. Attempted(op, e[1]).status = "succeeded" => e[1] = "released"
    BY <2>2 DEF Attempted
  <2> QED
    BY <2>1, <2>2, <2>3, AttemptedType DEF Answer
<1> QED
  BY <1>1, <1>2, <1>3

-----------------------------------------------------------------------------
(* The two shared transactions *)

\* A confirming transaction preserves the invariant, from any stored status:
\* late confirmations of released lines included.
LEMMA ConfirmPreserves ==
  ASSUME IInv, NEW r \in Reservations, NEW retry \in BOOLEAN,
         status[r] \in Stored, status[r] \notin {"confirmed", "cancelled"},
         ConfirmReservation(r, retry), by' \in Actors
  PROVE  IInv'
<1> DEFINE A == Allocated(r)
           take == Share(r, Consumed(r), holder[r])
<1>1. PICK a \in AnswersTo(A, LAMBDA p : ConfirmAnswersOf(r, p, retry)) :
        /\ alloc' = [alloc EXCEPT ![r] =
             Overlay(alloc[r], [p \in A |-> AfterConfirm(a[p].outcome)])]
        /\ confirmOp' = [confirmOp EXCEPT ![r] =
             Overlay(confirmOp[r], [p \in A |-> a[p].op])]
        /\ remote' = [remote EXCEPT ![r] =
             Overlay(remote[r], [p \in A |-> a[p].remote])]
        /\ \/ /\ Some(a, {"rejected"})
              /\ status' = [status EXCEPT ![r] = "failed"]
              /\ UNCHANGED orders
           \/ /\ ~Some(a, {"rejected"})
              /\ Some(a, {"unknown", "unavailable"})
              /\ status' = [status EXCEPT ![r] = "confirming"]
              /\ UNCHANGED orders
           \/ /\ ~Some(a, {"rejected", "unknown", "unavailable"})
              /\ status' = [status EXCEPT ![r] = "confirmed"]
              /\ orders' = orders \cup {r}
  BY DEF ConfirmReservation, ConfirmHold
<1>2. /\ \A o \in Offers : on_hand[o] >= take[o] /\ reserved[o] >= take[o]
      /\ on_hand' = [o \in Offers |-> on_hand[o] - take[o]]
      /\ reserved' = [o \in Offers |-> reserved[o] - take[o]]
      /\ UNCHANGED <<target, holder, releaseOp, known>>
  BY DEF ConfirmReservation, ConfirmHold
<1>3. A \subseteq Products
  BY LinesFacts
<1>4. DOMAIN a = A /\ \A p \in A : a[p] \in ConfirmAnswersOf(r, p, retry)
  BY DEF AnswersTo
<1>5. \A p \in A : HonestConfirm(a[p], holder[r][p], alloc[r][p], confirmOp[r][p], remote[r][p])
  <2> TAKE p \in A
  <2>1. /\ alloc[r][p] \in AllocStatuses
        /\ confirmOp[r][p] \in Operations
        /\ remote[r][p] \in RemoteStates
    BY <1>3 DEF IInv, TypeOK
  <2>2. a[p] \in ConfirmAnswers(holder[r][p], alloc[r][p], confirmOp[r][p],
                                remote[r][p], retry)
    BY <1>4 DEF ConfirmAnswersOf
  <2> QED
    BY <2>1, <2>2, ConfirmAnswerFacts
<1>6. \A p \in A : AfterConfirm(a[p].outcome) \in AllocStatuses \ {"none", "released"}
  BY DEF AfterConfirm, AllocStatuses
<1>7. /\ Overlay(alloc[r], [p \in A |-> AfterConfirm(a[p].outcome)])
           \in [Products -> AllocStatuses]
      /\ Overlay(confirmOp[r], [p \in A |-> a[p].op]) \in [Products -> Operations]
      /\ Overlay(remote[r], [p \in A |-> a[p].remote]) \in [Products -> RemoteStates]
  BY <1>3, <1>5, <1>6 DEF HonestConfirm, IInv, TypeOK, Overlay
<1>8. /\ \A p \in A : /\ alloc'[r][p] = AfterConfirm(a[p].outcome)
                      /\ confirmOp'[r][p] = a[p].op
                      /\ remote'[r][p] = a[p].remote
      /\ \A p \in Products \ A : /\ alloc'[r][p] = alloc[r][p]
                                 /\ confirmOp'[r][p] = confirmOp[r][p]
                                 /\ remote'[r][p] = remote[r][p]
      /\ \A q \in Reservations \ {r} : /\ alloc'[q] = alloc[q]
                                       /\ confirmOp'[q] = confirmOp[q]
                                       /\ remote'[q] = remote[q]
                                       /\ status'[q] = status[q]
  BY <1>1, <1>3 DEF IInv, TypeOK, Overlay
<1>9. Allocated(r)' = A /\ \A q \in Reservations \ {r} : Allocated(q)' = Allocated(q)
  BY <1>3, <1>6, <1>8, LinesFacts DEF Allocated
<1>10. take \in [Offers -> Nat]
  BY ShareType DEF Consumed, Allocated
<1>11. TypeOK'
  <2>1. /\ status' \in [Reservations -> Statuses]
        /\ orders' \subseteq Reservations
    BY <1>1 DEF IInv, TypeOK, Statuses, Stored, Targets
  <2>2. on_hand' \in [Offers -> Int] /\ reserved' \in [Offers -> Int]
    BY <1>2, <1>10 DEF IInv, TypeOK
  <2>3. /\ alloc' \in [Reservations -> [Products -> AllocStatuses]]
        /\ confirmOp' \in [Reservations -> [Products -> Operations]]
        /\ remote' \in [Reservations -> [Products -> RemoteStates]]
    BY <1>1, <1>7 DEF IInv, TypeOK
  <2> QED
    BY <1>2, <2>1, <2>2, <2>3 DEF IInv, TypeOK
<1>12. StockWithinBounds'
  BY <1>2, <1>10 DEF IInv, TypeOK, StockWithinBounds
<1>13. OutcomeIsComplete'
  <2>1. status'[r] \in {"failed", "confirming", "confirmed"}
        /\ (r \in orders' <=> status'[r] = "confirmed")
    BY <1>1 DEF IInv, TypeOK, OutcomeIsComplete
  <2>2. status'[r] = "confirmed" => \A p \in A : alloc'[r][p] = "confirmed"
    <3> SUFFICES ASSUME status'[r] = "confirmed", NEW p \in A
                 PROVE  alloc'[r][p] = "confirmed"
      OBVIOUS
    <3>1. ~Some(a, {"rejected", "unknown", "unavailable"})
      BY <1>1 DEF IInv, TypeOK
    <3>2. a[p].outcome = "confirmed"
      BY <3>1, <1>4, <1>5 DEF HonestConfirm, Some, ConfirmOutcomes
    <3> QED
      BY <3>2, <1>8 DEF AfterConfirm
  <2>3. \A q \in Reservations \ {r} : (q \in orders' <=> q \in orders)
    BY <1>1
  <2> QED
    BY <2>1, <2>2, <2>3, <1>8, <1>9 DEF IInv, OutcomeIsComplete
<1>14. OperationsAreTrue'
  <2>1. \A p \in Products :
          /\ confirmOp'[r][p].status = "succeeded" => remote'[r][p] = "confirmed"
          /\ releaseOp[r][p].status = "succeeded" => remote'[r][p] # "held"
    BY <1>5, <1>8 DEF HonestConfirm, IInv, OperationsAreTrue
  <2> QED
    BY <2>1, <1>2, <1>8 DEF IInv, OperationsAreTrue
<1>15. AnswersAreTrue'
  <2>1. \A p \in A : holder[r][p] \in External =>
          /\ alloc'[r][p] = "confirmed" => remote'[r][p] = "confirmed"
          /\ alloc'[r][p] = "released" => remote'[r][p] # "held"
    <3> SUFFICES ASSUME NEW p \in A, holder[r][p] \in External
                 PROVE  /\ alloc'[r][p] = "confirmed" => remote'[r][p] = "confirmed"
                        /\ alloc'[r][p] = "released" => remote'[r][p] # "held"
      OBVIOUS
    <3>1. alloc'[r][p] # "released"
      BY <1>6, <1>8
    <3>2. alloc'[r][p] = "confirmed" => a[p].outcome = "confirmed"
      BY <1>5, <1>8 DEF HonestConfirm, AfterConfirm, ConfirmOutcomes
    <3>3. alloc[r][p] = "confirmed" \/ confirmOp[r][p].status = "succeeded" =>
            remote[r][p] = "confirmed"
      BY <1>3 DEF IInv, AnswersAreTrue, OperationsAreTrue
    <3> QED
      BY <3>1, <3>2, <3>3, <1>5, <1>8 DEF HonestConfirm
  <2> QED
    BY <2>1, <1>2, <1>8, <1>9 DEF IInv, AnswersAreTrue
<1>16. UnstoredIsBlank'
  <2>1. status'[r] \notin {"absent", "lost"}
    BY <1>1 DEF IInv, TypeOK
  <2> QED
    BY <2>1, <1>2, <1>8 DEF IInv, UnstoredIsBlank
<1> QED
  BY <1>11, <1>12, <1>13, <1>14, <1>15, <1>16 DEF IInv

\* A releasing transaction preserves the invariant, from every status but confirmed.
LEMMA ReleasePreserves ==
  ASSUME IInv, NEW r \in Reservations, NEW terminal \in Targets, NEW retry \in BOOLEAN,
         status[r] \in Stored, status[r] # "confirmed",
         ReleaseReservation(r, terminal, retry), by' \in Actors
  PROVE  IInv'
<1> DEFINE A == Allocated(r)
           give == Share(r, Returned(r), holder[r])
<1>1. PICK a \in AnswersTo(A, LAMBDA p : ReleaseAnswersOf(r, p, retry)) :
        /\ alloc' = [alloc EXCEPT ![r] =
             Overlay(alloc[r], [p \in A |-> AfterRelease(a[p].outcome)])]
        /\ releaseOp' = [releaseOp EXCEPT ![r] =
             Overlay(releaseOp[r], [p \in A |-> a[p].op])]
        /\ remote' = [remote EXCEPT ![r] =
             Overlay(remote[r], [p \in A |-> a[p].remote])]
        /\ IF Some(a, {"unknown", "unavailable"})
             THEN /\ status' = [status EXCEPT ![r] = "releasing"]
                  /\ target' = [target EXCEPT ![r] = terminal]
             ELSE /\ status' = [status EXCEPT ![r] = terminal]
                  /\ target' = [target EXCEPT ![r] = "none"]
  BY DEF ReleaseReservation, ReleaseHold
<1>2. /\ \A o \in Offers : reserved[o] >= give[o]
      /\ reserved' = [o \in Offers |-> reserved[o] - give[o]]
      /\ UNCHANGED <<holder, confirmOp, on_hand, orders, known>>
  BY DEF ReleaseReservation, ReleaseHold
<1>3. A \subseteq Products
  BY LinesFacts
<1>4. DOMAIN a = A /\ \A p \in A : a[p] \in ReleaseAnswersOf(r, p, retry)
  BY DEF AnswersTo
<1>5. \A p \in A : HonestRelease(a[p], holder[r][p], alloc[r][p], releaseOp[r][p], remote[r][p])
  <2> TAKE p \in A
  <2>1. /\ alloc[r][p] \in AllocStatuses
        /\ releaseOp[r][p] \in Operations
        /\ remote[r][p] \in RemoteStates
    BY <1>3 DEF IInv, TypeOK
  <2>2. a[p] \in ReleaseAnswers(holder[r][p], alloc[r][p], releaseOp[r][p],
                                remote[r][p], retry)
    BY <1>4 DEF ReleaseAnswersOf
  <2> QED
    BY <2>1, <2>2, ReleaseAnswerFacts
<1>6. \A p \in A : AfterRelease(a[p].outcome) \in {"held", "unknown", "released"}
  BY DEF AfterRelease
<1>7. /\ Overlay(alloc[r], [p \in A |-> AfterRelease(a[p].outcome)])
           \in [Products -> AllocStatuses]
      /\ Overlay(releaseOp[r], [p \in A |-> a[p].op]) \in [Products -> Operations]
      /\ Overlay(remote[r], [p \in A |-> a[p].remote]) \in [Products -> RemoteStates]
  BY <1>3, <1>5, <1>6 DEF HonestRelease, IInv, TypeOK, Overlay, AllocStatuses
<1>8. /\ \A p \in A : /\ alloc'[r][p] = AfterRelease(a[p].outcome)
                      /\ releaseOp'[r][p] = a[p].op
                      /\ remote'[r][p] = a[p].remote
      /\ \A p \in Products \ A : /\ alloc'[r][p] = alloc[r][p]
                                 /\ releaseOp'[r][p] = releaseOp[r][p]
                                 /\ remote'[r][p] = remote[r][p]
      /\ \A q \in Reservations \ {r} : /\ alloc'[q] = alloc[q]
                                       /\ releaseOp'[q] = releaseOp[q]
                                       /\ remote'[q] = remote[q]
                                       /\ status'[q] = status[q]
  BY <1>1, <1>3 DEF IInv, TypeOK, Overlay
<1>9. Allocated(r)' = A /\ \A q \in Reservations \ {r} : Allocated(q)' = Allocated(q)
  BY <1>3, <1>6, <1>8, LinesFacts DEF Allocated
<1>10. give \in [Offers -> Nat]
  BY ShareType DEF Returned, Allocated
<1>11. TypeOK'
  <2>1. /\ status' \in [Reservations -> Statuses]
        /\ target' \in [Reservations -> Targets \cup {"none"}]
    BY <1>1 DEF IInv, TypeOK, Statuses, Stored, Targets
  <2>2. reserved' \in [Offers -> Int]
    BY <1>2, <1>10 DEF IInv, TypeOK
  <2>3. /\ alloc' \in [Reservations -> [Products -> AllocStatuses]]
        /\ releaseOp' \in [Reservations -> [Products -> Operations]]
        /\ remote' \in [Reservations -> [Products -> RemoteStates]]
    BY <1>1, <1>7 DEF IInv, TypeOK
  <2> QED
    BY <1>2, <2>1, <2>2, <2>3 DEF IInv, TypeOK
<1>12. StockWithinBounds'
  BY <1>2, <1>10 DEF IInv, TypeOK, StockWithinBounds
<1>13. OutcomeIsComplete'
  <2>1. status'[r] \in Targets \cup {"releasing"} /\ r \notin orders'
    BY <1>1, <1>2 DEF IInv, TypeOK, OutcomeIsComplete
  <2>2. status'[r] \in Targets => \A p \in A : alloc'[r][p] = "released"
    <3> SUFFICES ASSUME status'[r] \in Targets, NEW p \in A
                 PROVE  alloc'[r][p] = "released"
      OBVIOUS
    <3>1. ~Some(a, {"unknown", "unavailable"})
      BY <1>1 DEF IInv, TypeOK, Targets
    <3>2. a[p].outcome = "released"
      BY <3>1, <1>4, <1>5 DEF HonestRelease, Some, ReleaseOutcomes
    <3> QED
      BY <3>2, <1>8 DEF AfterRelease
  <2> QED
    BY <2>1, <2>2, <1>2, <1>8, <1>9 DEF IInv, OutcomeIsComplete, Targets
<1>14. OperationsAreTrue'
  <2>1. \A p \in Products :
          /\ confirmOp[r][p].status = "succeeded" => remote'[r][p] = "confirmed"
          /\ releaseOp'[r][p].status = "succeeded" => remote'[r][p] # "held"
    BY <1>5, <1>8 DEF HonestRelease, IInv, OperationsAreTrue
  <2> QED
    BY <2>1, <1>2, <1>8 DEF IInv, OperationsAreTrue
<1>15. AnswersAreTrue'
  <2>1. \A p \in A : holder[r][p] \in External =>
          /\ alloc'[r][p] = "confirmed" => remote'[r][p] = "confirmed"
          /\ alloc'[r][p] = "released" => remote'[r][p] # "held"
    <3> SUFFICES ASSUME NEW p \in A, holder[r][p] \in External
                 PROVE  /\ alloc'[r][p] = "confirmed" => remote'[r][p] = "confirmed"
                        /\ alloc'[r][p] = "released" => remote'[r][p] # "held"
      OBVIOUS
    <3>1. alloc'[r][p] # "confirmed"
      BY <1>6, <1>8
    <3>2. alloc'[r][p] = "released" => a[p].outcome = "released"
      BY <1>5, <1>8 DEF HonestRelease, AfterRelease, ReleaseOutcomes
    <3>3. alloc[r][p] = "released" \/ releaseOp[r][p].status = "succeeded" =>
            remote[r][p] # "held"
      BY <1>3 DEF IInv, AnswersAreTrue, OperationsAreTrue
    <3> QED
      BY <3>1, <3>2, <3>3, <1>5, <1>8 DEF HonestRelease
  <2> QED
    BY <2>1, <1>2, <1>8, <1>9 DEF IInv, AnswersAreTrue
<1>16. UnstoredIsBlank'
  <2>1. status'[r] \notin {"absent", "lost"}
    BY <1>1 DEF IInv, TypeOK, Targets
  <2> QED
    BY <2>1, <1>2, <1>8 DEF IInv, UnstoredIsBlank
<1> QED
  BY <1>11, <1>12, <1>13, <1>14, <1>15, <1>16 DEF IInv

-----------------------------------------------------------------------------
(* Creation *)

\* add_with_hold that succeeds: each line was granted by the stock it takes.
LEMMA CreateHeldPreserves ==
  ASSUME IInv, NEW r \in Reservations, CreateHeld(r)
  PROVE  IInv'
<1> DEFINE L == Lines(r)
<1>1. PICK h \in [L -> Providers] :
        /\ \A p \in L : HeldBy(r, p, h[p])
        /\ holder' = [holder EXCEPT ![r] = Overlay(holder[r], h)]
        /\ reserved' = [o \in Offers |-> reserved[o] + Share(r, L, h)[o]]
        /\ remote' = [remote EXCEPT ![r] =
             Overlay(remote[r], [p \in {q \in L : h[q] \in External} |-> "held"])]
  BY DEF CreateHeld
<1>2. /\ status[r] = "absent"
      /\ alloc' = [alloc EXCEPT ![r] = Overlay(alloc[r], [p \in L |-> "held"])]
      /\ status' = [status EXCEPT ![r] = "pending"]
      /\ known' = known \cup {r}
      /\ UNCHANGED <<target, confirmOp, releaseOp, on_hand, orders, by>>
  BY DEF CreateHeld
<1>3. L \subseteq Products
  BY LinesFacts
<1>4. /\ Overlay(holder[r], h) \in [Products -> Providers \cup {NoProvider}]
      /\ Overlay(alloc[r], [p \in L |-> "held"]) \in [Products -> AllocStatuses]
      /\ Overlay(remote[r], [p \in {q \in L : h[q] \in External} |-> "held"])
           \in [Products -> RemoteStates]
  BY <1>3 DEF IInv, TypeOK, Overlay, AllocStatuses, RemoteStates
<1>5. Share(r, L, h) \in [Offers -> Nat]
  BY ShareType
<1>6. TypeOK'
  <2>1. status' \in [Reservations -> Statuses]
    BY <1>2 DEF IInv, TypeOK, Statuses, Stored
  <2>2. reserved' \in [Offers -> Int]
    BY <1>1, <1>5 DEF IInv, TypeOK
  <2>3. /\ alloc' \in [Reservations -> [Products -> AllocStatuses]]
        /\ holder' \in [Reservations -> [Products -> Providers \cup {NoProvider}]]
        /\ remote' \in [Reservations -> [Products -> RemoteStates]]
    BY <1>1, <1>2, <1>4 DEF IInv, TypeOK
  <2> QED
    BY <1>2, <2>1, <2>2, <2>3 DEF IInv, TypeOK
<1>7. StockWithinBounds'
  <2> SUFFICES ASSUME NEW o \in Offers
               PROVE  0 <= reserved'[o] /\ reserved'[o] <= on_hand[o]
    BY <1>2 DEF StockWithinBounds
  <2>1. /\ on_hand[o] \in Int
        /\ reserved[o] \in Int
        /\ 0 <= reserved[o] /\ reserved[o] <= on_hand[o]
        /\ reserved'[o] = reserved[o] + Share(r, L, h)[o]
    BY <1>1 DEF IInv, TypeOK, StockWithinBounds
  <2>2. CASE o[1] \in L /\ h[o[1]] = o[2]
    <3>1. o[2] \in Internal /\ o = <<o[1], o[2]>>
      BY DEF Offers
    <3>2. Grants(r, o[1], o[2])
      BY <1>1, <2>2 DEF HeldBy
    <3>3. on_hand[o] - reserved[o] >= Quantity(r, o[1])
      BY <3>1, <3>2 DEF Grants
    <3>4. Quantity(r, o[1]) \in Nat /\ Share(r, L, h)[o] = Quantity(r, o[1])
      BY <2>2, LinesFacts DEF Share
    <3> QED
      BY <2>1, <3>3, <3>4
  <2>3. CASE ~(o[1] \in L /\ h[o[1]] = o[2])
    <3>1. Share(r, L, h)[o] = 0
      BY <2>3 DEF Share
    <3> QED
      BY <2>1, <3>1
  <2> QED
    BY <2>2, <2>3
<1>8. /\ Allocated(r)' = L
      /\ \A p \in L : alloc'[r][p] = "held"
      /\ \A p \in Products : confirmOp[r][p] = NoOperation /\ releaseOp[r][p] = NoOperation
      /\ \A q \in Reservations \ {r} : /\ Allocated(q)' = Allocated(q)
                                       /\ alloc'[q] = alloc[q]
                                       /\ holder'[q] = holder[q]
                                       /\ remote'[q] = remote[q]
                                       /\ status'[q] = status[q]
  BY <1>1, <1>2, <1>3, LinesFacts
     DEF IInv, TypeOK, UnstoredIsBlank, Overlay, Allocated
<1>9. status'[r] = "pending"
  BY <1>2 DEF IInv, TypeOK
<1>10. OutcomeIsComplete' /\ UnstoredIsBlank'
  BY <1>2, <1>8, <1>9 DEF IInv, OutcomeIsComplete, UnstoredIsBlank
<1>11. AnswersAreTrue'
  BY <1>8 DEF IInv, AnswersAreTrue
<1>12. OperationsAreTrue'
  BY <1>2, <1>8 DEF IInv, OperationsAreTrue, NoOperation
<1> QED
  BY <1>6, <1>7, <1>10, <1>11, <1>12 DEF IInv

\* add_with_hold that is refused: what the compensation leaves is accounted for.
LEMMA CreateRefusedPreserves ==
  ASSUME IInv, NEW r \in Reservations, CreateRefused(r)
  PROVE  IInv'
<1> DEFINE
      Reply(h, p) == ReleaseAnswers(h[p], "held", NoOperation,
                                    IF h[p] \in External THEN "held" ELSE "none", FALSE)
      Effect(H, h, a) ==
        /\ holder' = [holder EXCEPT ![r] = Overlay(holder[r], h)]
        /\ alloc' = [alloc EXCEPT ![r] =
             Overlay(alloc[r], [p \in H |-> AfterRelease(a[p].outcome)])]
        /\ releaseOp' = [releaseOp EXCEPT ![r] =
             Overlay(releaseOp[r], [p \in H |-> a[p].op])]
        /\ remote' = [remote EXCEPT ![r] =
             Overlay(remote[r], [p \in H |-> a[p].remote])]
        /\ IF Some(a, {"unknown", "unavailable"})
             THEN /\ status' = [status EXCEPT ![r] = "releasing"]
                  /\ target' = [target EXCEPT ![r] = "failed"]
             ELSE /\ status' = [status EXCEPT ![r] = "failed"]
                  /\ UNCHANGED target
<1>1. PICK H \in SUBSET Lines(r) : \E h \in [H -> Providers] :
        \E a \in AnswersTo(H, LAMBDA p : Reply(h, p)) : Effect(H, h, a)
  BY DEF CreateRefused
<1>2. PICK h \in [H -> Providers] :
        \E a \in AnswersTo(H, LAMBDA p : Reply(h, p)) : Effect(H, h, a)
  BY <1>1
<1>3. PICK a \in AnswersTo(H, LAMBDA p : Reply(h, p)) : Effect(H, h, a)
  BY <1>2
<1>4. /\ status[r] = "absent"
      /\ UNCHANGED <<confirmOp, on_hand, reserved, orders, known, by>>
  BY DEF CreateRefused
<1>5. H \subseteq Products
  BY LinesFacts
<1>6. NoOperation \in Operations
  BY ConfigurationAssumption DEF NoOperation, Operations, OpStatuses
<1>7. \A p \in H : HonestRelease(a[p], h[p], "held", NoOperation,
                                 IF h[p] \in External THEN "held" ELSE "none")
  <2> TAKE p \in H
  <2>1. a[p] \in ReleaseAnswers(h[p], "held", NoOperation,
                                IF h[p] \in External THEN "held" ELSE "none", FALSE)
    BY DEF AnswersTo
  <2>2. (IF h[p] \in External THEN "held" ELSE "none") \in RemoteStates
    BY DEF RemoteStates
  <2> QED
    BY <1>6, <2>1, <2>2, ReleaseAnswerFacts DEF AllocStatuses
<1>8. \A p \in H : AfterRelease(a[p].outcome) \in {"held", "unknown", "released"}
  BY DEF AfterRelease
<1>9. /\ Overlay(holder[r], h) \in [Products -> Providers \cup {NoProvider}]
      /\ Overlay(alloc[r], [p \in H |-> AfterRelease(a[p].outcome)])
           \in [Products -> AllocStatuses]
      /\ Overlay(releaseOp[r], [p \in H |-> a[p].op]) \in [Products -> Operations]
      /\ Overlay(remote[r], [p \in H |-> a[p].remote]) \in [Products -> RemoteStates]
  BY <1>5, <1>7, <1>8 DEF HonestRelease, IInv, TypeOK, Overlay, AllocStatuses
<1>10. TypeOK'
  BY <1>3, <1>4, <1>9 DEF IInv, TypeOK, Statuses, Stored, Targets
<1>11. StockWithinBounds'
  BY <1>4 DEF IInv, StockWithinBounds
<1>12. /\ \A p \in H : /\ alloc'[r][p] = AfterRelease(a[p].outcome)
                       /\ releaseOp'[r][p] = a[p].op
                       /\ remote'[r][p] = a[p].remote
                       /\ holder'[r][p] = h[p]
       /\ \A p \in Products \ H : alloc'[r][p] = "none" /\ releaseOp'[r][p] = NoOperation
       /\ \A p \in Products : confirmOp[r][p] = NoOperation
       /\ \A q \in Reservations \ {r} : /\ alloc'[q] = alloc[q]
                                        /\ releaseOp'[q] = releaseOp[q]
                                        /\ holder'[q] = holder[q]
                                        /\ remote'[q] = remote[q]
                                        /\ status'[q] = status[q]
  BY <1>3, <1>4, <1>5 DEF IInv, TypeOK, UnstoredIsBlank, Overlay
<1>13. Allocated(r)' = H /\ \A q \in Reservations \ {r} : Allocated(q)' = Allocated(q)
  BY <1>5, <1>8, <1>12, LinesFacts DEF Allocated
<1>14. status'[r] \in {"releasing", "failed"}
  BY <1>3 DEF IInv, TypeOK
<1>15. OutcomeIsComplete' /\ UnstoredIsBlank'
  BY <1>4, <1>12, <1>13, <1>14 DEF IInv, OutcomeIsComplete, UnstoredIsBlank
<1>16. AnswersAreTrue'
  <2>1. \A p \in H : h[p] \in External =>
          /\ alloc'[r][p] # "confirmed"
          /\ alloc'[r][p] = "released" => remote'[r][p] # "held"
    BY <1>7, <1>8, <1>12 DEF HonestRelease, AfterRelease, ReleaseOutcomes, NoOperation
  <2> QED
    BY <2>1, <1>12, <1>13 DEF IInv, AnswersAreTrue
<1>17. OperationsAreTrue'
  <2>1. \A p \in Products : /\ confirmOp[r][p].status # "succeeded"
                            /\ releaseOp'[r][p].status = "succeeded" => remote'[r][p] # "held"
    BY <1>7, <1>12 DEF HonestRelease, NoOperation
  <2> QED
    BY <2>1, <1>4, <1>12 DEF IInv, OperationsAreTrue
<1> QED
  BY <1>10, <1>11, <1>15, <1>16, <1>17 DEF IInv

-----------------------------------------------------------------------------
(* Rolled-back transactions *)

\* A create transaction that is rolled back leaves holds only at the providers.
LEMMA CreateLostPreserves ==
  ASSUME IInv, NEW r \in Reservations, CreateLost(r)
  PROVE  IInv'
<1>1. PICK S \in SUBSET {p \in Lines(r) : ReachesExternal(r, p)} :
        remote' = [remote EXCEPT ![r] = Overlay(remote[r], [p \in S |-> "held"])]
  BY DEF CreateLost
<1>2. /\ status[r] = "absent"
      /\ status' = [status EXCEPT ![r] = "lost"]
      /\ UNCHANGED <<target, alloc, holder, confirmOp, releaseOp,
                     on_hand, reserved, orders, known, by>>
  BY DEF CreateLost
<1>3. /\ Overlay(remote[r], [p \in S |-> "held"]) \in [Products -> RemoteStates]
      /\ \A q \in Reservations \ {r} : remote'[q] = remote[q] /\ status'[q] = status[q]
      /\ status'[r] = "lost"
  BY <1>1, <1>2, LinesFacts DEF IInv, TypeOK, Overlay, RemoteStates
<1>4. TypeOK'
  BY <1>1, <1>2, <1>3 DEF IInv, TypeOK, Statuses
<1>5. StockWithinBounds' /\ OutcomeIsComplete' /\ UnstoredIsBlank'
  BY <1>2, <1>3 DEF IInv, StockWithinBounds, OutcomeIsComplete, UnstoredIsBlank, Allocated
<1>6. \A p \in Products : alloc[r][p] = "none" /\ confirmOp[r][p] = NoOperation
                                               /\ releaseOp[r][p] = NoOperation
  BY <1>2 DEF IInv, UnstoredIsBlank
<1>7. AnswersAreTrue' /\ OperationsAreTrue'
  BY <1>2, <1>3, <1>6, LinesFacts
     DEF IInv, AnswersAreTrue, OperationsAreTrue, NoOperation, Allocated
<1> QED
  BY <1>4, <1>5, <1>7 DEF IInv

\* A rolled-back confirmation or release leaves only holds that moved on.
LEMMA AbortPreserves ==
  ASSUME IInv, NEW r \in Reservations, ConfirmAborts(r) \/ ReleaseAborts(r)
  PROVE  IInv'
<1>1. PICK m \in {"confirmed", "gone"}, S \in SUBSET Allocated(r) :
        /\ \A p \in S : remote[r][p] = "held"
        /\ remote' = [remote EXCEPT ![r] = Overlay(remote[r], [p \in S |-> m])]
  BY DEF ConfirmAborts, ReleaseAborts
<1>2. /\ UNCHANGED <<status, target, alloc, holder, confirmOp, releaseOp,
                     on_hand, reserved, orders, known>>
      /\ by' \in Actors
  BY DEF ConfirmAborts, ReleaseAborts, Actors
<1>3. S \subseteq Products
  BY LinesFacts
<1>4. /\ Overlay(remote[r], [p \in S |-> m]) \in [Products -> RemoteStates]
      /\ \A q \in Reservations \ {r} : remote'[q] = remote[q]
      /\ \A p \in Products :
           remote'[r][p] = remote[r][p] \/ (remote[r][p] = "held" /\ remote'[r][p] = m)
  BY <1>1, <1>3 DEF IInv, TypeOK, Overlay, RemoteStates
<1>5. TypeOK'
  BY <1>1, <1>2, <1>4 DEF IInv, TypeOK
<1>6. StockWithinBounds' /\ OutcomeIsComplete' /\ UnstoredIsBlank'
  BY <1>2 DEF IInv, StockWithinBounds, OutcomeIsComplete, UnstoredIsBlank, Allocated
<1>7. OperationsAreTrue'
  BY <1>2, <1>4 DEF IInv, OperationsAreTrue
<1>8. AnswersAreTrue'
  BY <1>2, <1>4, LinesFacts DEF IInv, AnswersAreTrue, Allocated
<1> QED
  BY <1>5, <1>6, <1>7, <1>8 DEF IInv

-----------------------------------------------------------------------------
(* The invariant *)

LEMMA InitIInv == Init => IInv
<1> SUFFICES ASSUME Init PROVE IInv
  OBVIOUS
<1>1. NoOperation \in Operations
  BY ConfigurationAssumption DEF NoOperation, Operations, OpStatuses
<1>2. TypeOK
  BY <1>1, ConfigurationAssumption
     DEF Init, TypeOK, Statuses, AllocStatuses, RemoteStates
<1>3. StockWithinBounds
  BY ConfigurationAssumption DEF Init, StockWithinBounds
<1>4. OutcomeIsComplete /\ UnstoredIsBlank
  BY DEF Init, OutcomeIsComplete, UnstoredIsBlank
<1>5. AnswersAreTrue /\ OperationsAreTrue
  BY LinesFacts DEF Init, AnswersAreTrue, OperationsAreTrue, NoOperation, Allocated
<1> QED
  BY <1>2, <1>3, <1>4, <1>5 DEF IInv

LEMMA NextIInv == IInv /\ [Next]_vars => IInv'
<1> SUFFICES ASSUME IInv, [Next]_vars PROVE IInv'
  OBVIOUS
<1>1. ASSUME NEW r \in Reservations, CreateHeld(r) \/ CreateRefused(r) \/ CreateLost(r)
      PROVE  IInv'
  BY <1>1, CreateHeldPreserves, CreateRefusedPreserves, CreateLostPreserves
<1>2. ASSUME NEW r \in Reservations, CreateAgain(r)
      PROVE  IInv'
  <2>1. /\ known' \subseteq Reservations
        /\ UNCHANGED <<status, target, alloc, holder, confirmOp, releaseOp,
                       on_hand, reserved, orders, remote, by>>
    BY <1>2 DEF CreateAgain, IInv, TypeOK
  <2> QED
    BY <2>1 DEF IInv, TypeOK, StockWithinBounds, OutcomeIsComplete, AnswersAreTrue,
                OperationsAreTrue, UnstoredIsBlank, Allocated
<1>3. ASSUME NEW r \in Reservations, Confirm(r) \/ ReconcileConfirm(r)
      PROVE  IInv'
  <2>1. /\ status[r] \in Stored /\ status[r] \notin {"confirmed", "cancelled"}
        /\ ConfirmReservation(r, FALSE) \/ ConfirmReservation(r, TRUE)
        /\ by' \in Actors
    BY <1>3 DEF Confirm, ReconcileConfirm, MayConfirm, ConfirmDue, Stored, Actors
  <2> QED
    BY <2>1, ConfirmPreserves
<1>4. ASSUME NEW r \in Reservations, ConfirmAgain(r)
      PROVE  IInv'
  <2>1. /\ orders' = orders
        /\ UNCHANGED <<status, target, alloc, holder, confirmOp, releaseOp,
                       on_hand, reserved, remote, known, by>>
    BY <1>4 DEF ConfirmAgain, IInv, OutcomeIsComplete
  <2> QED
    BY <2>1 DEF IInv, TypeOK, StockWithinBounds, OutcomeIsComplete, AnswersAreTrue,
                OperationsAreTrue, UnstoredIsBlank, Allocated
<1>5. ASSUME NEW r \in Reservations, Cancel(r) \/ Expire(r) \/ ReconcileRelease(r)
      PROVE  IInv'
  <2>1. PICK terminal \in Targets, retry \in BOOLEAN :
          /\ status[r] \in Stored /\ status[r] # "confirmed"
          /\ ReleaseReservation(r, terminal, retry)
          /\ by' \in Actors
    BY <1>5 DEF Cancel, Expire, ReconcileRelease, MayCancel, ReleaseDue, Stored, Targets, Actors
  <2> QED
    BY <2>1, ReleasePreserves
<1>6. ASSUME NEW r \in Reservations, ConfirmAborts(r) \/ ReleaseAborts(r)
      PROVE  IInv'
  BY <1>6, AbortPreserves
<1>7. ASSUME NEW o \in Offers, SetLevel(o)
      PROVE  IInv'
  <2>1. PICK n \in Levels : n >= reserved[o] /\ on_hand' = [on_hand EXCEPT ![o] = n]
    BY <1>7 DEF SetLevel
  <2>2. UNCHANGED <<status, target, alloc, holder, confirmOp, releaseOp,
                    reserved, orders, remote, known, by>>
    BY <1>7 DEF SetLevel
  <2>3. n \in Int
    BY ConfigurationAssumption
  <2>4. TypeOK' /\ StockWithinBounds'
    BY <2>1, <2>2, <2>3 DEF IInv, TypeOK, StockWithinBounds
  <2> QED
    BY <2>2, <2>4 DEF IInv, OutcomeIsComplete, AnswersAreTrue,
                      OperationsAreTrue, UnstoredIsBlank, Allocated
<1>8. ASSUME UNCHANGED vars
      PROVE  IInv'
  BY <1>8 DEF vars, IInv, TypeOK, StockWithinBounds, OutcomeIsComplete, AnswersAreTrue,
              OperationsAreTrue, UnstoredIsBlank, Allocated
<1> QED
  BY <1>1, <1>2, <1>3, <1>4, <1>5, <1>6, <1>7, <1>8 DEF Next

\* The inductive invariant holds throughout.
THEOREM Invariance == Spec => []IInv
BY InitIInv, NextIInv, PTL DEF Spec

\* Every variable keeps its type, for any number of retries.
THEOREM TypeCorrect == Spec => []TypeOK
<1>1. IInv => TypeOK
  BY DEF IInv
<1> QED
  BY <1>1, Invariance, PTL

\* No internal offer is oversold by concurrent holds, confirmations, releases
\* and operator updates.
THEOREM StockIsNeverOversold == Spec => []StockWithinBounds
<1>1. IInv => StockWithinBounds
  BY DEF IInv
<1> QED
  BY <1>1, Invariance, PTL

\* An order stands exactly for a confirmed reservation, and a confirmed,
\* cancelled or expired reservation is so in every allocated line.
THEOREM OutcomesAreComplete == Spec => []OutcomeIsComplete
<1>1. IInv => OutcomeIsComplete
  BY DEF IInv
<1> QED
  BY <1>1, Invariance, PTL

\* Confirmed and released lines are confirmed and released at their provider.
THEOREM AnswersStayTrue == Spec => []AnswersAreTrue
<1>1. IInv => AnswersAreTrue
  BY DEF IInv
<1> QED
  BY <1>1, Invariance, PTL

-----------------------------------------------------------------------------
(* Action properties *)

\* The rows of a reservation are written only by transactions on it.
LEMMA OnlyOwnTransaction ==
  ASSUME IInv, [Next]_vars, NEW r \in Reservations,
         ~ UNCHANGED <<status[r], target[r], alloc[r], holder[r],
                       confirmOp[r], releaseOp[r], remote[r]>>
  PROVE  \/ CreateHeld(r) \/ CreateRefused(r) \/ CreateLost(r)
         \/ Confirm(r) \/ Cancel(r) \/ Expire(r)
         \/ ReconcileRelease(r) \/ ReconcileConfirm(r)
         \/ ConfirmAborts(r) \/ ReleaseAborts(r)
<1> USE DEF IInv, TypeOK
<1>1. ASSUME NEW q \in Reservations \ {r},
             \/ CreateHeld(q) \/ CreateRefused(q) \/ CreateLost(q)
             \/ ConfirmAborts(q) \/ ReleaseAborts(q)
      PROVE  FALSE
  <2>1. ~ CreateHeld(q)
    BY DEF CreateHeld
  <2>2. ~ CreateRefused(q)
    BY DEF CreateRefused
  <2>3. ~ CreateLost(q)
    BY DEF CreateLost
  <2>4. ~ ConfirmAborts(q) /\ ~ ReleaseAborts(q)
    BY DEF ConfirmAborts, ReleaseAborts
  <2> QED
    BY <1>1, <2>1, <2>2, <2>3, <2>4
<1>2. ASSUME NEW q \in Reservations \ {r},
             \/ Confirm(q) \/ Cancel(q) \/ Expire(q)
             \/ ReconcileRelease(q) \/ ReconcileConfirm(q)
      PROVE  FALSE
  <2>1. CASE Confirm(q) \/ ReconcileConfirm(q)
    BY <2>1 DEF Confirm, ReconcileConfirm, ConfirmReservation, ConfirmHold
  <2>2. CASE Cancel(q) \/ Expire(q) \/ ReconcileRelease(q)
    <3>1. PICK terminal, retry : ReleaseReservation(q, terminal, retry)
      BY <2>2 DEF Cancel, Expire, ReconcileRelease
    <3>2. UNCHANGED <<alloc[r], releaseOp[r], remote[r], confirmOp, holder>>
      BY <3>1 DEF ReleaseReservation, ReleaseHold
    <3>3. UNCHANGED <<status[r], target[r]>>
      BY <3>1 DEF ReleaseReservation, ReleaseHold
    <3> QED
      BY <3>2, <3>3
  <2> QED
    BY <1>2, <2>1, <2>2
<1>3. ASSUME NEW q \in Reservations, CreateAgain(q) \/ ConfirmAgain(q)
      PROVE  FALSE
  BY <1>3 DEF CreateAgain, ConfirmAgain
<1>4. ASSUME NEW o \in Offers, SetLevel(o)
      PROVE  FALSE
  BY <1>4 DEF SetLevel
<1>5. ~ UNCHANGED vars
  BY DEF vars
<1> QED
  BY <1>1, <1>2, <1>3, <1>4, <1>5 DEF Next

\* A confirmed or cancelled reservation is never changed again.
THEOREM FinalStaysFinal == Spec => ConfirmedAndCancelledAreFinal
<1> DEFINE Final == \A r \in Reservations :
             status[r] \in {"confirmed", "cancelled"} =>
               UNCHANGED <<status[r], alloc[r], confirmOp[r], releaseOp[r], remote[r]>>
<1>1. IInv /\ [Next]_vars => [Final]_vars
  <2> SUFFICES ASSUME IInv, [Next]_vars, NEW r \in Reservations,
                      status[r] \in {"confirmed", "cancelled"},
                      ~ UNCHANGED <<status[r], alloc[r], confirmOp[r], releaseOp[r], remote[r]>>
               PROVE  FALSE
    OBVIOUS
  <2>1. ~ (CreateHeld(r) \/ CreateRefused(r) \/ CreateLost(r) \/ Confirm(r) \/ Cancel(r)
             \/ Expire(r) \/ ReconcileRelease(r) \/ ReconcileConfirm(r))
    BY DEF CreateHeld, CreateRefused, CreateLost, Confirm, MayConfirm, Cancel, MayCancel,
           Expire, ReconcileRelease, ReleaseDue, ReconcileConfirm, ConfirmDue
  <2>2. ~ (ConfirmAborts(r) \/ ReleaseAborts(r))
    BY DEF ConfirmAborts, ReleaseAborts, MayConfirm, MayCancel, ReleaseDue, ConfirmDue
  <2> QED
    BY <2>1, <2>2, OnlyOwnTransaction
<1> QED
  BY <1>1, Invariance, PTL DEF Spec, ConfirmedAndCancelledAreFinal

\* A blocked operation is not attempted, by a confirmation or by a release.
LEMMA BlockedIsLeftAlone ==
  ASSUME NEW v, NEW st, NEW op, NEW m, NEW retry, Blocked(op, retry)
  PROVE  /\ \A a \in ConfirmAnswers(v, st, op, m, retry) : a.op = op /\ a.remote = m
         /\ \A a \in ReleaseAnswers(v, st, op, m, retry) : a.op = op /\ a.remote = m
BY DEF ConfirmAnswers, ReleaseAnswers, Answer

\* What a confirming or a releasing transaction does to an unknown operation.
LEMMA ConfirmLeavesBlocked ==
  ASSUME IInv, NEW r \in Reservations, NEW p \in Products, NEW retry \in BOOLEAN,
         ConfirmReservation(r, retry), Blocked(confirmOp[r][p], retry)
  PROVE  confirmOp'[r][p] = confirmOp[r][p] /\ remote'[r][p] = remote[r][p]
<1>1. PICK a \in AnswersTo(Allocated(r), LAMBDA q : ConfirmAnswersOf(r, q, retry)) :
        /\ confirmOp' = [confirmOp EXCEPT ![r] =
             Overlay(confirmOp[r], [q \in Allocated(r) |-> a[q].op])]
        /\ remote' = [remote EXCEPT ![r] =
             Overlay(remote[r], [q \in Allocated(r) |-> a[q].remote])]
  BY DEF ConfirmReservation, ConfirmHold
<1>2. p \in Allocated(r) => a[p].op = confirmOp[r][p] /\ a[p].remote = remote[r][p]
  BY BlockedIsLeftAlone DEF AnswersTo, ConfirmAnswersOf
<1> QED
  BY <1>1, <1>2 DEF IInv, TypeOK, Overlay

LEMMA ReleaseLeavesBlocked ==
  ASSUME IInv, NEW r \in Reservations, NEW p \in Products, NEW retry \in BOOLEAN,
         NEW terminal, ReleaseReservation(r, terminal, retry), Blocked(releaseOp[r][p], retry)
  PROVE  releaseOp'[r][p] = releaseOp[r][p] /\ remote'[r][p] = remote[r][p]
<1>1. PICK a \in AnswersTo(Allocated(r), LAMBDA q : ReleaseAnswersOf(r, q, retry)) :
        /\ releaseOp' = [releaseOp EXCEPT ![r] =
             Overlay(releaseOp[r], [q \in Allocated(r) |-> a[q].op])]
        /\ remote' = [remote EXCEPT ![r] =
             Overlay(remote[r], [q \in Allocated(r) |-> a[q].remote])]
  BY DEF ReleaseReservation, ReleaseHold
<1>2. p \in Allocated(r) => a[p].op = releaseOp[r][p] /\ a[p].remote = remote[r][p]
  BY BlockedIsLeftAlone DEF AnswersTo, ReleaseAnswersOf
<1> QED
  BY <1>1, <1>2 DEF IInv, TypeOK, Overlay

\* Nor is it in a transaction that is rolled back, where a request runs it.
LEMMA AbortLeavesBlocked ==
  ASSUME IInv, NEW r \in Reservations, NEW p \in Products
  PROVE  /\ ConfirmAborts(r) /\ by' = "confirm" /\ Blocked(confirmOp[r][p], FALSE) =>
              remote'[r][p] = remote[r][p]
         /\ ReleaseAborts(r) /\ by' # "reconciliation" /\ Blocked(releaseOp[r][p], FALSE) =>
              remote'[r][p] = remote[r][p]
<1>1. ASSUME ConfirmAborts(r), by' = "confirm", Blocked(confirmOp[r][p], FALSE)
      PROVE  remote'[r][p] = remote[r][p]
  <2>1. PICK S \in SUBSET Allocated(r) :
          /\ \A q \in S : /\ remote[r][q] = "held"
                          /\ \E e \in ConfirmAnswersOf(r, q, FALSE) : e.remote = "confirmed"
          /\ remote' = [remote EXCEPT ![r] = Overlay(remote[r], [q \in S |-> "confirmed"])]
    BY <1>1 DEF ConfirmAborts
  <2>2. \A e \in ConfirmAnswersOf(r, p, FALSE) : e.remote = remote[r][p]
    BY <1>1, BlockedIsLeftAlone DEF ConfirmAnswersOf
  <2>3. p \notin S
    BY <2>1, <2>2
  <2> QED
    BY <2>1, <2>3 DEF IInv, TypeOK, Overlay
<1>2. ASSUME ReleaseAborts(r), by' # "reconciliation", Blocked(releaseOp[r][p], FALSE)
      PROVE  remote'[r][p] = remote[r][p]
  <2>1. PICK S \in SUBSET Allocated(r) :
          /\ \A q \in S : /\ remote[r][q] = "held"
                          /\ \E e \in ReleaseAnswersOf(r, q, FALSE) : e.remote = "gone"
          /\ remote' = [remote EXCEPT ![r] = Overlay(remote[r], [q \in S |-> "gone"])]
    BY <1>2 DEF ReleaseAborts
  <2>2. \A e \in ReleaseAnswersOf(r, p, FALSE) : e.remote = remote[r][p]
    BY <1>2, BlockedIsLeftAlone DEF ReleaseAnswersOf
  <2>3. p \notin S
    BY <2>1, <2>2
  <2> QED
    BY <2>1, <2>3 DEF IInv, TypeOK, Overlay
<1> QED
  BY <1>1, <1>2

\* A confirmation whose outcome is unknown is repeated by the worker only: no request
\* records an attempt at it or reaches the provider.
LEMMA UnknownConfirmIsLeft ==
  ASSUME IInv, [Next]_vars, NEW r \in Reservations, NEW p \in Products,
         confirmOp[r][p].status = "unknown"
  PROVE  /\ confirmOp'[r][p] # confirmOp[r][p] =>
              /\ by' = "reconciliation"
              /\ ConfirmDue(r) /\ confirmOp[r][p].attempts < MaxAttempts
         /\ by' = "confirm" => remote'[r][p] = remote[r][p]
<1> DEFINE Same == confirmOp'[r][p] = confirmOp[r][p] /\ remote'[r][p] = remote[r][p]
<1>1. MaxAttempts \in Nat /\ confirmOp[r][p].attempts \in Nat
  BY ConfigurationAssumption DEF IInv, TypeOK, Operations
<1>2. status[r] # "absent"
  BY DEF IInv, UnstoredIsBlank, NoOperation
<1>3. ~ (CreateHeld(r) \/ CreateRefused(r) \/ CreateLost(r))
  BY <1>2 DEF CreateHeld, CreateRefused, CreateLost
<1>4. CASE Confirm(r)
  BY <1>4, ConfirmLeavesBlocked DEF Confirm, Blocked
<1>5. CASE ReconcileConfirm(r)
  <2>1. ConfirmDue(r) /\ ConfirmReservation(r, TRUE) /\ by' = "reconciliation"
    BY <1>5 DEF ReconcileConfirm
  <2>2. Blocked(confirmOp[r][p], TRUE) => confirmOp'[r][p] = confirmOp[r][p]
    BY <2>1, ConfirmLeavesBlocked
  <2> QED
    BY <1>1, <2>1, <2>2 DEF Blocked
<1>6. CASE Cancel(r) \/ Expire(r) \/ ReconcileRelease(r)
  <2>1. confirmOp' = confirmOp /\ by' # "confirm"
    BY <1>6 DEF Cancel, Expire, ReconcileRelease, ReleaseReservation, ReleaseHold
  <2> QED
    BY <2>1
<1>7. CASE ConfirmAborts(r)
  <2>1. confirmOp' = confirmOp
    BY <1>7 DEF ConfirmAborts
  <2> QED
    BY <1>7, <2>1, AbortLeavesBlocked DEF Blocked
<1>8. CASE ReleaseAborts(r)
  <2>1. confirmOp' = confirmOp /\ by' # "confirm"
    BY <1>8 DEF ReleaseAborts
  <2> QED
    BY <2>1
<1>9. CASE UNCHANGED <<status[r], target[r], alloc[r], holder[r],
                       confirmOp[r], releaseOp[r], remote[r]>>
  BY <1>9
<1> QED
  BY <1>3, <1>4, <1>5, <1>6, <1>7, <1>8, <1>9, OnlyOwnTransaction

\* And so is a release.
LEMMA UnknownReleaseIsLeft ==
  ASSUME IInv, [Next]_vars, NEW r \in Reservations, NEW p \in Products,
         releaseOp[r][p].status = "unknown"
  PROVE  /\ releaseOp'[r][p] # releaseOp[r][p] =>
              /\ by' = "reconciliation"
              /\ ReleaseDue(r) /\ releaseOp[r][p].attempts < MaxAttempts
         /\ by' \in {"cancel", "expiry"} => remote'[r][p] = remote[r][p]
<1>1. MaxAttempts \in Nat /\ releaseOp[r][p].attempts \in Nat
  BY ConfigurationAssumption DEF IInv, TypeOK, Operations
<1>2. status[r] # "absent"
  BY DEF IInv, UnstoredIsBlank, NoOperation
<1>3. ~ (CreateHeld(r) \/ CreateRefused(r) \/ CreateLost(r))
  BY <1>2 DEF CreateHeld, CreateRefused, CreateLost
<1>4. CASE Cancel(r) \/ Expire(r)
  BY <1>4, ReleaseLeavesBlocked DEF Cancel, Expire, Blocked
<1>5. CASE ReconcileRelease(r)
  <2>1. ReleaseDue(r) /\ ReleaseReservation(r, target[r], TRUE) /\ by' = "reconciliation"
    BY <1>5 DEF ReconcileRelease
  <2>2. Blocked(releaseOp[r][p], TRUE) => releaseOp'[r][p] = releaseOp[r][p]
    BY <2>1, ReleaseLeavesBlocked
  <2> QED
    BY <1>1, <2>1, <2>2 DEF Blocked
<1>6. CASE Confirm(r) \/ ReconcileConfirm(r)
  <2>1. releaseOp' = releaseOp /\ by' \notin {"cancel", "expiry"}
    BY <1>6 DEF Confirm, ReconcileConfirm, ConfirmReservation, ConfirmHold
  <2> QED
    BY <2>1
<1>7. CASE ReleaseAborts(r)
  <2>1. releaseOp' = releaseOp
    BY <1>7 DEF ReleaseAborts
  <2> QED
    BY <1>7, <2>1, AbortLeavesBlocked DEF Blocked
<1>8. CASE ConfirmAborts(r)
  <2>1. releaseOp' = releaseOp /\ by' \notin {"cancel", "expiry"}
    BY <1>8 DEF ConfirmAborts
  <2> QED
    BY <2>1
<1>9. CASE UNCHANGED <<status[r], target[r], alloc[r], holder[r],
                       confirmOp[r], releaseOp[r], remote[r]>>
  BY <1>9
<1> QED
  BY <1>3, <1>4, <1>5, <1>6, <1>7, <1>8, <1>9, OnlyOwnTransaction

\* Requests and the expiration worker leave a call whose outcome is unknown alone; the
\* reconciliation worker repeats it below the limit.
THEOREM UnknownIsNotRepeated == Spec => UnknownIsRetriedByWorkerOnly
<1> DEFINE Left(r, p) ==
      /\ confirmOp[r][p].status = "unknown" =>
           /\ confirmOp'[r][p] # confirmOp[r][p] =>
                /\ by' = "reconciliation"
                /\ ConfirmDue(r) /\ confirmOp[r][p].attempts < MaxAttempts
           /\ by' = "confirm" => remote'[r][p] = remote[r][p]
      /\ releaseOp[r][p].status = "unknown" =>
           /\ releaseOp'[r][p] # releaseOp[r][p] =>
                /\ by' = "reconciliation"
                /\ ReleaseDue(r) /\ releaseOp[r][p].attempts < MaxAttempts
           /\ by' \in {"cancel", "expiry"} => remote'[r][p] = remote[r][p]
<1>1. IInv /\ [Next]_vars => \A r \in Reservations : \A p \in Products : Left(r, p)
  BY UnknownConfirmIsLeft, UnknownReleaseIsLeft
<1> QED
  BY <1>1, Invariance, PTL DEF Spec, UnknownIsRetriedByWorkerOnly

-----------------------------------------------------------------------------
(* What the two shared transactions do to their reservation *)

Untouched(q) ==
  /\ status'[q] = status[q] /\ target'[q] = target[q]
  /\ alloc'[q] = alloc[q] /\ holder'[q] = holder[q]

\* A confirmation confirms what is internal and takes its stock.
LEMMA ConfirmEffect ==
  ASSUME IInv, NEW r \in Reservations, NEW retry \in BOOLEAN, ConfirmReservation(r, retry)
  PROVE  /\ \A q \in Reservations \ {r} : Untouched(q)
         /\ UNCHANGED <<target, holder>>
         /\ Allocated(r)' = Allocated(r)
         /\ \A p \in Allocated(r) :
              /\ alloc'[r][p] \in {"confirmed", "failed", "unknown", "held"}
              /\ holder[r][p] \notin External => alloc'[r][p] = "confirmed"
         /\ \A p \in Products \ Allocated(r) : alloc'[r][p] = alloc[r][p]
         /\ status'[r] \in {"failed", "confirming", "confirmed"}
         /\ LET take == Share(r, Consumed(r), holder[r])
            IN /\ on_hand' = [o \in Offers |-> on_hand[o] - take[o]]
               /\ reserved' = [o \in Offers |-> reserved[o] - take[o]]
<1> DEFINE A == Allocated(r)
<1>1. PICK a \in AnswersTo(A, LAMBDA p : ConfirmAnswersOf(r, p, retry)) :
        /\ alloc' = [alloc EXCEPT ![r] =
             Overlay(alloc[r], [p \in A |-> AfterConfirm(a[p].outcome)])]
        /\ \/ status' = [status EXCEPT ![r] = "failed"]
           \/ status' = [status EXCEPT ![r] = "confirming"]
           \/ status' = [status EXCEPT ![r] = "confirmed"]
  BY DEF ConfirmReservation
<1>2. A \subseteq Products /\ DOMAIN a = A
  BY LinesFacts DEF AnswersTo
<1>3. ASSUME NEW p \in A, holder[r][p] \notin External PROVE a[p].outcome = "confirmed"
  BY <1>3 DEF AnswersTo, ConfirmAnswersOf, ConfirmAnswers, Answer
<1>4. /\ \A p \in A : alloc'[r][p] = AfterConfirm(a[p].outcome)
      /\ \A p \in Products \ A : alloc'[r][p] = alloc[r][p]
      /\ \A q \in Reservations \ {r} : alloc'[q] = alloc[q] /\ status'[q] = status[q]
      /\ status'[r] \in {"failed", "confirming", "confirmed"}
  BY <1>1, <1>2 DEF IInv, TypeOK, Overlay
<1>5. \A p \in A : /\ AfterConfirm(a[p].outcome) \in {"confirmed", "failed", "unknown", "held"}
                   /\ a[p].outcome = "confirmed" => AfterConfirm(a[p].outcome) = "confirmed"
  BY DEF AfterConfirm
<1>6. Allocated(r)' = A
  BY <1>2, <1>4, <1>5, LinesFacts DEF Allocated
<1>7. UNCHANGED <<target, holder>>
  BY DEF ConfirmReservation
<1> QED
  BY <1>3, <1>4, <1>5, <1>6, <1>7 DEF Untouched, ConfirmReservation, ConfirmHold

\* A release releases what is internal and gives its stock back.
LEMMA ReleaseEffect ==
  ASSUME IInv, NEW r \in Reservations, NEW terminal \in Targets, NEW retry \in BOOLEAN,
         ReleaseReservation(r, terminal, retry)
  PROVE  /\ \A q \in Reservations \ {r} : Untouched(q)
         /\ UNCHANGED <<holder, on_hand>>
         /\ Allocated(r)' = Allocated(r)
         /\ \A p \in Allocated(r) :
              /\ alloc'[r][p] \in {"released", "unknown", "held"}
              /\ holder[r][p] \notin External => alloc'[r][p] = "released"
         /\ \A p \in Products \ Allocated(r) : alloc'[r][p] = alloc[r][p]
         /\ \/ status'[r] = "releasing" /\ target'[r] = terminal
            \/ status'[r] = terminal /\ target'[r] = "none"
         /\ reserved' = [o \in Offers |-> reserved[o] - Share(r, Returned(r), holder[r])[o]]
<1> DEFINE A == Allocated(r)
<1>1. PICK a \in AnswersTo(A, LAMBDA p : ReleaseAnswersOf(r, p, retry)) :
        /\ alloc' = [alloc EXCEPT ![r] =
             Overlay(alloc[r], [p \in A |-> AfterRelease(a[p].outcome)])]
        /\ \/ /\ status' = [status EXCEPT ![r] = "releasing"]
              /\ target' = [target EXCEPT ![r] = terminal]
           \/ /\ status' = [status EXCEPT ![r] = terminal]
              /\ target' = [target EXCEPT ![r] = "none"]
  BY DEF ReleaseReservation
<1>2. A \subseteq Products /\ DOMAIN a = A
  BY LinesFacts DEF AnswersTo
<1>3. ASSUME NEW p \in A, holder[r][p] \notin External PROVE a[p].outcome = "released"
  BY <1>3 DEF AnswersTo, ReleaseAnswersOf, ReleaseAnswers, Answer
<1>4. /\ \A p \in A : alloc'[r][p] = AfterRelease(a[p].outcome)
      /\ \A p \in Products \ A : alloc'[r][p] = alloc[r][p]
      /\ \A q \in Reservations \ {r} :
           alloc'[q] = alloc[q] /\ status'[q] = status[q] /\ target'[q] = target[q]
      /\ \/ status'[r] = "releasing" /\ target'[r] = terminal
         \/ status'[r] = terminal /\ target'[r] = "none"
  BY <1>1, <1>2 DEF IInv, TypeOK, Overlay
<1>5. \A p \in A : /\ AfterRelease(a[p].outcome) \in {"released", "unknown", "held"}
                   /\ a[p].outcome = "released" => AfterRelease(a[p].outcome) = "released"
  BY DEF AfterRelease
<1>6. Allocated(r)' = A
  BY <1>2, <1>4, <1>5, LinesFacts DEF Allocated
<1>7. UNCHANGED holder
  BY DEF ReleaseReservation
<1> QED
  BY <1>3, <1>4, <1>5, <1>6, <1>7 DEF Untouched, ReleaseReservation, ReleaseHold

\* A create that holds has every line held by the provider that granted it.
LEMMA CreateHeldEffect ==
  ASSUME IInv, NEW r \in Reservations, CreateHeld(r)
  PROVE  /\ \A q \in Reservations \ {r} : Untouched(q)
         /\ UNCHANGED <<target, on_hand>>
         /\ Allocated(r) = {} /\ Allocated(r)' = Lines(r)
         /\ \A p \in Lines(r) : alloc'[r][p] = "held" /\ holder'[r][p] \in Providers
         /\ \A p \in Products : alloc'[r][p] # "confirmed"
         /\ status[r] = "absent" /\ status'[r] = "pending"
         /\ reserved' = [o \in Offers |-> reserved[o] + Share(r, Lines(r), holder'[r])[o]]
<1>1. PICK h \in [Lines(r) -> Providers] :
        /\ holder' = [holder EXCEPT ![r] = Overlay(holder[r], h)]
        /\ reserved' = [o \in Offers |-> reserved[o] + Share(r, Lines(r), h)[o]]
  BY DEF CreateHeld
<1>2. /\ status[r] = "absent"
      /\ alloc' = [alloc EXCEPT ![r] = Overlay(alloc[r], [p \in Lines(r) |-> "held"])]
      /\ status' = [status EXCEPT ![r] = "pending"]
      /\ UNCHANGED <<target, on_hand>>
  BY DEF CreateHeld
<1>3. Lines(r) \subseteq Products
  BY LinesFacts
<1>4. /\ \A p \in Lines(r) : alloc'[r][p] = "held" /\ holder'[r][p] = h[p]
      /\ \A p \in Products \ Lines(r) : alloc'[r][p] = alloc[r][p]
      /\ \A q \in Reservations \ {r} : Untouched(q)
      /\ status'[r] = "pending"
  BY <1>1, <1>2, <1>3 DEF IInv, TypeOK, Overlay, Untouched
<1>5. /\ Allocated(r) = {} /\ Allocated(r)' = Lines(r)
      /\ \A p \in Products : alloc[r][p] = "none"
  BY <1>2, <1>3, <1>4 DEF IInv, UnstoredIsBlank, Allocated
<1>6. \A o \in Offers : Share(r, Lines(r), h)[o] = Share(r, Lines(r), holder'[r])[o]
  BY <1>4 DEF Share
<1> QED
  BY <1>1, <1>2, <1>4, <1>5, <1>6

\* A refused create has released what is internal, and claims no stock.
LEMMA CreateRefusedEffect ==
  ASSUME IInv, NEW r \in Reservations, CreateRefused(r)
  PROVE  /\ \A q \in Reservations \ {r} : Untouched(q)
         /\ UNCHANGED <<reserved, on_hand>>
         /\ Allocated(r) = {}
         /\ \A p \in Allocated(r)' :
              /\ holder'[r][p] \in Providers
              /\ holder'[r][p] \notin External => alloc'[r][p] = "released"
         /\ \A p \in Products : alloc'[r][p] # "confirmed"
         /\ status[r] = "absent"
         /\ \/ status'[r] = "failed" /\ target'[r] = target[r]
            \/ status'[r] = "releasing" /\ target'[r] = "failed"
<1> DEFINE
      Reply(h, p) == ReleaseAnswers(h[p], "held", NoOperation,
                                    IF h[p] \in External THEN "held" ELSE "none", FALSE)
      Effect(H, h, a) ==
        /\ holder' = [holder EXCEPT ![r] = Overlay(holder[r], h)]
        /\ alloc' = [alloc EXCEPT ![r] =
             Overlay(alloc[r], [p \in H |-> AfterRelease(a[p].outcome)])]
        /\ releaseOp' = [releaseOp EXCEPT ![r] =
             Overlay(releaseOp[r], [p \in H |-> a[p].op])]
        /\ remote' = [remote EXCEPT ![r] =
             Overlay(remote[r], [p \in H |-> a[p].remote])]
        /\ IF Some(a, {"unknown", "unavailable"})
             THEN /\ status' = [status EXCEPT ![r] = "releasing"]
                  /\ target' = [target EXCEPT ![r] = "failed"]
             ELSE /\ status' = [status EXCEPT ![r] = "failed"]
                  /\ UNCHANGED target
<1>1. PICK H \in SUBSET Lines(r) : \E h \in [H -> Providers] :
        \E a \in AnswersTo(H, LAMBDA p : Reply(h, p)) : Effect(H, h, a)
  BY DEF CreateRefused
<1>2. PICK h \in [H -> Providers] :
        \E a \in AnswersTo(H, LAMBDA p : Reply(h, p)) : Effect(H, h, a)
  BY <1>1
<1>3. PICK a \in AnswersTo(H, LAMBDA p : Reply(h, p)) : Effect(H, h, a)
  BY <1>2
<1>4. status[r] = "absent" /\ UNCHANGED <<on_hand, reserved>>
  BY DEF CreateRefused
<1>5. H \subseteq Products
  BY LinesFacts
<1>6. ASSUME NEW p \in H, h[p] \notin External
      PROVE  AfterRelease(a[p].outcome) = "released"
  <2>1. PICK m : a[p] \in ReleaseAnswers(h[p], "held", NoOperation, m, FALSE)
    BY DEF AnswersTo
  <2> HIDE DEF Effect, Reply
  <2>2. a[p] = Answer("released", NoOperation, m)
    BY <1>6, <2>1 DEF ReleaseAnswers
  <2> QED
    BY <2>2 DEF Answer, AfterRelease
<1>7. /\ \A p \in H : alloc'[r][p] = AfterRelease(a[p].outcome) /\ holder'[r][p] = h[p]
      /\ \A p \in Products \ H : alloc'[r][p] = "none"
      /\ \A q \in Reservations \ {r} : Untouched(q)
      /\ \/ status'[r] = "failed" /\ target'[r] = target[r]
         \/ status'[r] = "releasing" /\ target'[r] = "failed"
  BY <1>3, <1>4, <1>5 DEF IInv, TypeOK, UnstoredIsBlank, Overlay, Untouched
<1>8. \A p \in H : AfterRelease(a[p].outcome) # "confirmed"
  BY DEF AfterRelease
<1>9. Allocated(r) = {} /\ Allocated(r)' \subseteq H
  BY <1>4, <1>5, <1>7, LinesFacts DEF IInv, UnstoredIsBlank, Allocated
<1> QED
  BY <1>4, <1>6, <1>7, <1>8, <1>9

-----------------------------------------------------------------------------
(* What is consumed, and where releases end, whatever the callers do *)

\* What a confirmation that is not late starts from: held lines, or internal lines that
\* are consumed already.
OpenFits ==
  \A r \in Reservations :
    /\ status[r] = "pending" => \A p \in Allocated(r) : alloc[r][p] = "held"
    /\ status[r] = "confirming" =>
         \A p \in Allocated(r) : holder[r][p] \notin External => alloc[r][p] = "confirmed"

\* The releasing transactions, each with the status it is to end in.
LEMMA ReleasingTransactions ==
  ASSUME NEW r \in Reservations, Cancel(r) \/ Expire(r) \/ ReconcileRelease(r)
  PROVE  \E terminal \in Targets, retry \in BOOLEAN :
           /\ ReleaseReservation(r, terminal, retry)
           /\ \/ by' = "cancel" /\ terminal = "cancelled"
              \/ status[r] = "pending"
              \/ status[r] = "releasing" /\ terminal = target[r]
<1>1. CASE Cancel(r)
  BY <1>1 DEF Cancel, Targets
<1>2. CASE Expire(r)
  BY <1>2 DEF Expire, Targets
<1>3. CASE ReconcileRelease(r)
  BY <1>3 DEF ReconcileRelease, ReleaseDue
<1> QED
  BY <1>1, <1>2, <1>3

LEMMA OpenFitsStep ==
  ASSUME IInv, OpenFits, [Next]_vars
  PROVE  OpenFits'
<1> SUFFICES ASSUME NEW r \in Reservations
             PROVE  /\ status'[r] = "pending" => \A p \in Allocated(r)' : alloc'[r][p] = "held"
                    /\ status'[r] = "confirming" =>
                         \A p \in Allocated(r)' :
                           holder'[r][p] \notin External => alloc'[r][p] = "confirmed"
  BY DEF OpenFits
<1>1. CASE CreateHeld(r)
  BY <1>1, CreateHeldEffect
<1>2. CASE CreateRefused(r)
  BY <1>2, CreateRefusedEffect
<1>3. CASE CreateLost(r)
  <2>1. status'[r] = "lost"
    BY <1>3 DEF CreateLost, IInv, TypeOK
  <2> QED
    BY <2>1
<1>4. CASE Confirm(r) \/ ReconcileConfirm(r)
  <2>1. PICK retry \in BOOLEAN : ConfirmReservation(r, retry)
    BY <1>4 DEF Confirm, ReconcileConfirm
  <2> QED
    BY <2>1, ConfirmEffect
<1>5. CASE Cancel(r) \/ Expire(r) \/ ReconcileRelease(r)
  <2>1. PICK terminal \in Targets, retry \in BOOLEAN : ReleaseReservation(r, terminal, retry)
    BY <1>5, ReleasingTransactions
  <2>2. status'[r] \in Targets \cup {"releasing"}
    BY <2>1, ReleaseEffect
  <2> QED
    BY <2>2 DEF Targets
<1>6. CASE UNCHANGED <<status[r], alloc[r], holder[r]>>
  <2>1. Allocated(r)' = Allocated(r)
    BY <1>6 DEF Allocated
  <2> QED
    BY <1>6, <2>1 DEF OpenFits
<1>7. CASE ConfirmAborts(r) \/ ReleaseAborts(r)
  BY <1>6, <1>7 DEF ConfirmAborts, ReleaseAborts
<1> QED
  BY <1>1, <1>2, <1>3, <1>4, <1>5, <1>6, <1>7, OnlyOwnTransaction

LEMMA OpenFitsHolds == Spec => []OpenFits
<1>1. Init => OpenFits
  BY DEF Init, OpenFits
<1>2. IInv /\ OpenFits /\ [Next]_vars => OpenFits'
  BY OpenFitsStep
<1> QED
  BY <1>1, <1>2, Invariance, PTL DEF Spec

\* Internal stock is taken from a held line, or by a caller that confirms a reservation
\* decided otherwise (confirm refuses the cancelled ones only): never by a worker,
\* and never a second time.
THEOREM OnlyHeldIsTaken == Spec => TakenWasHeld
<1> DEFINE WasHeld(r, p) ==
             /\ holder[r][p] \in Internal
             /\ alloc[r][p] # "confirmed"
             /\ alloc'[r][p] = "confirmed"
             => \/ alloc[r][p] = "held"
                \/ by' = "confirm" /\ status[r] \notin {"pending", "confirming"}
<1>1. IInv /\ OpenFits /\ [Next]_vars => \A r \in Reservations : \A p \in Products : WasHeld(r, p)
  <2> SUFFICES ASSUME IInv, OpenFits, [Next]_vars, NEW r \in Reservations, NEW p \in Products,
                      holder[r][p] \in Internal, alloc[r][p] # "confirmed",
                      alloc'[r][p] = "confirmed"
               PROVE  \/ alloc[r][p] = "held"
                      \/ by' = "confirm" /\ status[r] \notin {"pending", "confirming"}
    OBVIOUS
  <2>1. alloc'[r] # alloc[r] /\ holder[r][p] \notin External
    BY DEF Internal
  <2>2. ~ CreateHeld(r) /\ ~ CreateRefused(r)
    BY CreateHeldEffect, CreateRefusedEffect
  <2>3. ~ CreateLost(r) /\ ~ ConfirmAborts(r) /\ ~ ReleaseAborts(r)
    BY <2>1 DEF CreateLost, ConfirmAborts, ReleaseAborts
  <2>4. ~ (Cancel(r) \/ Expire(r) \/ ReconcileRelease(r))
    <3> SUFFICES ASSUME Cancel(r) \/ Expire(r) \/ ReconcileRelease(r) PROVE FALSE
      OBVIOUS
    <3>1. PICK terminal \in Targets, retry \in BOOLEAN : ReleaseReservation(r, terminal, retry)
      BY ReleasingTransactions
    <3> QED
      BY <3>1, ReleaseEffect
  <2>5. Confirm(r) \/ ReconcileConfirm(r)
    BY <2>1, <2>2, <2>3, <2>4, OnlyOwnTransaction
  <2>6. p \in Allocated(r)
    <3>1. PICK retry \in BOOLEAN : ConfirmReservation(r, retry)
      BY <2>5 DEF Confirm, ReconcileConfirm
    <3> QED
      BY <3>1, ConfirmEffect
  <2>7. status[r] # "confirming"
    BY <2>1, <2>6 DEF OpenFits
  <2>8. Confirm(r) /\ by' = "confirm"
    BY <2>5, <2>7 DEF Confirm, ReconcileConfirm, ConfirmDue
  <2> QED
    BY <2>6, <2>7, <2>8 DEF OpenFits
<1> QED
  BY <1>1, Invariance, OpenFitsHolds, PTL DEF Spec, TakenWasHeld

\* A release ends in the status it was begun for, unless a caller cancels or confirms in
\* the meantime: neither worker changes what it was begun for.
THEOREM ReleasesReachTheirTarget == Spec => ReleaseReachesTarget
<1> DEFINE Reaches(r) ==
             status[r] = "releasing" =>
               \/ status'[r] = "releasing" /\ target'[r] = target[r]
               \/ status'[r] = target[r]
               \/ /\ by' = "cancel"
                  /\ \/ status'[r] = "cancelled"
                     \/ status'[r] = "releasing" /\ target'[r] = "cancelled"
               \/ by' = "confirm" /\ status'[r] \in {"confirmed", "confirming", "failed"}
<1>1. IInv /\ [Next]_vars => \A r \in Reservations : Reaches(r)
  <2> SUFFICES ASSUME IInv, [Next]_vars, NEW r \in Reservations, status[r] = "releasing"
               PROVE  Reaches(r)
    OBVIOUS
  <2>1. ~ (CreateHeld(r) \/ CreateRefused(r) \/ CreateLost(r) \/ ReconcileConfirm(r))
    BY DEF CreateHeld, CreateRefused, CreateLost, ReconcileConfirm, ConfirmDue
  <2>2. CASE UNCHANGED <<status[r], target[r]>>
    BY <2>2
  <2>3. CASE ConfirmAborts(r) \/ ReleaseAborts(r)
    BY <2>2, <2>3 DEF ConfirmAborts, ReleaseAborts
  <2>4. CASE Confirm(r)
    <3>1. ConfirmReservation(r, FALSE) /\ by' = "confirm"
      BY <2>4 DEF Confirm
    <3>2. status'[r] \in {"failed", "confirming", "confirmed"}
      BY <3>1, ConfirmEffect
    <3> QED
      BY <3>1, <3>2
  <2>5. CASE Cancel(r) \/ Expire(r) \/ ReconcileRelease(r)
    <3>1. PICK terminal \in Targets, retry \in BOOLEAN :
            /\ ReleaseReservation(r, terminal, retry)
            /\ (by' = "cancel" /\ terminal = "cancelled") \/ terminal = target[r]
      BY <2>5, ReleasingTransactions
    <3>2. \/ status'[r] = "releasing" /\ target'[r] = terminal
          \/ status'[r] = terminal
      BY <3>1, ReleaseEffect
    <3> QED
      BY <3>1, <3>2
  <2> QED
    BY <2>1, <2>2, <2>3, <2>4, <2>5, OnlyOwnTransaction
<1> QED
  BY <1>1, Invariance, PTL DEF Spec, ReleaseReachesTarget

-----------------------------------------------------------------------------
(* Each reservation, where callers keep to the contract *)

\* What the lines of a reservation are in each status: whole until it is over, held
\* while it is pending, and inside settled once a confirmation or release began.
Fits(r) ==
  /\ status[r] \in {"pending", "confirming", "confirmed", "cancelled", "expired"} =>
       Allocated(r) = Lines(r)
  /\ status[r] = "pending" => \A p \in Lines(r) : alloc[r][p] = "held"
  /\ status[r] = "confirming" =>
       \A p \in Lines(r) : holder[r][p] \in Internal => alloc[r][p] = "confirmed"
  /\ status[r] = "releasing" =>
       /\ target[r] \in Targets
       /\ target[r] # "failed" => Allocated(r) = Lines(r)
       /\ \A p \in Allocated(r) : holder[r][p] \in Internal => alloc[r][p] = "released"
  /\ target[r] # "none" => status[r] = "releasing"
  /\ \A p \in Allocated(r) : holder[r][p] \in Providers

\* The transactions that confirm or release, and where they start.
Confirms(r) ==
  /\ status[r] \in {"pending", "confirming"}
  /\ \E retry \in BOOLEAN : ConfirmReservation(r, retry)

Releases(r) ==
  \E terminal \in Targets, retry \in BOOLEAN :
    /\ \/ status[r] = "pending" /\ terminal # "failed"
       \/ status[r] = "releasing" /\ target[r] = terminal
    /\ ReleaseReservation(r, terminal, retry)

\* Whoever keeps to the contract confirms and releases from nowhere else.
LEMMA ContractStarts ==
  ASSUME LateCalls = FALSE, NEW r \in Reservations, Fits(r)
  PROVE  /\ Confirm(r) \/ ReconcileConfirm(r) => Confirms(r)
         /\ Cancel(r) \/ Expire(r) \/ ReconcileRelease(r) => Releases(r)
<1>1. Confirm(r) \/ ReconcileConfirm(r) => Confirms(r)
  BY DEF Confirm, MayConfirm, ReconcileConfirm, ConfirmDue, Confirms
<1>2. Cancel(r) => Releases(r)
  BY DEF Cancel, MayCancel, Releases, Fits, Targets
<1>3. Expire(r) => Releases(r)
  BY DEF Expire, Releases, Targets
<1>4. ReconcileRelease(r) => Releases(r)
  BY DEF ReconcileRelease, ReleaseDue, Releases
<1> QED
  BY <1>1, <1>2, <1>3, <1>4

\* The steps that leave every line and status of a reservation as they are.
Idle ==
  /\ UNCHANGED <<alloc, holder, target>>
  /\ \A r \in Reservations :
       status'[r] = status[r] \/ (status[r] = "absent" /\ status'[r] = "lost")

LEMMA ContractSteps ==
  ASSUME LateCalls = FALSE, IInv, \A r \in Reservations : Fits(r), [Next]_vars
  PROVE  \/ \E r \in Reservations :
              CreateHeld(r) \/ CreateRefused(r) \/ Confirms(r) \/ Releases(r)
         \/ Idle /\ UNCHANGED <<on_hand, reserved>>
         \/ Idle /\ Levels # {} /\ UNCHANGED reserved
<1>1. ASSUME NEW r \in Reservations,
             CreateLost(r) \/ CreateAgain(r) \/ ConfirmAgain(r) \/ ConfirmAborts(r) \/ ReleaseAborts(r)
      PROVE  Idle /\ UNCHANGED <<on_hand, reserved>>
  BY <1>1 DEF CreateLost, CreateAgain, ConfirmAgain, ConfirmAborts, ReleaseAborts, Idle,
              IInv, TypeOK
<1>2. ASSUME NEW o \in Offers, SetLevel(o)
      PROVE  Idle /\ Levels # {} /\ UNCHANGED reserved
  BY <1>2 DEF SetLevel, Idle
<1>3. CASE UNCHANGED vars
  BY <1>3 DEF vars, Idle
<1> QED
  BY <1>1, <1>2, <1>3, ContractStarts DEF Next

LEMMA UntouchedFits ==
  ASSUME NEW q \in Reservations, Fits(q), Untouched(q)
  PROVE  Fits(q)' /\ Allocated(q)' = Allocated(q)
BY DEF Fits, Untouched, Allocated

LEMMA FitsStep ==
  ASSUME LateCalls = FALSE, IInv, \A r \in Reservations : Fits(r), [Next]_vars
  PROVE  \A r \in Reservations : Fits(r)'
<1>1. ASSUME NEW r \in Reservations, CreateHeld(r) PROVE \A q \in Reservations : Fits(q)'
  <2>1. Fits(r)'
    BY <1>1, CreateHeldEffect DEF Fits
  <2> QED
    BY <1>1, <2>1, CreateHeldEffect, UntouchedFits
<1>2. ASSUME NEW r \in Reservations, CreateRefused(r) PROVE \A q \in Reservations : Fits(q)'
  <2>1. Fits(r)'
    BY <1>2, CreateRefusedEffect DEF Fits, Targets, Internal
  <2> QED
    BY <1>2, <2>1, CreateRefusedEffect, UntouchedFits
<1>3. ASSUME NEW r \in Reservations, Confirms(r) PROVE \A q \in Reservations : Fits(q)'
  <2>1. Fits(r)'
    BY <1>3, ConfirmEffect DEF Confirms, Fits, Internal
  <2> QED
    BY <1>3, <2>1, ConfirmEffect, UntouchedFits DEF Confirms
<1>4. ASSUME NEW r \in Reservations, Releases(r) PROVE \A q \in Reservations : Fits(q)'
  <2>1. PICK terminal \in Targets, retry \in BOOLEAN :
          /\ \/ status[r] = "pending" /\ terminal # "failed"
             \/ status[r] = "releasing" /\ target[r] = terminal
          /\ ReleaseReservation(r, terminal, retry)
    BY <1>4 DEF Releases
  <2>2. Fits(r)'
    BY <2>1, ReleaseEffect DEF Fits, Internal, Targets
  <2> QED
    BY <2>1, <2>2, ReleaseEffect, UntouchedFits
<1>5. CASE Idle
  BY <1>5 DEF Idle, Fits, Allocated
<1> QED
  BY <1>1, <1>2, <1>3, <1>4, <1>5, ContractSteps

-----------------------------------------------------------------------------
(* What the claims on an offer add up to *)

Wanted(o) == [r \in Reservations |-> Quantity(r, o[1])]

LEMMA QuantityIsSum ==
  ASSUME NEW S \in SUBSET Reservations, IsFiniteSet(S), NEW o
  PROVE  QuantityOf(S, o) = Sum(Wanted(o), S)
<1> DEFINE Folds(g) == g = [s \in SUBSET S |->
             IF s = {} THEN 0 ELSE Quantity(Pick(s), o[1]) + g[s \ {Pick(s)}]]
           iter == CHOOSE g : Folds(g)
<1>1. QuantityOf(S, o) = iter[S]
  BY DEF QuantityOf, MapThenSumSet, MapThenFoldSet, Pick
<1>2. \A s \in SUBSET S : s # {} => Wanted(o)[Pick(s)] = Quantity(Pick(s), o[1])
  BY DEF Wanted, Pick
<1>3. ASSUME NEW g PROVE Folds(g) <=> Adds(g, Wanted(o), S)
  <2>1. \A s \in SUBSET S :
          (IF s = {} THEN 0 ELSE Quantity(Pick(s), o[1]) + g[s \ {Pick(s)}])
        = (IF s = {} THEN 0 ELSE Wanted(o)[Pick(s)] + g[s \ {Pick(s)}])
    BY <1>2
  <2> QED
    BY <2>1 DEF Adds
<1>4. Folds(iter)
  <2>1. \E g : Folds(g)
    BY <1>3, AddsExists
  <2> HIDE DEF Folds
  <2> QED
    BY <2>1
<1> HIDE DEF iter, Folds
<1>5. Adds(iter, Wanted(o), S)
  BY <1>3, <1>4
<1> QED
  BY <1>1, <1>5, SumIs

\* What r brings to the claims in this state.
Part(r, o, st) == IF r \in Claims(o, st) THEN Quantity(r, o[1]) ELSE 0

\* A transaction on r changes what is claimed by what r brings.
LEMMA ClaimedStep ==
  ASSUME NEW r \in Reservations, \A q \in Reservations \ {r} : Untouched(q),
         NEW o, NEW st, IsFiniteSet(Claims(o, st))
  PROVE  /\ IsFiniteSet(Claims(o, st)')
         /\ Claimed(o, st) \in Int /\ Part(r, o, st) \in Int /\ Part(r, o, st)' \in Int
         /\ Claimed(o, st)' = Claimed(o, st) - Part(r, o, st) + Part(r, o, st)'
<1> DEFINE S == Claims(o, st)
           T == Claims(o, st)'
<1>1. S \subseteq Reservations /\ T \subseteq Reservations
  BY DEF Claims
<1>2. \A q \in Reservations \ {r} : Allocated(q)' = Allocated(q)
  BY DEF Untouched, Allocated
<1>3. S \ {r} = T \ {r}
  BY <1>2 DEF Untouched, Claims
<1>4. \A q \in S \cup T : Wanted(o)[q] \in Int
  BY <1>1, ConfigurationAssumption DEF Wanted, Claims, Allocated
<1>5. /\ Claimed(o, st) = QuantityOf(S, o)
      /\ Claimed(o, st)' = QuantityOf(T, o)
  BY DEF Claimed
<1>6. /\ Part(r, o, st) = Brings(Wanted(o), S, r)
      /\ Part(r, o, st)' = Brings(Wanted(o), T, r)
  BY DEF Part, Wanted, Brings
<1> HIDE DEF S, T
<1>7. /\ IsFiniteSet(S) /\ IsFiniteSet(T)
      /\ Sum(Wanted(o), T) = Sum(Wanted(o), S) - Brings(Wanted(o), S, r)
                                               + Brings(Wanted(o), T, r)
  BY <1>3, <1>4, SumStep DEF S
<1>8. /\ QuantityOf(S, o) = Sum(Wanted(o), S)
      /\ QuantityOf(T, o) = Sum(Wanted(o), T)
  BY <1>1, <1>7, QuantityIsSum
<1>9. Sum(Wanted(o), S) \in Int
  BY <1>4, <1>7, SumType
<1>10. Brings(Wanted(o), S, r) \in Int /\ Brings(Wanted(o), T, r) \in Int
  BY <1>4 DEF Brings
<1> QED
  BY <1>5, <1>6, <1>7, <1>8, <1>9, <1>10 DEF T

\* The books of an offer: what is reserved is held, what has left is confirmed.
Balanced(o) ==
  /\ IsFiniteSet(Claims(o, "held")) /\ IsFiniteSet(Claims(o, "confirmed"))
  /\ reserved[o] = Claimed(o, "held")
  /\ Levels = {} => on_hand[o] + Claimed(o, "confirmed") = Stock0[o]

ContractInv ==
  /\ IInv
  /\ \A r \in Reservations : Fits(r)
  /\ \A o \in Offers : Balanced(o)

\* A transaction on r keeps the books when it reserves and takes what its lines move.
LEMMA BooksKept ==
  ASSUME IInv, NEW r \in Reservations, \A q \in Reservations \ {r} : Untouched(q),
         NEW o \in Offers, Balanced(o),
         reserved'[o] = reserved[o] - Part(r, o, "held") + Part(r, o, "held")',
         Levels = {} =>
           on_hand'[o] = on_hand[o] + Part(r, o, "confirmed") - Part(r, o, "confirmed")'
  PROVE  Balanced(o)'
<1>1. /\ reserved[o] \in Int /\ on_hand[o] \in Int /\ Stock0[o] \in Int
  BY ConfigurationAssumption DEF IInv, TypeOK
<1>2. \A st \in {"held", "confirmed"} :
        /\ IsFiniteSet(Claims(o, st)')
        /\ Claimed(o, st) \in Int /\ Part(r, o, st) \in Int /\ Part(r, o, st)' \in Int
        /\ Claimed(o, st)' = Claimed(o, st) - Part(r, o, st) + Part(r, o, st)'
  BY ClaimedStep DEF Balanced
<1> QED
  BY <1>1, <1>2 DEF Balanced

\* What r brings to an offer is its share of the lines in this state.
LEMMA PartIs ==
  ASSUME NEW r \in Reservations, NEW o \in Offers, NEW st
  PROVE  Part(r, o, st) =
           IF o[1] \in Allocated(r) /\ holder[r][o[1]] = o[2] /\ alloc[r][o[1]] = st
             THEN Quantity(r, o[1]) ELSE 0
BY DEF Part, Claims

LEMMA CreateHeldBalances ==
  ASSUME IInv, NEW r \in Reservations, CreateHeld(r), NEW o \in Offers, Balanced(o)
  PROVE  Balanced(o)'
<1>1. /\ Part(r, o, "held") = 0 /\ Part(r, o, "confirmed") = 0
      /\ Part(r, o, "held")' = Share(r, Lines(r), holder'[r])[o]
      /\ Part(r, o, "confirmed")' = 0
  BY CreateHeldEffect DEF Part, Claims, Share
<1>2. Share(r, Lines(r), holder'[r])[o] \in Int /\ reserved[o] \in Int /\ on_hand[o] \in Int
  <2>1. Share(r, Lines(r), holder'[r]) \in [Offers -> Nat]
    BY ShareType
  <2> QED
    BY <2>1 DEF IInv, TypeOK
<1> QED
  BY <1>1, <1>2, CreateHeldEffect, BooksKept

LEMMA CreateRefusedBalances ==
  ASSUME IInv, NEW r \in Reservations, CreateRefused(r), NEW o \in Offers, Balanced(o)
  PROVE  Balanced(o)'
<1>1. /\ Part(r, o, "held") = 0 /\ Part(r, o, "confirmed") = 0
      /\ Part(r, o, "held")' = 0 /\ Part(r, o, "confirmed")' = 0
  BY CreateRefusedEffect DEF Part, Claims, Offers, Internal
<1>2. reserved[o] \in Int /\ on_hand[o] \in Int
  BY DEF IInv, TypeOK
<1> QED
  BY <1>1, <1>2, CreateRefusedEffect, BooksKept

\* A confirmation takes from an offer what was held there and is confirmed now.
LEMMA ConfirmBalances ==
  ASSUME IInv, NEW r \in Reservations, Fits(r), Confirms(r), NEW o \in Offers, Balanced(o)
  PROVE  Balanced(o)'
<1> DEFINE take == Share(r, Consumed(r), holder[r])
<1>1. PICK retry \in BOOLEAN : ConfirmReservation(r, retry)
  BY DEF Confirms
<1>2. /\ Allocated(r)' = Allocated(r) /\ holder' = holder
      /\ \A p \in Allocated(r) : holder[r][p] \notin External => alloc'[r][p] = "confirmed"
  BY <1>1, ConfirmEffect
<1>3. Allocated(r) = Lines(r)
  BY DEF Confirms, Fits
<1>4. \A p \in Allocated(r) : holder[r][p] = o[2] =>
        alloc[r][p] = IF status[r] = "pending" THEN "held" ELSE "confirmed"
  BY <1>3 DEF Confirms, Fits, Offers, Internal
<1>5. /\ take[o] = Part(r, o, "held")
      /\ Part(r, o, "held")' = 0
      /\ Part(r, o, "confirmed")' = Part(r, o, "confirmed") + take[o]
  <2>1. CASE o[1] \in Allocated(r) /\ holder[r][o[1]] = o[2]
    <3>1. Quantity(r, o[1]) \in Nat
      BY <2>1, LinesFacts
    <3>2. /\ take[o] = IF status[r] = "pending" THEN Quantity(r, o[1]) ELSE 0
          /\ Part(r, o, "held") = IF status[r] = "pending" THEN Quantity(r, o[1]) ELSE 0
          /\ Part(r, o, "confirmed") = IF status[r] = "pending" THEN 0 ELSE Quantity(r, o[1])
      BY <2>1, <1>4 DEF Part, Claims, Share, Consumed
    <3>3. alloc'[r][o[1]] = "confirmed"
      BY <2>1, <1>2 DEF Offers, Internal
    <3>4. Part(r, o, "held")' = 0 /\ Part(r, o, "confirmed")' = Quantity(r, o[1])
      BY <2>1, <1>2, <3>3 DEF Part, Claims
    <3> QED
      BY <3>1, <3>2, <3>4
  <2>2. CASE ~ (o[1] \in Allocated(r) /\ holder[r][o[1]] = o[2])
    BY <2>2, <1>2 DEF Part, Claims, Share, Consumed
  <2> QED
    BY <2>1, <2>2
<1>6. on_hand'[o] = on_hand[o] - take[o] /\ reserved'[o] = reserved[o] - take[o]
  BY <1>1, ConfirmEffect
<1>7. take[o] \in Int /\ Part(r, o, "confirmed") \in Int
      /\ reserved[o] \in Int /\ on_hand[o] \in Int
  <2>1. take \in [Offers -> Nat]
    BY ShareType, LinesFacts DEF Consumed
  <2>2. Part(r, o, "confirmed") \in Int
    BY LinesFacts DEF Part, Claims
  <2> HIDE DEF take
  <2> QED
    BY <2>1, <2>2 DEF IInv, TypeOK
<1> HIDE DEF take
<1>8. /\ reserved'[o] = reserved[o] - Part(r, o, "held") + Part(r, o, "held")'
      /\ on_hand'[o] = on_hand[o] + Part(r, o, "confirmed") - Part(r, o, "confirmed")'
  BY <1>5, <1>6, <1>7
<1> QED
  BY <1>1, <1>8, ConfirmEffect, BooksKept

\* A release gives an offer back what was held there.
LEMMA ReleaseBalances ==
  ASSUME IInv, NEW r \in Reservations, Fits(r), Releases(r), NEW o \in Offers, Balanced(o)
  PROVE  Balanced(o)'
<1> DEFINE give == Share(r, Returned(r), holder[r])
<1>1. PICK terminal \in Targets, retry \in BOOLEAN :
        /\ status[r] \in {"pending", "releasing"}
        /\ ReleaseReservation(r, terminal, retry)
  BY DEF Releases
<1>2. /\ Allocated(r)' = Allocated(r) /\ holder' = holder
      /\ \A p \in Allocated(r) : holder[r][p] \notin External => alloc'[r][p] = "released"
  BY <1>1, ReleaseEffect
<1>3. \A p \in Allocated(r) : holder[r][p] = o[2] =>
        alloc[r][p] = IF status[r] = "pending" THEN "held" ELSE "released"
  BY <1>1 DEF Fits, Offers, Internal
<1>4. /\ give[o] = Part(r, o, "held")
      /\ Part(r, o, "held")' = 0
      /\ Part(r, o, "confirmed") = 0 /\ Part(r, o, "confirmed")' = 0
  <2>1. CASE o[1] \in Allocated(r) /\ holder[r][o[1]] = o[2]
    <3>1. alloc'[r][o[1]] = "released"
      BY <2>1, <1>2 DEF Offers, Internal
    <3> QED
      BY <2>1, <1>2, <1>3, <3>1 DEF Part, Claims, Share, Returned
  <2>2. CASE ~ (o[1] \in Allocated(r) /\ holder[r][o[1]] = o[2])
    BY <2>2, <1>2 DEF Part, Claims, Share, Returned
  <2> QED
    BY <2>1, <2>2
<1>5. on_hand'[o] = on_hand[o] /\ reserved'[o] = reserved[o] - give[o]
  BY <1>1, ReleaseEffect
<1>6. give[o] \in Int /\ reserved[o] \in Int /\ on_hand[o] \in Int
  <2>1. give \in [Offers -> Nat]
    BY ShareType, LinesFacts DEF Returned
  <2> HIDE DEF give
  <2> QED
    BY <2>1 DEF IInv, TypeOK
<1> HIDE DEF give
<1>7. /\ reserved'[o] = reserved[o] - Part(r, o, "held") + Part(r, o, "held")'
      /\ on_hand'[o] = on_hand[o] + Part(r, o, "confirmed") - Part(r, o, "confirmed")'
  BY <1>4, <1>5, <1>6
<1> QED
  BY <1>1, <1>7, ReleaseEffect, BooksKept

LEMMA InitContractInv == Init => ContractInv
<1> SUFFICES ASSUME Init PROVE ContractInv
  OBVIOUS
<1>1. \A r \in Reservations : Fits(r)
  BY LinesFacts DEF Init, Fits, Allocated
<1>2. ASSUME NEW o \in Offers PROVE Balanced(o)
  <2>1. \A st \in {"held", "confirmed"} : Claims(o, st) = {}
    BY LinesFacts DEF Init, Claims, Allocated
  <2>2. IsFiniteSet({})
    BY FS_EmptySet
  <2>3. QuantityOf({}, o) = 0
    BY <2>2, QuantityIsSum, SumEmpty
  <2>4. \A st \in {"held", "confirmed"} : Claimed(o, st) = 0
    <3>1. \A st : Claims(o, st) = {} => QuantityOf(Claims(o, st), o) = QuantityOf({}, o)
      BY Zenon
    <3> QED
      BY <2>1, <2>3, <3>1 DEF Claimed
  <2>5. \A st \in {"held", "confirmed"} : IsFiniteSet(Claims(o, st))
    BY <2>1, <2>2, Zenon
  <2>6. reserved[o] = 0 /\ on_hand[o] = Stock0[o] /\ Stock0[o] \in Int
    BY ConfigurationAssumption DEF Init
  <2> QED
    BY <2>4, <2>5, <2>6 DEF Balanced
<1> QED
  BY <1>1, <1>2, InitIInv DEF ContractInv

LEMMA NextContractInv ==
  LateCalls = FALSE /\ ContractInv /\ [Next]_vars => ContractInv'
<1> SUFFICES ASSUME LateCalls = FALSE, ContractInv, [Next]_vars
             PROVE  ContractInv'
  OBVIOUS
<1>1. /\ IInv /\ \A r \in Reservations : Fits(r)
      /\ \A o \in Offers : Balanced(o)
  BY DEF ContractInv
<1>2. ASSUME NEW r \in Reservations,
             CreateHeld(r) \/ CreateRefused(r) \/ Confirms(r) \/ Releases(r)
      PROVE  \A o \in Offers : Balanced(o)'
  BY <1>1, <1>2, CreateHeldBalances, CreateRefusedBalances, ConfirmBalances, ReleaseBalances
<1>3. ASSUME Idle, UNCHANGED reserved, Levels = {} => UNCHANGED on_hand
      PROVE  \A o \in Offers : Balanced(o)'
  <2>1. \A o, st : Claims(o, st)' = Claims(o, st)
    BY <1>3 DEF Idle, Claims, Allocated
  <2>2. \A o, st : Claimed(o, st)' = Claimed(o, st)
    <3>1. ASSUME NEW o, NEW st PROVE Claimed(o, st)' = Claimed(o, st)
      <4>1. \A S, T : S = T => QuantityOf(S, o) = QuantityOf(T, o)
        BY Zenon
      <4> QED
        BY <2>1, <4>1 DEF Claimed
    <3> QED
      BY <3>1
  <2> QED
    BY <1>1, <1>3, <2>1, <2>2 DEF Balanced
<1> QED
  BY <1>1, <1>2, <1>3, NextIInv, FitsStep, ContractSteps DEF ContractInv

\* Callers that confirm and cancel only what is still open keep the books in balance.
THEOREM ContractInvariance ==
  ASSUME LateCalls = FALSE
  PROVE  Spec => []ContractInv
<1>1. ContractInv /\ [Next]_vars => ContractInv'
  BY NextContractInv
<1> QED
  BY InitContractInv, <1>1, PTL DEF Spec

\* The reserved column of every offer is what its held lines add up to.
THEOREM ReservedStaysHeld ==
  ASSUME LateCalls = FALSE
  PROVE  Spec => []ReservedIsHeld
<1>1. ContractInv => ReservedIsHeld
  BY DEF ContractInv, Balanced, ReservedIsHeld
<1> QED
  BY <1>1, ContractInvariance, PTL

\* Stock leaves an offer only into confirmed lines.
THEOREM StockStaysConserved ==
  ASSUME LateCalls = FALSE
  PROVE  Spec => []StockIsConserved
<1>1. ContractInv => StockIsConserved
  BY DEF ContractInv, Balanced, StockIsConserved
<1> QED
  BY <1>1, ContractInvariance, PTL

\* A create call that was refused is refused whenever it is repeated.
THEOREM RefusalsStand ==
  ASSUME LateCalls = FALSE
  PROVE  Spec => []RefusedStaysRefused
<1>1. ContractInv => RefusedStaysRefused
  BY DEF ContractInv, Fits, RefusedStaysRefused, InsufficientInventory, Stored, Targets
<1> QED
  BY <1>1, ContractInvariance, PTL
===============================================================================
