------------------------------ MODULE StockRows ------------------------------
(***************************************************************************)
(* The stock rows (product_offers) at the grain of SQL statements, under   *)
(* the transactions that write them: a reservation that is created         *)
(* (try_hold, observe_availability), requests and workers that settle      *)
(* reservations (confirm_hold, release_hold), and operators that set or    *)
(* remove a level (InventoryManagementRepository).                         *)
(*                                                                         *)
(* PostgreSQL (READ COMMITTED) is modelled by what these statements rely   *)
(* on: an UPDATE or DELETE passes over a row whose committed version fails *)
(* its WHERE; a row that it is to write it locks until the end of the      *)
(* transaction, waiting for another that has it locked and testing the     *)
(* WHERE anew; INSERT .. ON CONFLICT DO UPDATE locks the row it conflicts  *)
(* with whether or not its WHERE holds; of transactions that wait in a     *)
(* circle one is aborted.                                                  *)
(*                                                                         *)
(* The routing of a line over several offers is in Checkout, the calls on  *)
(* external providers in WorkerBatches: here a line has one offer.         *)
(***************************************************************************)
EXTENDS Integers, SequencesExt

CONSTANTS
  Internal,      \* product offers of internal providers
  Observed,      \* and of external providers that report their availability
  Reservations,  \* each created by a transaction of the same name
  LinesOf,       \* per reservation, its lines in the caller's order: offer, quantity
  Settlers,      \* requests and workers that confirm or release what is held
  BatchSize,     \* of the expiration worker
  Operators,     \* requests to set or remove a level
  RequestsOf,    \* and what each may ask for
  Stock0,        \* initial on_hand per offer
  Levels,        \* on_hand as set by operators, and availability as observed
  NoTx,
  MaxBreaks      \* bound on the transactions that break off

Offers == Internal \cup Observed
Transactions == Reservations \cup Settlers \cup Operators
Requests == [way : {"set"}, offer : Offers, level : Levels]
            \cup [way : {"remove"}, offer : Offers]

ASSUME StockAssumption ==
  /\ Internal \cap Observed = {}
  /\ IsFiniteSet(Offers) /\ IsFiniteSet(Reservations)
  /\ Reservations \cap Settlers = {} /\ Settlers \cap Operators = {}
  /\ Reservations \cap Operators = {}
  /\ NoTx \notin Transactions
  /\ LinesOf \in [Reservations -> Seq([offer : Offers, quantity : Nat \ {0}])]
  /\ \A r \in Reservations : \A i, j \in DOMAIN LinesOf[r] :
       i # j => LinesOf[r][i].offer # LinesOf[r][j].offer
  /\ RequestsOf \in [Operators -> SUBSET Requests]
  /\ BatchSize \in Nat \ {0}
  /\ Stock0 \in [Offers -> Nat]
  /\ Levels \subseteq Nat
  /\ MaxBreaks \in Nat

VARIABLES
  row,       \* product_offers as committed
  draft,     \* as the open transactions have written it
  lock,      \* the transaction that has the row locked
  outcome,   \* reservations.status as committed: none, held, refused, failed (rolled
             \*   back), confirmed, released
  phase,     \* what each transaction is at
  left,      \* the lines it has still to write
  claimed,   \* the reservations that a settler keeps locked
  request,   \* of each operator
  answer,    \* that it got
  breaks

vars == <<row, draft, lock, outcome, phase, left, claimed, request, answer, breaks>>

NoRow == [present |-> FALSE, on_hand |-> 0, reserved |-> 0]
Row(n, m) == [present |-> TRUE, on_hand |-> n, reserved |-> m]

Init ==
  /\ row = [o \in Offers |-> Row(Stock0[o], 0)]
  /\ draft = row
  /\ lock = [o \in Offers |-> NoTx]
  /\ outcome = [r \in Reservations |-> "none"]
  /\ phase = [t \in Transactions |-> IF t \in Operators THEN "ask" ELSE "idle"]
  /\ left = [t \in Transactions |-> <<>>]
  /\ claimed = [w \in Settlers |-> {}]
  /\ request \in {f \in [Operators -> Requests] : \A a \in Operators : f[a] \in RequestsOf[a]}
  /\ answer = [a \in Operators |-> "none"]
  /\ breaks = 0

Line(r, i) == [of |-> r, offer |-> LinesOf[r][i].offer, quantity |-> LinesOf[r][i].quantity]
Lines(r) == {Line(r, i) : i \in DOMAIN LinesOf[r]}

-----------------------------------------------------------------------------
(* The statements: the WHERE and the SET of each *)

Fits(v, n) == v.present /\ v.on_hand - v.reserved >= n
Hold(v, n) == Row(v.on_hand, v.reserved + n)

Confirmable(v, n) == v.present /\ v.on_hand >= n /\ v.reserved >= n
Confirm(v, n) == Row(v.on_hand - n, v.reserved - n)

\* Faulty variant of Releasable: the test of a hold.
ReleasableIfFree(v, n) == v.present /\ v.on_hand - v.reserved >= n

Releasable(v, n) == v.present /\ v.reserved >= n
Release(v, n) == Row(v.on_hand, v.reserved - n)

\* Faulty variant of Free: a row is locked by no one.
FreeForAll(t, o) == TRUE

Free(t, o) == lock[o] \in {t, NoTx}

\* The version of the row that a statement of t tests.
Seen(t, o) == IF Free(t, o) THEN draft[o] ELSE row[o]

Write(t, o, v) ==
  /\ draft' = [draft EXCEPT ![o] = v]
  /\ lock' = [lock EXCEPT ![o] = t]

-----------------------------------------------------------------------------
(* The end of a transaction *)

Written(t) == {o \in Offers : lock[o] = t}

CommitRows(t) ==
  /\ row' = [o \in Offers |-> IF o \in Written(t) THEN draft[o] ELSE row[o]]
  /\ lock' = [o \in Offers |-> IF o \in Written(t) THEN NoTx ELSE lock[o]]
  /\ UNCHANGED draft

\* Faulty variant of Rollback: what has been written stays.
RollbackLocks(t) ==
  /\ lock' = [o \in Offers |-> IF o \in Written(t) THEN NoTx ELSE lock[o]]
  /\ UNCHANGED <<row, draft>>

Rollback(t) ==
  /\ draft' = [o \in Offers |-> IF o \in Written(t) THEN row[o] ELSE draft[o]]
  /\ lock' = [o \in Offers |-> IF o \in Written(t) THEN NoTx ELSE lock[o]]
  /\ UNCHANGED row

\* A settler's reservations are free again, and can be claimed anew.
Ends(t) ==
  /\ phase' = [phase EXCEPT ![t] = IF t \in Settlers THEN "idle" ELSE "done"]
  /\ left' = [left EXCEPT ![t] = <<>>]
  /\ claimed' = [w \in Settlers |-> IF w = t THEN {} ELSE claimed[w]]

\* The caller is told of an error; a settler's reservations stay held.
Fail(t) ==
  /\ Rollback(t)
  /\ Ends(t)
  /\ outcome' = [r \in Reservations |-> IF r = t THEN "failed" ELSE outcome[r]]
  /\ answer' = [a \in Operators |-> IF a = t THEN "error" ELSE answer[a]]
  /\ UNCHANGED request

GoesOn(t) == left' = [left EXCEPT ![t] = Tail(@)]

-----------------------------------------------------------------------------
(* Create: add_with_hold *)

Begin(r) ==
  /\ outcome[r] = "none" /\ phase[r] = "idle"
  /\ phase' = [phase EXCEPT ![r] = "hold"]
  /\ left' = [left EXCEPT ![r] = [i \in DOMAIN LinesOf[r] |-> Line(r, i)]]
  /\ UNCHANGED <<row, draft, lock, outcome, claimed, request, answer, breaks>>

\* No offer is left for a line: the other lines are given back.
Refuse(r) ==
  /\ phase' = [phase EXCEPT ![r] = "undo"]
  /\ \E s \in SetToSeqs({l \in Lines(r) \ ToSet(left[r]) : l.offer \in Internal}) :
       left' = [left EXCEPT ![r] = s]

HoldLine(r) ==
  /\ phase[r] = "hold" /\ left[r] # <<>>
  /\ LET l == Head(left[r])
         v == Seen(r, l.offer)
     IN /\ l.offer \in Internal
        /\ \/ /\ Fits(v, l.quantity) /\ Free(r, l.offer)
              /\ Write(r, l.offer, Hold(v, l.quantity))
              /\ GoesOn(r)
              /\ UNCHANGED phase
           \/ /\ ~Fits(v, l.quantity)
              /\ Refuse(r)
              /\ UNCHANGED <<draft, lock>>
  /\ UNCHANGED <<row, outcome, claimed, request, answer, breaks>>

\* The availability an external provider has answered is written, whatever has been
\* observed or set since, and stays locked during the hold that the provider makes
\* or refuses.
ObserveLine(r) ==
  /\ phase[r] = "hold" /\ left[r] # <<>>
  /\ LET l == Head(left[r])
         v == Seen(r, l.offer)
     IN /\ l.offer \in Observed
        /\ \/ v.present /\ Free(r, l.offer)
              /\ \E n \in Levels :
                   Write(r, l.offer, Row(IF n > v.reserved THEN n ELSE v.reserved, v.reserved))
           \/ ~v.present /\ UNCHANGED <<draft, lock>>
        /\ \/ GoesOn(r) /\ UNCHANGED phase
           \/ Refuse(r)
  /\ UNCHANGED <<row, outcome, claimed, request, answer, breaks>>

CommitCreate(r) ==
  /\ phase[r] \in {"hold", "undo"} /\ left[r] = <<>>
  /\ outcome' = [outcome EXCEPT ![r] = IF phase[r] = "hold" THEN "held" ELSE "refused"]
  /\ CommitRows(r)
  /\ Ends(r)
  /\ UNCHANGED <<request, answer, breaks>>

-----------------------------------------------------------------------------
(* Settle: _confirm_reservation, _release_reservation *)

Locked == UNION {claimed[w] : w \in Settlers}
Held == {r \in Reservations : outcome[r] = "held"}

\* The reservations of a batch one after the other, the lines of each as the query
\* without an order returns them.
Orders(S) ==
  {s \in SetToSeqs({l \in UNION {Lines(r) : r \in S} : l.offer \in Internal}) :
     \A i, j, k \in DOMAIN s : i < j /\ j < k /\ s[i].of = s[k].of => s[j].of = s[i].of}

Claim(w) ==
  /\ phase[w] = "idle"
  /\ \E S \in (SUBSET (Held \ Locked)) \ {{}}, way \in {"confirm", "release"} :
       /\ Cardinality(S) <= IF way = "confirm" THEN 1 ELSE BatchSize
       /\ \E s \in Orders(S) : left' = [left EXCEPT ![w] = s]
       /\ claimed' = [claimed EXCEPT ![w] = S]
       /\ phase' = [phase EXCEPT ![w] = way]
  /\ UNCHANGED <<row, draft, lock, outcome, request, answer, breaks>>

\* No row: _InventoryConfirmationError, _InventoryReleaseError
SettleLine(t) ==
  /\ phase[t] \in {"confirm", "release", "undo"} /\ left[t] # <<>>
  /\ LET l == Head(left[t])
         v == Seen(t, l.offer)
         found == IF phase[t] = "confirm" THEN Confirmable(v, l.quantity)
                                          ELSE Releasable(v, l.quantity)
     IN \/ /\ found /\ Free(t, l.offer)
           /\ Write(t, l.offer, IF phase[t] = "confirm" THEN Confirm(v, l.quantity)
                                                       ELSE Release(v, l.quantity))
           /\ GoesOn(t)
           /\ UNCHANGED <<row, outcome, phase, claimed, request, answer>>
        \/ ~found /\ Fail(t)
  /\ UNCHANGED breaks

CommitSettled(w) ==
  /\ phase[w] \in {"confirm", "release"} /\ left[w] = <<>>
  /\ outcome' = [r \in Reservations |->
       IF r \notin claimed[w] THEN outcome[r]
       ELSE IF phase[w] = "confirm" THEN "confirmed" ELSE "released"]
  /\ CommitRows(w)
  /\ Ends(w)
  /\ UNCHANGED <<request, answer, breaks>>

-----------------------------------------------------------------------------
(* Operators: set_level, remove_level *)

\* Products and providers are never deleted, so that what the service finds of them in
\* transactions of their own stays so.

\* Faulty variant of Upsert: what is above the new level is lowered all the same.
UpsertAny(a) ==
  LET o == request[a].offer
      v == draft[o]
      n == request[a].level
  IN /\ phase[a] = "ask" /\ request[a].way = "set"
     /\ Free(a, o)
     /\ Write(a, o, Row(n, v.reserved))
     /\ answer' = [answer EXCEPT ![a] = "set"]
     /\ phase' = [phase EXCEPT ![a] = "commit"]
     /\ UNCHANGED <<row, outcome, left, claimed, request, breaks>>

\* Faulty variant of Upsert: a row that is not updated is not locked.
UpsertUnlocked(a) ==
  LET o == request[a].offer
      v == draft[o]
      n == request[a].level
      changes == ~v.present \/ (v.reserved <= n /\ v.on_hand # n)
  IN /\ phase[a] = "ask" /\ request[a].way = "set"
     /\ Free(a, o)
     /\ IF changes THEN Write(a, o, Row(n, v.reserved)) ELSE UNCHANGED <<draft, lock>>
     /\ answer' = [answer EXCEPT ![a] = IF changes THEN "set" ELSE "none"]
     /\ phase' = [phase EXCEPT ![a] = IF changes THEN "commit" ELSE "read"]
     /\ UNCHANGED <<row, outcome, left, claimed, request, breaks>>

\* Inserted, updated, or left as it is and locked.
Upsert(a) ==
  LET o == request[a].offer
      v == draft[o]
      n == request[a].level
      changes == ~v.present \/ (v.reserved <= n /\ v.on_hand # n)
  IN /\ phase[a] = "ask" /\ request[a].way = "set"
     /\ Free(a, o)
     /\ Write(a, o, IF changes THEN Row(n, v.reserved) ELSE v)
     /\ answer' = [answer EXCEPT ![a] = IF changes THEN "set" ELSE "none"]
     /\ phase' = [phase EXCEPT ![a] = IF changes THEN "commit" ELSE "read"]
     /\ UNCHANGED <<row, outcome, left, claimed, request, breaks>>

\* Faulty variant of Delete: reserved is not tested.
DeleteAny(a) ==
  LET o == request[a].offer
      v == Seen(a, o)
  IN /\ phase[a] = "ask" /\ request[a].way = "remove"
     /\ \/ /\ v.present /\ Free(a, o)
           /\ Write(a, o, NoRow)
           /\ answer' = [answer EXCEPT ![a] = "removed"]
           /\ phase' = [phase EXCEPT ![a] = "commit"]
        \/ /\ ~v.present
           /\ phase' = [phase EXCEPT ![a] = "read"]
           /\ UNCHANGED <<draft, lock, answer>>
     /\ UNCHANGED <<row, outcome, left, claimed, request, breaks>>

Delete(a) ==
  LET o == request[a].offer
      v == Seen(a, o)
      found == v.present /\ v.reserved = 0
  IN /\ phase[a] = "ask" /\ request[a].way = "remove"
     /\ \/ /\ found /\ Free(a, o)
           /\ Write(a, o, NoRow)
           /\ answer' = [answer EXCEPT ![a] = "removed"]
           /\ phase' = [phase EXCEPT ![a] = "commit"]
        \/ /\ ~found
           /\ phase' = [phase EXCEPT ![a] = "read"]
           /\ UNCHANGED <<draft, lock, answer>>
     /\ UNCHANGED <<row, outcome, left, claimed, request, breaks>>

\* The SELECT after a statement that returned no row.  .one() raises where the row
\* is gone.
Reads(a) ==
  LET v == Seen(a, request[a].offer)
  IN IF request[a].way = "remove" THEN (IF v.present THEN "in use" ELSE "not found")
     ELSE IF ~v.present THEN "error"
     ELSE IF v.reserved > request[a].level THEN "below reserved"
     ELSE "set"

Read(a) ==
  /\ phase[a] = "read"
  /\ phase' = [phase EXCEPT ![a] = "commit"]
  /\ answer' = [answer EXCEPT ![a] = Reads(a)]
  /\ UNCHANGED <<row, draft, lock, outcome, left, claimed, request, breaks>>

\* An error rolls back a transaction that has written nothing.
CommitOperator(a) ==
  /\ phase[a] = "commit"
  /\ CommitRows(a)
  /\ Ends(a)
  /\ UNCHANGED <<outcome, request, answer, breaks>>

-----------------------------------------------------------------------------
(* Waiting and breaking off *)

\* The row that the next statement of t is to write, whoever has it locked.
Wants(t) ==
  CASE phase[t] \in {"hold", "confirm", "release", "undo"} /\ left[t] # <<>> ->
         LET l == Head(left[t])
             v == Seen(t, l.offer)
         IN {o \in {l.offer} :
               CASE phase[t] = "hold" -> IF o \in Internal THEN Fits(v, l.quantity)
                                                           ELSE v.present
                 [] phase[t] = "confirm" -> Confirmable(v, l.quantity)
                 [] OTHER -> Releasable(v, l.quantity)}
    [] t \in Operators /\ phase[t] = "ask" ->
         {o \in {request[t].offer} :
            request[t].way = "set" \/ (Seen(t, o).present /\ Seen(t, o).reserved = 0)}
    [] OTHER -> {}

WaitsFor(t) == {lock[o] : o \in {p \in Wants(t) : ~Free(t, p)}}

Waiting == {t \in Transactions : WaitsFor(t) # {}}

InCircle(t) ==
  \E S \in SUBSET Waiting :
    /\ t \in S
    /\ \A x \in S : /\ \E y \in S : y \in WaitsFor(x)
                    /\ \E y \in S : x \in WaitsFor(y)

Abort(t) == InCircle(t) /\ Fail(t) /\ UNCHANGED breaks

\* The process dies, or a call on an external provider raises.
Break(t) ==
  /\ phase[t] \notin {"idle", "done"}
  /\ breaks < MaxBreaks
  /\ breaks' = breaks + 1
  /\ Fail(t)

Creates(r) == Begin(r) \/ HoldLine(r) \/ ObserveLine(r) \/ SettleLine(r) \/ CommitCreate(r)
Settles(w) == Claim(w) \/ SettleLine(w) \/ CommitSettled(w)
Administers(a) == Upsert(a) \/ Delete(a) \/ Read(a) \/ CommitOperator(a)

Works(t) ==
  \/ t \in Reservations /\ Creates(t)
  \/ t \in Settlers /\ Settles(t)
  \/ t \in Operators /\ Administers(t)

Next == \E t \in Transactions : Works(t) \/ Abort(t) \/ Break(t)

Spec == Init /\ [][Next]_vars

\* A transaction that can go on goes on, and one that waits for a row gets it in the
\* end, for a row is given to those who wait for it in their order.  The expiration
\* worker comes back for what is held.
FairSpec == Spec /\ \A t \in Transactions : SF_vars(Works(t)) /\ WF_vars(Abort(t))

-----------------------------------------------------------------------------
Rows == [present : BOOLEAN, on_hand : Int, reserved : Int]

TypeOK ==
  /\ row \in [Offers -> Rows]
  /\ draft \in [Offers -> Rows]
  /\ lock \in [Offers -> Transactions \cup {NoTx}]
  /\ outcome \in [Reservations ->
       {"none", "held", "refused", "failed", "confirmed", "released"}]
  /\ phase \in [Transactions ->
       {"idle", "hold", "undo", "confirm", "release", "ask", "read", "commit", "done"}]
  /\ \A o \in Offers : lock[o] = NoTx => draft[o] = row[o]
  /\ \A w \in Settlers : claimed[w] \subseteq Held
  /\ answer \in [Operators ->
       {"none", "set", "below reserved", "removed", "not found", "in use", "error"}]
  /\ breaks \in 0 .. MaxBreaks

\* The CHECK constraints of the table never fail a statement: no hold, observation
\* or new level leaves more reserved than there is, whatever order they come in.
RowsAreSound ==
  \A o \in Offers : \A v \in {row[o], draft[o]} :
    /\ v.reserved >= 0 /\ v.reserved <= v.on_hand
    /\ ~v.present => v.reserved = 0

TakenBy == [r \in Reservations |-> [o \in Internal |->
  MapThenSumSet(LAMBDA l : l.quantity, {l \in Lines(r) : l.offer = o})]]

\* Statement by statement, the transactions come to what StockLedger does at once:
\* no stock is given away twice, lost by a circle of waits or administered away from
\* under a hold.
Ledger == INSTANCE StockLedger WITH
  level <- [o \in Offers |-> IF row[o].present THEN row[o].on_hand ELSE -1],
  outcome <- [r \in Reservations |-> IF outcome[r] = "failed" THEN "none" ELSE outcome[r]]

KeepsLedger == Ledger!Spec

\* What an operator is told is so when the transaction ends: a level that is said to
\* be set is in force, one that is refused is below what is reserved, and the SELECT
\* after the upsert finds a row.
AnswersAreTrue ==
  [][\A a \in Operators : phase[a] = "commit" /\ phase'[a] = "done" /\ answer'[a] = answer[a] =>
       LET o == request[a].offer
       IN CASE answer[a] = "set"            -> row'[o].present
                                               /\ row'[o].on_hand = request[a].level
            [] answer[a] = "below reserved" -> row[o].reserved > request[a].level
            [] answer[a] = "removed"        -> ~row'[o].present
            [] OTHER                        -> answer[a] # "error"]_vars

\* Everything that is begun comes to an end and what is held is settled, through the
\* circles of waits that the order of the lines leads into.
AllIsSettled ==
  <>[](/\ Held = {}
       /\ \A t \in Transactions : phase[t] = IF t \in Settlers THEN "idle" ELSE "done")
=============================================================================
