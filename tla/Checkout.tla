------------------------------- MODULE Checkout -------------------------------
(***************************************************************************)
(* The create transaction at the grain of its statements and calls:        *)
(* ReservationService.create, add_with_hold, try_hold_selected and         *)
(* ProviderRouter.hold, over stock rows and an idempotency key for which   *)
(* calls wait, and external providers that answer or do not.               *)
(*                                                                         *)
(* PostgreSQL (READ COMMITTED) is modelled by what these statements rely   *)
(* on: an UPDATE finds its row by the committed value, waits for another   *)
(* transaction that has changed it and tests it anew; an INSERT waits for  *)
(* one with the same key; of transactions that wait in a circle one is     *)
(* aborted.                                                                *)
(***************************************************************************)
EXTENDS Integers, Sequences, FiniteSetsExt

CONSTANTS
  Calls, NoCall,
  KeyOf,
  ItemsOf,     \* per call, in the caller's order: records of product, selected, quantity
  Providers, NoProvider,
  External,
  Checked,     \* the external providers asked for their availability first
  RouteOf,     \* per product and selected provider, the candidates in order
  Stock        \* per product and provider: on_hand of an internal offer, and what an
               \*   external provider has to hold

Internal == Providers \ External
Offers == DOMAIN Stock
Items(c) == 1 .. Len(ItemsOf[c])
PrintOf == [c \in Calls |-> {ItemsOf[c][i] : i \in Items(c)}]
Keys == {KeyOf[c] : c \in Calls}

ASSUME CheckoutAssumption ==
  /\ NoCall \notin Calls
  /\ NoProvider \notin Providers
  /\ Checked \subseteq External /\ External \subseteq Providers
  /\ Stock \in [Offers -> Nat] /\ \A o \in Offers : o = <<o[1], o[2]>>
  /\ \A c \in Calls : Len(ItemsOf[c]) \in Nat \ {0}
  /\ \A c \in Calls : \A i \in Items(c) :
       LET item == ItemsOf[c][i]
           route == RouteOf[<<item.product, item.selected>>]
       IN /\ item.quantity \in Nat \ {0}
          /\ route \in Seq(Providers)
          /\ \A j \in DOMAIN route : <<item.product, route[j]>> \in Offers

VARIABLES
  pc,         \* where each call is
  item,       \* the item it is at
  cand,       \* and the candidate of that item
  line,       \* the allocations it has made, or undone
  reserved,   \* product_offers.reserved as last written
  committed,  \* and as last committed
  lock,       \* the transaction that has written the row
  remote,     \* the holds at external providers: call, item, provider
  decided,    \* the committed reservation of each key
  answer      \* what the caller was told

vars == <<pc, item, cand, line, reserved, committed, lock, remote, decided, answer>>

Promise == INSTANCE CreateOnce

NoLine == [provider |-> NoProvider, status |-> "none"]

Init ==
  /\ pc = [c \in Calls |-> "lookup"]
  /\ item = [c \in Calls |-> 1]
  /\ cand = [c \in Calls |-> 1]
  /\ line = [c \in Calls |-> [i \in Items(c) |-> NoLine]]
  /\ reserved = [o \in Offers |-> 0]
  /\ committed = reserved
  /\ lock = [o \in Offers |-> NoCall]
  /\ remote = {}
  /\ decided = [k \in Keys |-> [by |-> NoCall, held |-> FALSE]]
  /\ answer = [c \in Calls |-> [kind |-> "none", of |-> NoCall]]

\* The transaction has inserted its reservation and not yet ended.
Open == {"offer", "enough", "short", "hold", "undo", "commit"}

Quantity(c, i) == ItemsOf[c][i].quantity
Route(c) == RouteOf[<<ItemsOf[c][item[c]].product, ItemsOf[c][item[c]].selected>>]
Candidate(c) == Route(c)[cand[c]]
Row(c) == <<ItemsOf[c][item[c]].product, Candidate(c)>>
HoldOf(c) == <<c, item[c], Candidate(c)>>

\* What these lines or holds, each with its call and item first, come to.
QuantityOf(S) == MapThenSumSet(LAMBDA l : Quantity(l[1], l[2]), S)

\* What an external provider has left of a product.
Left(o) ==
  Stock[o] - QuantityOf({h \in remote : <<ItemsOf[h[1]][h[2]].product, h[3]>> = o})

-----------------------------------------------------------------------------
(* The key *)

\* Faulty variant of Resolved: the fingerprint is not compared.
ResolvedByKey(c, d) ==
  IF d.held THEN [kind |-> "reservation", of |-> d.by]
            ELSE [kind |-> "refused", of |-> NoCall]

\* _resolve_idempotent_retry
Resolved(c, d) ==
  IF PrintOf[c] # PrintOf[d.by] THEN [kind |-> "conflict", of |-> d.by]
  ELSE IF d.held THEN [kind |-> "reservation", of |-> d.by]
  ELSE [kind |-> "refused", of |-> NoCall]

AnswerByKey(c) ==
  /\ pc' = [pc EXCEPT ![c] = "done"]
  /\ answer' = [answer EXCEPT ![c] = Resolved(c, decided[KeyOf[c]])]

\* get_by_idempotency_key at the start of the transaction
Lookup(c) ==
  /\ pc[c] = "lookup"
  /\ \/ decided[KeyOf[c]].by # NoCall /\ AnswerByKey(c)
     \/ /\ decided[KeyOf[c]].by = NoCall
        /\ pc' = [pc EXCEPT ![c] = "insert"]
        /\ UNCHANGED answer
  /\ UNCHANGED <<item, cand, line, reserved, committed, lock, remote, decided>>

KeyFree(c) == \A d \in Calls : KeyOf[d] = KeyOf[c] => pc[d] \notin Open

\* Faulty variant of KeyTaken: no unique constraint.
NeverTaken(c) == FALSE

KeyTaken(c) == decided[KeyOf[c]].by # NoCall

\* The flush of add_with_hold inserts the reservation before anything is held.
Insert(c) ==
  /\ pc[c] = "insert"
  /\ KeyFree(c)
  /\ pc' = [pc EXCEPT ![c] = IF KeyTaken(c) THEN "raced" ELSE "offer"]
  /\ UNCHANGED <<item, cand, line, reserved, committed, lock, remote, decided, answer>>

\* ConcurrentReservationCreationError: the reservation of the other call is read.
LookupAgain(c) ==
  /\ pc[c] = "raced"
  /\ AnswerByKey(c)
  /\ UNCHANGED <<item, cand, line, reserved, committed, lock, remote, decided>>

-----------------------------------------------------------------------------
(* The end of a transaction *)

Commit(c) ==
  /\ pc[c] = "commit"
  /\ LET d == [by |-> c, held |-> \A i \in Items(c) : line[c][i].provider # NoProvider]
     IN /\ decided' = [decided EXCEPT ![KeyOf[c]] = d]
        /\ answer' = [answer EXCEPT ![c] = Resolved(c, d)]
  /\ committed' = [o \in Offers |-> IF lock[o] = c THEN reserved[o] ELSE committed[o]]
  /\ lock' = [o \in Offers |-> IF lock[o] = c THEN NoCall ELSE lock[o]]
  /\ pc' = [pc EXCEPT ![c] = "done"]
  /\ UNCHANGED <<item, cand, line, reserved, remote>>

\* Everything but what an external provider has done.
Rollback(c) ==
  /\ reserved' = [o \in Offers |-> IF lock[o] = c THEN committed[o] ELSE reserved[o]]
  /\ lock' = [o \in Offers |-> IF lock[o] = c THEN NoCall ELSE lock[o]]
  /\ line' = [line EXCEPT ![c] = [i \in Items(c) |-> NoLine]]
  /\ answer' = [answer EXCEPT ![c] = [kind |-> "error", of |-> NoCall]]
  /\ pc' = [pc EXCEPT ![c] = "done"]
  /\ UNCHANGED <<item, cand, committed, decided>>

\* An exception, a crash or a failing commit.
Fail(c) == pc[c] \in Open /\ Rollback(c) /\ UNCHANGED remote

-----------------------------------------------------------------------------
(* Routing *)

\* Faulty variant of NextCandidate: the same provider is tried again.
SameCandidate(c) == cand' = cand /\ pc' = [pc EXCEPT ![c] = "offer"]

NextCandidate(c) ==
  /\ cand' = [cand EXCEPT ![c] = @ + 1]
  /\ pc' = [pc EXCEPT ![c] = "offer"]

NextItem(c) ==
  IF item[c] = Len(ItemsOf[c])
    THEN pc' = [pc EXCEPT ![c] = "commit"] /\ UNCHANGED <<item, cand>>
    ELSE /\ item' = [item EXCEPT ![c] = @ + 1]
         /\ cand' = [cand EXCEPT ![c] = 1]
         /\ pc' = [pc EXCEPT ![c] = "offer"]

AtCandidate(c) == pc[c] = "offer" /\ cand[c] <= Len(Route(c))

Held(c) ==
  /\ line' = [line EXCEPT ![c][item[c]] = [provider |-> Candidate(c), status |-> "held"]]
  /\ NextItem(c)

\* A fresh answer leads to an update of the offer's row, and is conclusive when it
\* is too little.  A stale one does nothing, an unavailable one skips the provider.
CheckAvailability(c) ==
  /\ AtCandidate(c)
  /\ Candidate(c) \in Checked
  /\ \/ /\ pc' = [pc EXCEPT ![c] =
              IF Left(Row(c)) >= Quantity(c, item[c]) THEN "enough" ELSE "short"]
        /\ UNCHANGED cand
     \/ pc' = [pc EXCEPT ![c] = "hold"] /\ UNCHANGED cand
     \/ NextCandidate(c)
  /\ UNCHANGED <<item, line, reserved, committed, lock, remote, decided, answer>>

\* Faulty variant of RowFree: rows are written without a lock.
NoRowLock(c, o) == TRUE

RowFree(c, o) == lock[o] \in {NoCall, c}

\* observe_availability
Observe(c) ==
  /\ pc[c] \in {"enough", "short"}
  /\ RowFree(c, Row(c))
  /\ lock' = [lock EXCEPT ![Row(c)] = c]
  /\ \/ pc[c] = "enough" /\ pc' = [pc EXCEPT ![c] = "hold"] /\ UNCHANGED cand
     \/ pc[c] = "short" /\ NextCandidate(c)
  /\ UNCHANGED <<item, line, reserved, committed, remote, decided, answer>>

\* Whether the UPDATE of try_hold finds the row, by what the transaction sees of it.
Suffices(c) ==
  LET seen == IF lock[Row(c)] = c THEN reserved[Row(c)] ELSE committed[Row(c)]
  IN Stock[Row(c)] - seen >= Quantity(c, item[c])

HoldInternal(c) ==
  /\ AtCandidate(c)
  /\ Candidate(c) \in Internal
  /\ \/ /\ ~Suffices(c)
        /\ NextCandidate(c)
        /\ UNCHANGED <<item, line, reserved, lock>>
     \/ /\ Suffices(c)
        /\ RowFree(c, Row(c))
        /\ reserved' = [reserved EXCEPT ![Row(c)] = @ + Quantity(c, item[c])]
        /\ lock' = [lock EXCEPT ![Row(c)] = c]
        /\ Held(c)
  /\ UNCHANGED <<committed, remote, decided, answer>>

CallsHold(c) ==
  \/ pc[c] = "hold"
  \/ AtCandidate(c) /\ Candidate(c) \in External \ Checked

HoldExternal(c) ==
  /\ CallsHold(c)
  /\ \/ /\ Left(Row(c)) >= Quantity(c, item[c])
        /\ remote' = remote \cup {HoldOf(c)}
        /\ Held(c)
     \* out of stock, or temporarily unavailable
     \/ NextCandidate(c) /\ UNCHANGED <<item, line, remote>>
  /\ UNCHANGED <<reserved, committed, lock, decided, answer>>

\* Faulty variant of HoldUnknown: a timeout is taken for a refusal.
TimeoutFallsBack(c) ==
  /\ CallsHold(c)
  /\ Left(Row(c)) >= Quantity(c, item[c])
  /\ remote' = remote \cup {HoldOf(c)}
  /\ NextCandidate(c)
  /\ UNCHANGED <<item, line, reserved, committed, lock, decided, answer>>

\* UnknownProviderOutcomeError, or an answer that cannot be read: the provider
\* may hold, and the transaction is given up.
HoldUnknown(c) ==
  /\ CallsHold(c)
  /\ Left(Row(c)) >= Quantity(c, item[c])
  /\ remote' = remote \cup {HoldOf(c)}
  /\ Rollback(c)

-----------------------------------------------------------------------------
(* Compensation *)

\* No candidate is left: the lines held so far are released, one by one.
GiveUp(c) ==
  /\ pc[c] = "offer"
  /\ cand[c] > Len(Route(c))
  /\ pc' = [pc EXCEPT ![c] = "undo"]
  /\ item' = [item EXCEPT ![c] = 1]
  /\ UNCHANGED <<cand, line, reserved, committed, lock, remote, decided, answer>>

Undone(c, status) ==
  /\ line' = [line EXCEPT ![c][item[c]].status = status]
  /\ item' = [item EXCEPT ![c] = @ + 1]
  /\ UNCHANGED <<pc, cand, committed, lock, decided, answer>>

Undoing(c, kind) ==
  pc[c] = "undo" /\ line[c][item[c]].provider \in kind

\* Faulty variant of ReleaseInternal: the line is not marked and released again.
ReleaseUnmarked(c) ==
  /\ Undoing(c, Internal)
  /\ reserved' = [reserved EXCEPT
       ![<<ItemsOf[c][item[c]].product, line[c][item[c]].provider>>] = @ - Quantity(c, item[c])]
  /\ UNCHANGED <<pc, item, cand, line, committed, lock, remote, decided, answer>>

ReleaseInternal(c) ==
  /\ Undoing(c, Internal)
  /\ reserved' = [reserved EXCEPT
       ![<<ItemsOf[c][item[c]].product, line[c][item[c]].provider>>] = @ - Quantity(c, item[c])]
  /\ Undone(c, "released")
  /\ UNCHANGED remote

\* Faulty variant of ReleaseExternal: a timeout passes for a release.
ReleaseAssumed(c) ==
  /\ Undoing(c, External)
  /\ LET h == <<c, item[c], line[c][item[c]].provider>>
     IN remote' = remote \ {h} \/ remote' = remote
  /\ Undone(c, "released")
  /\ UNCHANGED reserved

\* Released; unknown, with or without effect; or temporarily unavailable.
ReleaseExternal(c) ==
  /\ Undoing(c, External)
  /\ LET h == <<c, item[c], line[c][item[c]].provider>>
     IN \/ remote' = remote \ {h} /\ Undone(c, "released")
        \/ remote' = remote \ {h} /\ Undone(c, "unknown")
        \/ remote' = remote /\ Undone(c, "unknown")
        \/ remote' = remote /\ Undone(c, "held")
  /\ UNCHANGED reserved

\* Every line that was held has been released, or has an operation on record.
EndUndo(c) ==
  /\ Undoing(c, {NoProvider})
  /\ pc' = [pc EXCEPT ![c] = "commit"]
  /\ UNCHANGED <<item, cand, line, reserved, committed, lock, remote, decided, answer>>

-----------------------------------------------------------------------------
(* Waiting for a row.  A call that waits for a key has locked nothing yet. *)

NeedsRow(c) ==
  \/ pc[c] \in {"enough", "short"}
  \/ AtCandidate(c) /\ Candidate(c) \in Internal /\ Suffices(c)

WaitsFor(c) == IF NeedsRow(c) THEN {lock[Row(c)]} \ {NoCall, c} ELSE {}

Waiting == {c \in Calls : WaitsFor(c) # {}}

InCircle(c) ==
  \E S \in SUBSET Waiting :
    /\ c \in S
    /\ \A x \in S : /\ \E y \in S : y \in WaitsFor(x)
                    /\ \E y \in S : x \in WaitsFor(y)

Abort(c) == InCircle(c) /\ Fail(c)

Step(c) ==
  \/ Lookup(c) \/ Insert(c) \/ LookupAgain(c)
  \/ CheckAvailability(c) \/ Observe(c)
  \/ HoldInternal(c) \/ HoldExternal(c) \/ HoldUnknown(c)
  \/ GiveUp(c) \/ ReleaseInternal(c) \/ ReleaseExternal(c) \/ EndUndo(c)
  \/ Commit(c) \/ Abort(c)

Next == \E c \in Calls : Step(c) \/ Fail(c)

Spec == Init /\ [][Next]_vars

\* A call that can go on goes on: every request has a timeout, and the database
\* looks for circles of waiting transactions.
FairSpec == Spec /\ \A c \in Calls : WF_vars(Step(c))

-----------------------------------------------------------------------------
TypeOK ==
  /\ pc \in [Calls -> Open \cup {"lookup", "insert", "raced", "done"}]
  /\ \A c \in Calls :
       /\ item[c] \in Items(c)
       /\ cand[c] \in Nat \ {0}
       /\ pc[c] \in {"offer", "enough", "short", "hold"} => cand[c] <= Len(Route(c)) + 1
       /\ line[c] \in [Items(c) -> [provider : Providers \cup {NoProvider},
                                    status : {"none", "held", "released", "unknown"}]]
  /\ reserved \in [Offers -> Nat]
  /\ committed \in [Offers -> Nat]
  /\ lock \in [Offers -> Calls \cup {NoCall}]
  /\ \A h \in remote : h[1] \in Calls /\ h[2] \in Items(h[1]) /\ h[3] \in External
  /\ decided \in [Keys -> Promise!Decisions]
  /\ answer \in [Calls -> Promise!Answers]

HeldAt(o) ==
  {l \in UNION {{c} \X Items(c) : c \in Calls} :
     /\ ItemsOf[l[1]][l[2]].product = o[1]
     /\ line[l[1]][l[2]] = [provider |-> o[2], status |-> "held"]}

\* The rows of internal offers are never reserved beyond their stock, and what is
\* committed of them is exactly what the lines of committed reservations hold,
\* however transactions wait, are given up or compensate.
StockIsAccounted ==
  \A o \in Offers : o[2] \in Internal =>
    /\ reserved[o] <= Stock[o]
    /\ committed[o] = QuantityOf({l \in HeldAt(o) : pc[l[1]] = "done"})

\* At most one provider holds for a line: fallback never follows a hold, nor a call
\* that may have become one.
OneProviderPerLine ==
  \A h \in remote :
    /\ \A g \in remote : <<g[1], g[2]>> = <<h[1], h[2]>> => g = h
    /\ line[h[1]][h[2]].provider \in {NoProvider, h[3]}

\* A hold at an external provider is one of an open transaction or one that is on
\* record, to be confirmed or released, except where the caller got an error.
HoldsAreOnRecord ==
  \A h \in remote :
    \/ pc[h[1]] \in Open
    \/ answer[h[1]].kind = "error"
    \/ line[h[1]][h[2]].provider = h[3] /\ line[h[1]][h[2]].status \in {"held", "unknown"}

\* A call that was answered with another call's reservation has held nothing, not
\* even for a moment at a provider.
LosersHoldNothing ==
  \A c \in Calls :
    pc[c] = "done" /\ answer[c].kind # "error" /\ decided[KeyOf[c]].by # c =>
      /\ \A h \in remote : h[1] # c
      /\ \A i \in Items(c) : line[c][i] = NoLine

\* The calls of a key, racing or not, are answered as CreateOnce promises.
KeepsPromise == Promise!Spec

\* Every call ends with an answer: no wait for a key, a row or a provider is for ever.
EveryCallEnds == \A c \in Calls : <>(answer[c].kind # "none")
=============================================================================
