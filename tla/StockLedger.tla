----------------------------- MODULE StockLedger -----------------------------
(***************************************************************************)
(* What the stock rows (product_offers) promise to those who reserve,      *)
(* settle and administer stock: every transaction happens at once or not   *)
(* at all, a reservation takes what is free, and what a reservation holds  *)
(* cannot be administered away.  What is reserved is counted, not stored.  *)
(***************************************************************************)
EXTENDS Integers, FiniteSetsExt

CONSTANTS
  Internal,      \* the offers whose stock is kept here
  Observed,      \* the offers of external providers, as last observed
  Reservations,
  TakenBy        \* per reservation, the quantity of each internal offer

Offers == Internal \cup Observed
Unlisted == -1

VARIABLES
  level,     \* on_hand per offer, or Unlisted
  outcome    \* of each reservation

vars == <<level, outcome>>

Init ==
  /\ level \in [Offers -> Nat \cup {Unlisted}]
  /\ outcome = [r \in Reservations |-> "none"]

Held == {r \in Reservations : outcome[r] = "held"}

Reserved(o) ==
  IF o \in Internal THEN MapThenSumSet(LAMBDA r : TakenBy[r][o], Held) ELSE 0

Fits(r) == \A o \in Internal :
  TakenBy[r][o] > 0 => level[o] - Reserved(o) >= TakenBy[r][o]

\* While a reservation is made its external offers may be observed.
Observe ==
  /\ level' \in [Offers -> Nat \cup {Unlisted}]
  /\ \A o \in Internal : level'[o] = level[o]
  /\ \A o \in Observed : level[o] = Unlisted => level'[o] = Unlisted

\* A reservation for which there is room may be refused all the same: what it
\* found taken may have been given back since.
Create(r) ==
  /\ outcome[r] = "none"
  /\ \/ outcome' = [outcome EXCEPT ![r] = "held"] /\ Fits(r) /\ Observe
     \/ outcome' = [outcome EXCEPT ![r] = "refused"] /\ Observe

Confirm(r) ==
  /\ outcome[r] = "held"
  /\ outcome' = [outcome EXCEPT ![r] = "confirmed"]
  /\ level' = [o \in Offers |-> IF o \in Internal THEN level[o] - TakenBy[r][o] ELSE level[o]]

Release(S) ==
  /\ S \subseteq Held
  /\ outcome' = [r \in Reservations |-> IF r \in S THEN "released" ELSE outcome[r]]
  /\ UNCHANGED level

SetLevel(o, n) ==
  /\ n >= Reserved(o)
  /\ level' = [level EXCEPT ![o] = n]
  /\ UNCHANGED outcome

RemoveLevel(o) ==
  /\ Reserved(o) = 0
  /\ level' = [level EXCEPT ![o] = Unlisted]
  /\ UNCHANGED outcome

Next ==
  \/ \E r \in Reservations : Create(r) \/ Confirm(r)
  \/ \E S \in SUBSET Reservations : Release(S)
  \/ \E o \in Offers : RemoveLevel(o) \/ SetLevel(o, level'[o])

Spec == Init /\ [][Next]_vars
=============================================================================
