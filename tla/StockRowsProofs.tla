--------------------------- MODULE StockRowsProofs ---------------------------
(***************************************************************************)
(* Proofs about the stock rows for any offers, reservations, settlers and  *)
(* operators: the CHECK constraints of product_offers, the answers to      *)
(* operators, that each row reserves what the held reservations take of    *)
(* it, and that the statements of concurrent transactions come to what     *)
(* StockLedger does at once.                                               *)
(***************************************************************************)
EXTENDS StockRows, SequenceTheorems, SumTheorems

LineType == [of : Reservations, offer : Offers, quantity : Nat \ {0}]
AllLines == UNION {Lines(r) : r \in Reservations}

\* What the statements rest on of the variables' types.
Types ==
  /\ row \in [Offers -> Rows]
  /\ draft \in [Offers -> Rows]
  /\ lock \in [Offers -> Transactions \cup {NoTx}]
  /\ phase = [t \in Transactions |-> phase[t]]
  /\ left \in [Transactions -> Seq(LineType)]
  /\ request \in [Operators -> Requests]
  /\ answer = [a \in Operators |-> answer[a]]

Sound(v) ==
  /\ v.reserved >= 0 /\ v.reserved <= v.on_hand
  /\ ~v.present => v.reserved = 0

LocksShowDrafts == \A o \in Offers : lock[o] = NoTx => draft[o] = row[o]

RowsInv ==
  /\ Types
  /\ LocksShowDrafts
  /\ \A o \in Offers : Sound(row[o]) /\ Sound(draft[o])

\* What a step does to the rows.
Writes(t) ==
  \E o \in Offers, v \in Rows :
    Sound(v) /\ Free(t, o) /\ Write(t, o, v) /\ row' = row

Touches(t) ==
  \/ Writes(t) \/ CommitRows(t) \/ Rollback(t)
  \/ UNCHANGED <<row, draft, lock>>

-----------------------------------------------------------------------------
(* Lines *)

LEMMA LineIsLine ==
  ASSUME NEW r \in Reservations, NEW i \in DOMAIN LinesOf[r]
  PROVE  Line(r, i) \in LineType
<1> DEFINE Asked == [offer : Offers, quantity : Nat \ {0}]
<1>1. LinesOf[r] \in Seq(Asked)
  BY StockAssumption DEF StockAssumption
<1> HIDE DEF Asked
<1>2. i \in 1 .. Len(LinesOf[r])
  BY <1>1, LenProperties
<1>3. LinesOf[r][i] \in Asked
  BY <1>1, <1>2, ElementOfSeq
<1> QED
  BY <1>3 DEF Asked, Line, LineType

\* A line is known by its reservation and its offer, so that there are finitely many.
LEMMA FiniteLines ==
  ASSUME NEW S \in SUBSET AllLines
  PROVE  IsFiniteSet(S) /\ S \subseteq LineType
<1>1. S \subseteq LineType
  BY LineIsLine DEF AllLines, Lines
<1> DEFINE f == [l \in S |-> <<l.of, l.offer>>]
<1>2. ASSUME NEW l \in S, NEW k \in S, f[l] = f[k] PROVE l = k
  <2>1. l.of = k.of /\ l.offer = k.offer
    BY <1>2
  <2>2. PICK r \in Reservations : \E i \in DOMAIN LinesOf[r] : l = Line(r, i)
    BY DEF AllLines, Lines
  <2>3. PICK q \in Reservations : \E j \in DOMAIN LinesOf[q] : k = Line(q, j)
    BY DEF AllLines, Lines
  <2>4. r = q
    BY <2>1, <2>2, <2>3 DEF Line
  <2> PICK i \in DOMAIN LinesOf[r] : l = Line(r, i)
    BY <2>2
  <2> PICK j \in DOMAIN LinesOf[r] : k = Line(r, j)
    BY <2>3, <2>4
  <2>5. LinesOf[r][i].offer = LinesOf[r][j].offer
    BY <2>1 DEF Line
  <2>6. i = j
    BY <2>5, StockAssumption DEF StockAssumption
  <2> QED
    BY <2>6
<1>3. f \in [S -> Reservations \X Offers]
  BY <1>1 DEF LineType
<1>4. f \in Injection(S, Reservations \X Offers)
  BY <1>2, <1>3 DEF Injection, IsInjective
<1>5. IsFiniteSet(Reservations \X Offers)
  BY FS_Product, StockAssumption DEF StockAssumption
<1>6. IsFiniteSet(S)
  BY <1>4, <1>5, FS_Injection
<1> QED
  BY <1>1, <1>6

LEMMA SequencesOfLines ==
  ASSUME NEW S \in SUBSET AllLines, NEW s \in SetToSeqs(S)
  PROVE  s \in Seq(LineType)
<1>1. Cardinality(S) \in Nat
  BY FiniteLines, FS_CardinalityType
<1>2. s \in [1 .. Cardinality(S) -> S]
  BY DEF SetToSeqs
<1>3. s \in [1 .. Cardinality(S) -> LineType]
  BY <1>2, FiniteLines
<1> QED
  BY <1>1, <1>3

LEMMA HeadLine ==
  ASSUME Types, NEW t \in Transactions, left[t] # <<>>
  PROVE  /\ Head(left[t]).offer \in Offers
         /\ Head(left[t]).quantity \in Nat \ {0}
         /\ Tail(left[t]) \in Seq(LineType)
<1>1. left[t] \in Seq(LineType)
  BY DEF Types
<1>2. Head(left[t]) \in LineType /\ Tail(left[t]) \in Seq(LineType)
  BY <1>1, HeadTailProperties
<1> QED
  BY <1>2 DEF LineType

-----------------------------------------------------------------------------
(* What the steps do to the rows *)

LEMMA InitRows == Init => RowsInv
<1> SUFFICES ASSUME Init PROVE RowsInv
  OBVIOUS
<1>1. row \in [Offers -> Rows] /\ draft = row
  BY StockAssumption DEF StockAssumption, Init, Row, Rows
<1>2. \A o \in Offers : Sound(row[o])
  BY StockAssumption DEF StockAssumption, Init, Row, Sound
<1>3. Types
  BY <1>1 DEF Init, Types
<1> QED
  BY <1>1, <1>2, <1>3 DEF RowsInv, LocksShowDrafts

LEMMA SeenIsSound ==
  ASSUME RowsInv, NEW t \in Transactions, NEW o \in Offers
  PROVE  Seen(t, o) \in Rows /\ Sound(Seen(t, o))
BY DEF RowsInv, Types, Seen

LEMMA RowsOfHold ==
  ASSUME RowsInv, NEW r \in Reservations, HoldLine(r)
  PROVE  Touches(r)
<1> DEFINE l == Head(left[r])
           v == Seen(r, l.offer)
<1>0. r \in Transactions
  BY DEF Transactions
<1>1. left[r] # <<>> /\ l.offer \in Offers /\ l.quantity \in Nat \ {0}
  BY <1>0, HeadLine DEF HoldLine, RowsInv
<1>2. v \in Rows /\ Sound(v)
  BY <1>0, <1>1, SeenIsSound
<1>3. CASE Fits(v, l.quantity) /\ Free(r, l.offer) /\ Write(r, l.offer, Hold(v, l.quantity))
  <2>1. Hold(v, l.quantity) \in Rows /\ Sound(Hold(v, l.quantity))
    <3> HIDE DEF v, l
    <3> QED
      BY <1>1, <1>2, <1>3 DEF Rows, Sound, Fits, Hold, Row
  <2>2. row' = row
    BY DEF HoldLine
  <2> HIDE DEF v, l
  <2> QED
    BY <1>1, <1>3, <2>1, <2>2 DEF Touches, Writes
<1>4. CASE UNCHANGED <<draft, lock>>
  BY <1>4 DEF HoldLine, Touches
<1> QED
  BY <1>3, <1>4 DEF HoldLine

LEMMA RowsOfObserve ==
  ASSUME RowsInv, NEW r \in Reservations, ObserveLine(r)
  PROVE  Touches(r)
<1> DEFINE o == Head(left[r]).offer
           v == Seen(r, o)
           u(n) == Row(IF n > v.reserved THEN n ELSE v.reserved, v.reserved)
<1>0. r \in Transactions
  BY DEF Transactions
<1>1. left[r] # <<>> /\ o \in Offers
  BY <1>0, HeadLine DEF ObserveLine, RowsInv
<1>2. v \in Rows /\ Sound(v)
  BY <1>0, <1>1, SeenIsSound
<1>3. CASE v.present /\ Free(r, o) /\ \E n \in Levels : Write(r, o, u(n))
  <2>1. PICK n \in Levels : Write(r, o, u(n))
    BY <1>3
  <2>2. u(n) \in Rows /\ Sound(u(n))
    <3> HIDE DEF v, o
    <3> QED
      BY <1>2, <1>3, StockAssumption DEF StockAssumption, Rows, Sound, Row
  <2>3. row' = row
    BY DEF ObserveLine
  <2> HIDE DEF u, v, o
  <2> QED
    BY <1>1, <1>3, <2>1, <2>2, <2>3 DEF Touches, Writes
<1>4. CASE UNCHANGED <<draft, lock>>
  BY <1>4 DEF ObserveLine, Touches
<1> QED
  BY <1>3, <1>4 DEF ObserveLine

LEMMA RowsOfSettle ==
  ASSUME RowsInv, NEW t \in Transactions, SettleLine(t)
  PROVE  Touches(t)
<1> DEFINE l == Head(left[t])
           v == Seen(t, l.offer)
           u == IF phase[t] = "confirm" THEN Confirm(v, l.quantity) ELSE Release(v, l.quantity)
           found == IF phase[t] = "confirm" THEN Confirmable(v, l.quantity)
                                            ELSE Releasable(v, l.quantity)
<1>1. left[t] # <<>> /\ l.offer \in Offers /\ l.quantity \in Nat \ {0}
  BY HeadLine DEF SettleLine, RowsInv
<1>2. v \in Rows /\ Sound(v)
  BY <1>1, SeenIsSound
<1>3. CASE found /\ Free(t, l.offer) /\ Write(t, l.offer, u) /\ row' = row
  <2>1. u \in Rows /\ Sound(u)
    <3> HIDE DEF v, l
    <3> QED
      BY <1>1, <1>2, <1>3 DEF Rows, Sound, Confirmable, Confirm, Releasable, Release, Row
  <2> HIDE DEF u, v, l
  <2> QED
    BY <1>1, <1>3, <2>1 DEF Touches, Writes
<1>4. CASE Fail(t)
  BY <1>4 DEF Fail, Touches
<1> QED
  BY <1>3, <1>4 DEF SettleLine

LEMMA RequestTypes ==
  ASSUME Types, NEW a \in Operators
  PROVE  /\ request[a].offer \in Offers
         /\ request[a].way = "set" => request[a].level \in Nat
BY StockAssumption DEF StockAssumption, Types, Requests

LEMMA RowsOfUpsert ==
  ASSUME RowsInv, NEW a \in Operators, Upsert(a)
  PROVE  Touches(a)
<1> DEFINE o == request[a].offer
           v == draft[o]
           n == request[a].level
           changes == ~v.present \/ (v.reserved <= n /\ v.on_hand # n)
           u == IF changes THEN Row(n, v.reserved) ELSE v
<1>1. o \in Offers /\ n \in Nat
  BY RequestTypes DEF Upsert, RowsInv
<1>2. v \in Rows /\ Sound(v)
  BY <1>1 DEF RowsInv, Types
<1>3. Free(a, o) /\ Write(a, o, u) /\ row' = row
  BY DEF Upsert
<1>4. u \in Rows /\ Sound(u)
  <2> HIDE DEF v, n
  <2> QED
    BY <1>1, <1>2 DEF Rows, Sound, Row
<1> HIDE DEF u, o
<1> QED
  BY <1>1, <1>3, <1>4 DEF Touches, Writes

LEMMA RowsOfDelete ==
  ASSUME RowsInv, NEW a \in Operators, Delete(a)
  PROVE  Touches(a)
<1>1. request[a].offer \in Offers
  BY RequestTypes DEF RowsInv
<1>2. NoRow \in Rows /\ Sound(NoRow)
  BY DEF NoRow, Rows, Sound
<1>3. row' = row
  BY DEF Delete
<1>4. \/ Free(a, request[a].offer) /\ Write(a, request[a].offer, NoRow)
      \/ UNCHANGED <<draft, lock>>
  BY DEF Delete
<1> QED
  BY <1>1, <1>2, <1>3, <1>4 DEF Touches, Writes

Acts(t) == Works(t) \/ Abort(t) \/ Break(t)

LEMMA RowsOfStep ==
  ASSUME RowsInv, NEW t \in Transactions, Acts(t)
  PROVE  Touches(t)
<1>1. CASE t \in Reservations /\ Creates(t)
  <2>1. CASE Begin(t)
    BY <2>1 DEF Begin, Touches
  <2>2. CASE CommitCreate(t)
    BY <2>2 DEF CommitCreate, Touches
  <2> QED
    BY <1>1, <2>1, <2>2, RowsOfHold, RowsOfObserve, RowsOfSettle DEF Creates
<1>2. CASE t \in Settlers /\ Settles(t)
  <2>1. CASE Claim(t)
    BY <2>1 DEF Claim, Touches
  <2>2. CASE CommitSettled(t)
    BY <2>2 DEF CommitSettled, Touches
  <2> QED
    BY <1>2, <2>1, <2>2, RowsOfSettle DEF Settles
<1>3. CASE t \in Operators /\ Administers(t)
  <2>1. CASE Read(t)
    BY <2>1 DEF Read, Touches
  <2>2. CASE CommitOperator(t)
    BY <2>2 DEF CommitOperator, Touches
  <2> QED
    BY <1>3, <2>1, <2>2, RowsOfUpsert, RowsOfDelete DEF Administers
<1>4. CASE Abort(t) \/ Break(t)
  BY <1>4 DEF Abort, Break, Fail, Touches
<1> QED
  BY <1>1, <1>2, <1>3, <1>4 DEF Acts, Works

\* The lines and answers that a step leaves.
LEMMA ControlOfStep ==
  ASSUME RowsInv, NEW t \in Transactions, Acts(t)
  PROVE  /\ phase' = [u \in Transactions |-> phase'[u]]
         /\ \A u \in Transactions \ {t} : phase'[u] = phase[u]
         /\ left' \in [Transactions -> Seq(LineType)]
         /\ request' = request
         /\ answer' = [a \in Operators |-> answer'[a]]
         /\ \A a \in Operators \ {t} : answer'[a] = answer[a]
<1>0. /\ phase = [u \in Transactions |-> phase[u]]
      /\ left \in [Transactions -> Seq(LineType)]
      /\ answer = [a \in Operators |-> answer[a]]
  BY DEF RowsInv, Types
<1> DEFINE Control ==
  /\ phase' = phase \/ \E p : phase' = [phase EXCEPT ![t] = p]
  /\ left' = left \/ \E s \in Seq(LineType) : left' = [left EXCEPT ![t] = s]
  /\ request' = request
  /\ \/ answer' = answer
     \/ \E s : answer' = [answer EXCEPT ![t] = s]
     \/ answer' = [a \in Operators |-> IF a = t THEN "error" ELSE answer[a]]
<1>1. ASSUME Control
      PROVE  /\ phase' = [u \in Transactions |-> phase'[u]]
             /\ \A u \in Transactions \ {t} : phase'[u] = phase[u]
             /\ left' \in [Transactions -> Seq(LineType)]
             /\ request' = request
             /\ answer' = [a \in Operators |-> answer'[a]]
             /\ \A a \in Operators \ {t} : answer'[a] = answer[a]
  BY <1>0, <1>1
<1>2. <<>> \in Seq(LineType)
  BY EmptySeq
<1>3. ASSUME Ends(t)
      PROVE  /\ \E p : phase' = [phase EXCEPT ![t] = p]
             /\ \E s \in Seq(LineType) : left' = [left EXCEPT ![t] = s]
  BY <1>2, <1>3 DEF Ends
<1>4. CASE Fail(t)
  BY <1>1, <1>3, <1>4 DEF Fail
<1>5. ASSUME left[t] # <<>>, GoesOn(t)
      PROVE  \E s \in Seq(LineType) : left' = [left EXCEPT ![t] = s]
  BY <1>5, HeadLine DEF GoesOn, RowsInv
<1>6. ASSUME t \in Reservations, Refuse(t)
      PROVE  /\ \E p : phase' = [phase EXCEPT ![t] = p]
             /\ \E s \in Seq(LineType) : left' = [left EXCEPT ![t] = s]
  <2> DEFINE S == {l \in Lines(t) \ ToSet(left[t]) : l.offer \in Internal}
  <2>1. S \in SUBSET AllLines
    BY <1>6 DEF AllLines
  <2>2. PICK s \in SetToSeqs(S) : left' = [left EXCEPT ![t] = s]
    BY <1>6 DEF Refuse
  <2>3. s \in Seq(LineType)
    BY <2>1, SequencesOfLines
  <2> QED
    BY <1>6, <2>2, <2>3 DEF Refuse
<1>7. CASE SettleLine(t)
  <2>1. CASE GoesOn(t) /\ UNCHANGED <<phase, request, answer>>
    <3>1. left[t] # <<>>
      BY <1>7 DEF SettleLine
    <3>2. Control
      BY <2>1, <3>1, <1>5
    <3> QED
      BY <1>1, <3>2
  <2> QED
    BY <1>4, <1>7, <2>1 DEF SettleLine
<1>8. CASE t \in Reservations /\ Creates(t)
  <2>1. CASE Begin(t)
    <3> DEFINE s == [i \in DOMAIN LinesOf[t] |-> Line(t, i)]
    <3>1. LinesOf[t] \in Seq([offer : Offers, quantity : Nat \ {0}])
      BY <1>8, StockAssumption DEF StockAssumption
    <3>2. DOMAIN LinesOf[t] = 1 .. Len(LinesOf[t]) /\ Len(LinesOf[t]) \in Nat
      BY <3>1, LenProperties
    <3>3. s \in [1 .. Len(LinesOf[t]) -> LineType]
      BY <1>8, <3>2, LineIsLine
    <3>4. s \in Seq(LineType)
      BY <3>2, <3>3
    <3>5. Control
      BY <2>1, <3>4 DEF Begin
    <3> QED
      BY <1>1, <3>5
  <2>2. CASE HoldLine(t)
    BY <2>2, <1>1, <1>5, <1>6, <1>8 DEF HoldLine
  <2>3. CASE ObserveLine(t)
    BY <2>3, <1>1, <1>5, <1>6, <1>8 DEF ObserveLine
  <2>4. CASE CommitCreate(t)
    BY <2>4, <1>1, <1>3 DEF CommitCreate
  <2> QED
    BY <1>7, <1>8, <2>1, <2>2, <2>3, <2>4 DEF Creates
<1>9. CASE t \in Settlers /\ Settles(t)
  <2>1. CASE Claim(t)
    <3>1. PICK S \in SUBSET Reservations : \E s \in Orders(S) : left' = [left EXCEPT ![t] = s]
      BY <2>1 DEF Claim, Held
    <3>2. \A s \in Orders(S) : s \in Seq(LineType)
      <4> DEFINE L == {l \in UNION {Lines(r) : r \in S} : l.offer \in Internal}
      <4>1. L \in SUBSET AllLines
        BY DEF AllLines
      <4>2. \A s \in Orders(S) : s \in SetToSeqs(L)
        BY DEF Orders
      <4> QED
        BY <4>1, <4>2, SequencesOfLines
    <3>3. Control
      BY <2>1, <3>1, <3>2 DEF Claim
    <3> QED
      BY <1>1, <3>3
  <2>2. CASE CommitSettled(t)
    BY <2>2, <1>1, <1>3 DEF CommitSettled
  <2> QED
    BY <1>7, <1>9, <2>1, <2>2 DEF Settles
<1>10. CASE t \in Operators /\ Administers(t)
  <2>1. CASE Upsert(t)
    BY <2>1, <1>1 DEF Upsert
  <2>2. CASE Delete(t)
    BY <2>2, <1>1 DEF Delete
  <2>3. CASE Read(t)
    BY <2>3, <1>1 DEF Read
  <2>4. CASE CommitOperator(t)
    BY <2>4, <1>1, <1>3 DEF CommitOperator
  <2> QED
    BY <1>10, <2>1, <2>2, <2>3, <2>4 DEF Administers
<1>11. CASE Abort(t) \/ Break(t)
  BY <1>4, <1>11 DEF Abort, Break
<1> QED
  BY <1>8, <1>9, <1>10, <1>11 DEF Acts, Works

LEMMA TouchKeepsRows ==
  ASSUME RowsInv, NEW t \in Transactions, Touches(t)
  PROVE  /\ row' \in [Offers -> Rows] /\ draft' \in [Offers -> Rows]
         /\ lock' \in [Offers -> Transactions \cup {NoTx}]
         /\ LocksShowDrafts'
         /\ \A o \in Offers : Sound(row'[o]) /\ Sound(draft'[o])
<1>0. t # NoTx
  BY StockAssumption DEF StockAssumption
<1>1. CASE Writes(t)
  <2>1. PICK o \in Offers, v \in Rows : Sound(v) /\ Free(t, o) /\ Write(t, o, v) /\ row' = row
    BY <1>1 DEF Writes
  <2> QED
    BY <2>1, <1>0 DEF Write, RowsInv, Types, LocksShowDrafts
<1>2. CASE CommitRows(t)
  BY <1>2 DEF CommitRows, Written, RowsInv, Types, LocksShowDrafts
<1>3. CASE Rollback(t)
  BY <1>3 DEF Rollback, Written, RowsInv, Types, LocksShowDrafts
<1>4. CASE UNCHANGED <<row, draft, lock>>
  BY <1>4 DEF RowsInv, Types, LocksShowDrafts
<1> QED
  BY <1>1, <1>2, <1>3, <1>4 DEF Touches

\* A row that another has locked stays as it is.
LEMMA TouchSparesLocked ==
  ASSUME RowsInv, NEW t \in Transactions, Touches(t), NEW o \in Offers, lock[o] \notin {t, NoTx}
  PROVE  row'[o] = row[o] /\ draft'[o] = draft[o] /\ lock'[o] = lock[o]
<1>1. CASE Writes(t)
  BY <1>1 DEF Writes, Write, Free, RowsInv, Types
<1>2. CASE CommitRows(t) \/ Rollback(t)
  BY <1>2 DEF CommitRows, Rollback, Written, RowsInv, Types
<1>3. CASE UNCHANGED <<row, draft, lock>>
  BY <1>3
<1> QED
  BY <1>1, <1>2, <1>3 DEF Touches

LEMMA RowsStep == RowsInv /\ [Next]_vars => RowsInv'
<1> SUFFICES ASSUME RowsInv, [Next]_vars PROVE RowsInv'
  OBVIOUS
<1>1. CASE UNCHANGED vars
  BY <1>1 DEF vars, RowsInv, Types, LocksShowDrafts
<1>2. ASSUME NEW t \in Transactions, Acts(t) PROVE RowsInv'
  <2>1. Touches(t)
    BY <1>2, RowsOfStep
  <2>2. Types'
    BY <1>2, <2>1, TouchKeepsRows, ControlOfStep DEF RowsInv, Types
  <2> QED
    BY <2>1, <2>2, TouchKeepsRows DEF RowsInv
<1> QED
  BY <1>1, <1>2 DEF Next, Acts

\* The CHECK constraints of product_offers hold of every version of a row, so that no
\* statement is refused by them.
THEOREM RowsStaySound == Spec => []RowsAreSound
<1>1. RowsInv => RowsAreSound
  BY DEF RowsInv, RowsAreSound, Sound
<1> QED
  BY InitRows, RowsStep, <1>1, PTL DEF Spec

-----------------------------------------------------------------------------
(* What operators are told *)

\* The operator has locked the row that its answer is about, and its answer is so.
Told(a) ==
  LET o == request[a].offer
      n == request[a].level
  IN /\ phase[a] = "ask" => \A p \in Offers : lock[p] # a
     /\ phase[a] = "read" /\ request[a].way = "set" =>
          /\ lock[o] = a /\ draft[o] = row[o] /\ row[o].present
          /\ row[o].reserved > n \/ row[o].on_hand = n
     /\ phase[a] = "commit" =>
          /\ answer[a] \in {"set", "below reserved", "removed", "not found", "in use"}
          /\ answer[a] = "set" => lock[o] = a /\ draft[o].present /\ draft[o].on_hand = n
          /\ answer[a] = "below reserved" => row[o].reserved > n
          /\ answer[a] \in {"set", "below reserved", "removed"} => lock[o] = a
          /\ answer[a] = "removed" => ~draft[o].present

AnswersInv == RowsInv /\ \A a \in Operators : Told(a)

LEMMA InitAnswers == Init => AnswersInv
<1> SUFFICES ASSUME Init, NEW a \in Operators PROVE Told(a)
  BY InitRows DEF AnswersInv
<1>1. phase[a] = "ask"
  BY DEF Init, Transactions
<1>2. \A p \in Offers : lock[p] # a
  BY StockAssumption DEF StockAssumption, Init, Transactions
<1> QED
  BY <1>1, <1>2 DEF Told

\* What another transaction does changes nothing of it.
LEMMA OthersKeepTold ==
  ASSUME AnswersInv, NEW t \in Transactions, Acts(t), NEW a \in Operators, a # t
  PROVE  Told(a)'
<1> DEFINE o == request[a].offer
<1>0. RowsInv /\ Told(a) /\ a \in Transactions /\ a # NoTx
  BY StockAssumption DEF StockAssumption, AnswersInv, Transactions
<1>1. o \in Offers
  BY <1>0, RequestTypes DEF RowsInv
<1>2. Touches(t)
  BY <1>0, RowsOfStep
<1>3. phase'[a] = phase[a] /\ request' = request /\ answer'[a] = answer[a]
  BY <1>0, ControlOfStep
<1>4. lock[o] = a => row'[o] = row[o] /\ draft'[o] = draft[o] /\ lock'[o] = lock[o]
  BY <1>0, <1>1, <1>2, TouchSparesLocked
<1>5. ASSUME NEW p \in Offers, lock[p] # a PROVE lock'[p] # a
  BY <1>0, <1>2, <1>5
     DEF Touches, Writes, Write, CommitRows, Rollback, Written, RowsInv, Types
<1> QED
  BY <1>0, <1>3, <1>4, <1>5 DEF Told

LEMMA OperatorsKeepTold ==
  ASSUME AnswersInv, NEW a \in Operators, Acts(a)
  PROVE  Told(a)'
<1> DEFINE o == request[a].offer
           n == request[a].level
<1>0. RowsInv /\ Told(a) /\ a \in Transactions /\ a # NoTx /\ a \notin Reservations \cup Settlers
  BY StockAssumption DEF StockAssumption, AnswersInv, Transactions
<1>1. o \in Offers
  BY <1>0, RequestTypes DEF RowsInv
<1>2. /\ phase = [u \in Transactions |-> phase[u]] /\ answer = [u \in Operators |-> answer[u]]
      /\ draft \in [Offers -> Rows] /\ lock = [p \in Offers |-> lock[p]]
  BY <1>0 DEF RowsInv, Types
<1>3. CASE Upsert(a)
  <2>1. /\ phase[a] = "ask" /\ request[a].way = "set" /\ Free(a, o)
        /\ row' = row /\ request' = request
    BY <1>3 DEF Upsert
  <2>2. lock[o] = NoTx /\ draft[o] = row[o]
    BY <1>0, <1>1, <2>1 DEF Told, Free, RowsInv, LocksShowDrafts
  <2>3. lock'[o] = a
    BY <1>0, <1>3, <1>1, <1>2 DEF Upsert, Write
  <2>4. \/ /\ phase'[a] = "commit" /\ answer'[a] = "set"
           /\ draft'[o] = Row(n, draft[o].reserved)
        \/ /\ phase'[a] = "read" /\ draft'[o] = draft[o]
           /\ draft[o].present /\ (draft[o].reserved > n \/ draft[o].on_hand = n)
    <3> DEFINE v == draft[o]
               changes == ~v.present \/ (v.reserved <= n /\ v.on_hand # n)
    <3>1. v \in Rows /\ n \in Nat
      BY <1>0, <1>1, <1>2, <2>1, RequestTypes DEF RowsInv
    <3>2. CASE changes
      BY <1>0, <1>3, <1>1, <1>2, <3>2 DEF Upsert, Write
    <3>3. CASE ~changes
      <4>1. phase'[a] = "read" /\ draft'[o] = draft[o]
        BY <1>0, <1>3, <1>1, <1>2, <3>3 DEF Upsert, Write
      <4>2. v.present /\ (v.reserved > n \/ v.on_hand = n)
        <5> HIDE DEF v, n
        <5> QED
          BY <3>1, <3>3 DEF Rows
      <4> QED
        BY <4>1, <4>2
    <3> QED
      BY <3>2, <3>3
  <2>5. CASE phase'[a] = "commit" /\ answer'[a] = "set" /\ draft'[o] = Row(n, draft[o].reserved)
    <3>1. draft'[o].present /\ draft'[o].on_hand = n
      BY <2>5 DEF Row
    <3> QED
      BY <2>1, <2>3, <2>5, <3>1 DEF Told
  <2>6. CASE /\ phase'[a] = "read" /\ draft'[o] = draft[o]
             /\ draft[o].present /\ (draft[o].reserved > n \/ draft[o].on_hand = n)
    BY <2>1, <2>2, <2>3, <2>6 DEF Told
  <2> QED
    BY <2>4, <2>5, <2>6
<1>4. CASE Delete(a)
  <2>1. phase[a] = "ask" /\ request[a].way = "remove" /\ request' = request
    BY <1>4 DEF Delete
  <2>2. CASE phase'[a] = "read"
    BY <2>1, <2>2 DEF Told
  <2>3. CASE Write(a, o, NoRow) /\ answer'[a] = "removed" /\ phase'[a] = "commit"
    BY <1>0, <2>1, <2>3, <1>1, <1>2 DEF Told, Write, NoRow
  <2> QED
    BY <1>0, <1>4, <1>2, <2>2, <2>3 DEF Delete
<1>5. CASE Read(a)
  <2>1. /\ phase[a] = "read" /\ phase'[a] = "commit" /\ answer'[a] = Reads(a)
        /\ row' = row /\ draft' = draft /\ lock' = lock /\ request' = request
    BY <1>0, <1>5, <1>2 DEF Read
  <2>2. CASE request[a].way = "remove"
    BY <2>1, <2>2 DEF Told, Reads
  <2>3. CASE request[a].way # "remove"
    <3>1. request[a].way = "set"
      BY <1>0, <2>3 DEF RowsInv, Types, Requests
    <3>2. Seen(a, o) = row[o] /\ lock[o] = a /\ draft[o] = row[o] /\ row[o].present
      BY <1>0, <2>1, <3>1 DEF Told, Seen, Free
    <3>3. row[o].reserved > n \/ row[o].on_hand = n
      BY <1>0, <2>1, <3>1 DEF Told
    <3> QED
      BY <2>1, <2>3, <3>2, <3>3 DEF Told, Reads
  <2> QED
    BY <2>2, <2>3
<1>6. CASE CommitOperator(a) \/ Fail(a)
  <2>1. phase'[a] = "done"
    BY <1>6, <1>0, <1>2 DEF CommitOperator, Fail, Ends
  <2> QED
    BY <2>1 DEF Told
<1> QED
  BY <1>0, <1>3, <1>4, <1>5, <1>6 DEF Acts, Works, Administers, Abort, Break

LEMMA AnswersStep == AnswersInv /\ [Next]_vars => AnswersInv'
<1> SUFFICES ASSUME AnswersInv, [Next]_vars PROVE AnswersInv'
  OBVIOUS
<1>1. RowsInv'
  BY RowsStep DEF AnswersInv
<1>2. CASE UNCHANGED vars
  BY <1>1, <1>2 DEF vars, AnswersInv, Told
<1>3. ASSUME NEW t \in Transactions, Acts(t) PROVE AnswersInv'
  BY <1>1, <1>3, OthersKeepTold, OperatorsKeepTold DEF AnswersInv
<1> QED
  BY <1>2, <1>3 DEF Next, Acts

\* What set_level and remove_level answer is so when their transaction commits, and
\* the row that set_level reads after an upsert that changed nothing is there.
THEOREM OperatorsAreToldTheTruth == Spec => AnswersAreTrue
<1> DEFINE Kept(a) ==
      phase[a] = "commit" /\ phase'[a] = "done" /\ answer'[a] = answer[a] =>
       LET o == request[a].offer
       IN CASE answer[a] = "set"            -> row'[o].present
                                               /\ row'[o].on_hand = request[a].level
            [] answer[a] = "below reserved" -> row[o].reserved > request[a].level
            [] answer[a] = "removed"        -> ~row'[o].present
            [] OTHER                        -> answer[a] # "error"
<1>1. ASSUME AnswersInv, NEW t \in Transactions, Acts(t), NEW a \in Operators,
             phase[a] = "commit", phase'[a] = "done", answer'[a] = answer[a]
      PROVE  Kept(a)
  <2> DEFINE o == request[a].offer
  <2>1. Told(a) /\ RowsInv
    BY <1>1 DEF AnswersInv
  <2>2. t = a
    BY <1>1, <2>1, ControlOfStep DEF Transactions
  <2>3. ~Fail(a)
    BY <1>1, <2>1 DEF Told, Fail
  <2>4. CommitOperator(a)
    BY <1>1, <2>2, <2>3, StockAssumption
       DEF StockAssumption, Acts, Works, Administers, Upsert, Delete, Read, Abort, Break
  <2>5. o \in Offers
    BY <2>1, RequestTypes DEF RowsInv
  <2>6. lock[o] = a => row'[o] = draft[o]
    BY <2>4, <2>5 DEF CommitOperator, CommitRows, Written
  <2> QED
    BY <1>1, <2>1, <2>6 DEF Told
<1>2. AnswersInv /\ [Next]_vars => [\A a \in Operators : Kept(a)]_vars
  BY <1>1 DEF Next, Acts
<1> QED
  BY InitAnswers, AnswersStep, <1>2, PTL DEF Spec, AnswersAreTrue

-----------------------------------------------------------------------------
(* What reservations take *)

LEMMA LineFacts ==
  /\ \A r \in Reservations : \A l \in Lines(r) : l \in AllLines /\ l.of = r
  /\ \A l \in AllLines : l \in LineType /\ l.of \in Reservations /\ l \in Lines(l.of)
  /\ \A l, k \in AllLines : l.of = k.of /\ l.offer = k.offer => l = k
<1>1. \A r \in Reservations : \A l \in Lines(r) : l \in AllLines /\ l.of = r /\ l \in LineType
  BY LineIsLine DEF AllLines, Lines, Line
<1>2. \A l \in AllLines : \E r \in Reservations : l \in Lines(r)
  BY DEF AllLines
<1>3. ASSUME NEW r \in Reservations, NEW l \in Lines(r), NEW k \in Lines(r), l.offer = k.offer
      PROVE  l = k
  <2>1. PICK i \in DOMAIN LinesOf[r] : l = Line(r, i)
    BY DEF Lines
  <2>2. PICK j \in DOMAIN LinesOf[r] : k = Line(r, j)
    BY DEF Lines
  <2>3. LinesOf[r][i].offer = LinesOf[r][j].offer
    BY <1>3, <2>1, <2>2 DEF Line
  <2>4. i = j
    BY <2>3, StockAssumption DEF StockAssumption
  <2> QED
    BY <2>1, <2>2, <2>4
<1> QED
  BY <1>1, <1>2, <1>3

Took == [l \in AllLines |-> l.quantity]

LEMMA TakenIsSum ==
  ASSUME NEW S \in SUBSET AllLines, IsFiniteSet(S)
  PROVE  MapThenSumSet(LAMBDA l : l.quantity, S) = Sum(Took, S)
<1> DEFINE Folds(g) == g = [s \in SUBSET S |->
             IF s = {} THEN 0 ELSE Pick(s).quantity + g[s \ {Pick(s)}]]
           iter == CHOOSE g : Folds(g)
<1>1. MapThenSumSet(LAMBDA l : l.quantity, S) = iter[S]
  BY DEF MapThenSumSet, MapThenFoldSet, Pick
<1>2. \A s \in SUBSET S : s # {} => Took[Pick(s)] = Pick(s).quantity
  BY DEF Took, Pick
<1>3. ASSUME NEW g PROVE Folds(g) <=> Adds(g, Took, S)
  <2>1. \A s \in SUBSET S :
          (IF s = {} THEN 0 ELSE Pick(s).quantity + g[s \ {Pick(s)}])
        = (IF s = {} THEN 0 ELSE Took[Pick(s)] + g[s \ {Pick(s)}])
    BY <1>2
  <2> QED
    BY <2>1 DEF Adds
<1>4. Folds(iter)
  <2>1. \E g : Folds(g)
    BY <1>3, AddsExists
  <2> HIDE DEF Folds
  <2> QED
    BY <2>1
<1> HIDE DEF iter, Folds
<1>5. Adds(iter, Took, S)
  BY <1>3, <1>4
<1> QED
  BY <1>1, <1>5, SumIs

\* A reservation takes of an offer what its line there asks for, and nothing without one.
LEMMA TakenFacts ==
  ASSUME NEW r \in Reservations, NEW o \in Internal
  PROVE  /\ TakenBy[r][o] \in Nat
         /\ \A l \in Lines(r) : l.offer = o => TakenBy[r][o] = l.quantity
         /\ (\A l \in Lines(r) : l.offer # o) => TakenBy[r][o] = 0
<1> DEFINE S == {l \in Lines(r) : l.offer = o}
<1>1. S \in SUBSET AllLines /\ IsFiniteSet(S)
  BY LineFacts, FiniteLines
<1>2. TakenBy[r][o] = Sum(Took, S)
  <2>1. TakenBy[r][o] = MapThenSumSet(LAMBDA l : l.quantity, S)
    BY DEF TakenBy
  <2> QED
    BY <1>1, <2>1, TakenIsSum
<1>3. (\A l \in Lines(r) : l.offer # o) => TakenBy[r][o] = 0
  <2>1. (\A l \in Lines(r) : l.offer # o) => S = {}
    OBVIOUS
  <2> HIDE DEF S
  <2> QED
    BY <1>2, <2>1, SumEmpty
<1>4. ASSUME NEW l \in Lines(r), l.offer = o
      PROVE  TakenBy[r][o] = l.quantity /\ TakenBy[r][o] \in Nat
  <2>1. S = {l} /\ l \in S
    BY <1>4, LineFacts
  <2>2. \A k \in S : Took[k] \in Int
    BY <1>1, LineFacts DEF Took, LineType
  <2> HIDE DEF S
  <2>3. Sum(Took, S) = Took[l] + Sum(Took, S \ {l})
    BY <1>1, <2>1, <2>2, SumAdd
  <2>4. S \ {l} = {}
    BY <2>1
  <2>5. Sum(Took, S \ {l}) = 0
    BY <2>4, SumEmpty
  <2>6. Took[l] = l.quantity /\ l.quantity \in Nat
    BY <1>4, LineFacts DEF Took, LineType
  <2> QED
    BY <1>2, <2>3, <2>5, <2>6
<1> QED
  BY <1>3, <1>4

Shares(o) == [r \in Reservations |-> TakenBy[r][o]]

\* What the reservations S take of o together.
ReservedFor(S, o) == MapThenSumSet(LAMBDA r : TakenBy[r][o], S)

LEMMA ReservedIsSum ==
  ASSUME NEW o, NEW S \in SUBSET Reservations
  PROVE  IsFiniteSet(S) /\ ReservedFor(S, o) = Sum(Shares(o), S)
<1>0. IsFiniteSet(S)
  BY FS_Subset, StockAssumption DEF StockAssumption
<1> DEFINE f == Shares(o)
           Folds(g) == g = [s \in SUBSET S |->
             IF s = {} THEN 0 ELSE TakenBy[Pick(s)][o] + g[s \ {Pick(s)}]]
           iter == CHOOSE g : Folds(g)
<1>1. ReservedFor(S, o) = iter[S]
  BY DEF ReservedFor, MapThenSumSet, MapThenFoldSet, Pick
<1>2. \A s \in SUBSET S : s # {} => f[Pick(s)] = TakenBy[Pick(s)][o]
  BY DEF Shares, Pick
<1> HIDE DEF f
<1>3. ASSUME NEW g PROVE Folds(g) <=> Adds(g, f, S)
  <2>1. \A s \in SUBSET S :
          (IF s = {} THEN 0 ELSE TakenBy[Pick(s)][o] + g[s \ {Pick(s)}])
        = (IF s = {} THEN 0 ELSE f[Pick(s)] + g[s \ {Pick(s)}])
    BY <1>2
  <2> QED
    BY <2>1 DEF Adds
<1>4. Folds(iter)
  <2>1. \E g : Folds(g)
    BY <1>0, <1>3, AddsExists
  <2> HIDE DEF Folds
  <2> QED
    BY <2>1
<1> HIDE DEF iter, Folds
<1>5. Adds(iter, f, S)
  BY <1>3, <1>4
<1>6. ReservedFor(S, o) = Sum(f, S)
  BY <1>0, <1>1, <1>5, SumIs
<1> QED
  BY <1>0, <1>6 DEF f

LEMMA ShareTypes ==
  ASSUME NEW o \in Internal
  PROVE  \A r \in Reservations : Shares(o)[r] \in Nat /\ Shares(o)[r] = TakenBy[r][o]
BY TakenFacts DEF Shares

LEMMA SameReserved ==
  ASSUME NEW S, NEW T, S = T, NEW o
  PROVE  ReservedFor(S, o) = ReservedFor(T, o)
BY Zenon

\* One reservation more, or one less.
LEMMA ReservedStep ==
  ASSUME NEW o \in Internal, NEW S, NEW T, S \subseteq Reservations, T \subseteq Reservations,
         NEW r \in Reservations
  PROVE  /\ r \notin S /\ T = S \cup {r} => ReservedFor(T, o) = ReservedFor(S, o) + TakenBy[r][o]
         /\ r \in S /\ T = S \ {r} => ReservedFor(T, o) = ReservedFor(S, o) - TakenBy[r][o]
         /\ ReservedFor(S, o) \in Nat
<1> DEFINE f == Shares(o)
<1>1. IsFiniteSet(S) /\ ReservedFor(S, o) = Sum(f, S) /\ ReservedFor(T, o) = Sum(f, T)
  BY ReservedIsSum
<1>2. \A q \in Reservations : f[q] \in Nat /\ f[q] = TakenBy[q][o]
  BY ShareTypes
<1> HIDE DEF f
<1>3. Sum(f, S) \in Nat
  BY <1>1, <1>2, SumNat
<1>4. (r \notin S /\ T = S \cup {r}) \/ (r \in S /\ T = S \ {r}) => S \ {r} = T \ {r}
  OBVIOUS
<1>5. S \ {r} = T \ {r} => Sum(f, T) = Sum(f, S) - Brings(f, S, r) + Brings(f, T, r)
  BY <1>1, <1>2, SumStep
<1>6. /\ r \notin S /\ T = S \cup {r} => Brings(f, S, r) = 0 /\ Brings(f, T, r) = f[r]
      /\ r \in S /\ T = S \ {r} => Brings(f, S, r) = f[r] /\ Brings(f, T, r) = 0
  BY DEF Brings
<1> QED
  BY <1>1, <1>2, <1>3, <1>4, <1>5, <1>6

\* Reservations without a line at an offer take nothing of it.
LEMMA ReservedThere ==
  ASSUME NEW o \in Internal, NEW S, NEW T, S \subseteq Reservations, T \subseteq S,
         \A r \in S \ T : \A l \in Lines(r) : l.offer # o
  PROVE  ReservedFor(S, o) = ReservedFor(T, o)
<1> DEFINE f == Shares(o)
           Good == {U \in SUBSET S : Sum(f, U) = Sum(f, U \cap T)}
<1>1. IsFiniteSet(S) /\ ReservedFor(S, o) = Sum(f, S) /\ ReservedFor(T, o) = Sum(f, T)
  BY ReservedIsSum
<1>2. \A r \in S : f[r] \in Int
  BY ShareTypes
<1>3. \A r \in S \ T : f[r] = 0
  BY ShareTypes, TakenFacts
<1> HIDE DEF f
<1>4. ASSUME NEW U \in SUBSET S, \A V \in SUBSET U : V # U => V \in Good
      PROVE  U \in Good
  <2>0. IsFiniteSet(U) /\ IsFiniteSet(U \cap T)
    BY <1>1, FS_Subset
  <2>1. CASE U \subseteq T
    <3>1. U \cap T = U
      BY <2>1
    <3> QED
      BY <3>1
  <2>2. CASE \E x \in U : x \notin T
    <3>1. PICK x \in U : x \notin T
      BY <2>2
    <3>2. Sum(f, U) = f[x] + Sum(f, U \ {x}) /\ f[x] = 0
      BY <1>2, <1>3, <2>0, <3>1, SumAdd
    <3>3. U \ {x} \in Good /\ (U \ {x}) \cap T = U \cap T
      BY <1>4, <3>1
    <3>4. Sum(f, U \ {x}) = Sum(f, U \cap T)
      <4>1. Sum(f, U \ {x}) = Sum(f, (U \ {x}) \cap T)
        BY <3>3
      <4>2. Sum(f, (U \ {x}) \cap T) = Sum(f, U \cap T)
        BY <3>3, Zenon
      <4> QED
        BY <4>1, <4>2
    <3>5. Sum(f, U \cap T) \in Int
      BY <1>2, <2>0, SumType
    <3> QED
      BY <3>2, <3>4, <3>5
  <2> QED
    BY <2>1, <2>2
<1>5. S \in Good
  <2> HIDE DEF Good
  <2> QED
    BY <1>1, <1>4, SubsetInduction
<1>6. S \cap T = T
  OBVIOUS
<1> QED
  BY <1>1, <1>5, <1>6

-----------------------------------------------------------------------------
(* What transactions have under way *)

Stocked == {l \in AllLines : l.offer \in Internal}

\* t has the row of the line l written, but not yet committed, as l's outcome wants it.
Moved(t, l) ==
  \/ t \in Settlers /\ l.of \in claimed[t] /\ l \notin ToSet(left[t])
  \/ t = l.of /\ phase[t] = "hold" /\ l \notin ToSet(left[t])
  \/ t = l.of /\ phase[t] = "undo" /\ l \in ToSet(left[t])

CreateBooks(r) ==
  /\ phase[r] \in {"idle", "hold", "undo", "done"}
  /\ phase[r] # "done" => outcome[r] = "none"
  /\ phase[r] = "hold" => ToSet(left[r]) \subseteq Lines(r)
  /\ phase[r] = "undo" => ToSet(left[r]) \subseteq {l \in Stocked : l.of = r}

SettleBooks(w) ==
  /\ phase[w] \in {"idle", "confirm", "release"}
  /\ claimed[w] \subseteq Held
  /\ phase[w] = "idle" => claimed[w] = {} /\ \A o \in Offers : lock[o] # w
  /\ phase[w] = "confirm" => \E r \in Reservations : claimed[w] = {r}
  /\ ToSet(left[w]) \subseteq {l \in Stocked : l.of \in claimed[w]}

AdminBooks(a) ==
  /\ phase[a] \in {"ask", "read", "commit", "done"}
  /\ \A o \in Offers : lock[o] = a => o = request[a].offer

Distinct(s) == \A i, j \in DOMAIN s : s[i] = s[j] => i = j

BookTypes ==
  /\ outcome \in [Reservations ->
       {"none", "held", "refused", "failed", "confirmed", "released"}]
  /\ claimed \in [Settlers -> SUBSET Reservations]

ClaimsExclude == \A v, w \in Settlers : v # w => claimed[v] \cap claimed[w] = {}

\* Of one transaction: what it is at, and that what it has moved it has locked.
Booked(t) ==
  /\ t \in Reservations => CreateBooks(t)
  /\ t \in Settlers => SettleBooks(t)
  /\ t \in Operators => AdminBooks(t)
  /\ Distinct(left[t])
  /\ \A l \in Stocked : Moved(t, l) => lock[l.offer] = t

Books == BookTypes /\ ClaimsExclude /\ \A t \in Transactions : Booked(t)

HeldAt(o) == {r \in Held : \E l \in Lines(r) : l.offer = o}

\* Whether the draft of the line's row counts it: the transaction that has the row
\* locked may have moved it.
Counts(l) == IF Moved(lock[l.offer], l) THEN l.of \notin Held ELSE l.of \in Held

DraftedAt(o) == {r \in Reservations : \E l \in Lines(r) : l.offer = o /\ Counts(l)}

Account(o) ==
  o \in Internal =>
    /\ row[o].reserved = ReservedFor(HeldAt(o), o)
    /\ draft[o].reserved = ReservedFor(DraftedAt(o), o)

\* What the transaction that has a row locked can have made of its level.
LevelOf(o) ==
  /\ lock[o] \in Reservations \cup Settlers => draft[o].present = row[o].present
  /\ lock[o] \in Reservations /\ o \in Internal => draft[o].on_hand = row[o].on_hand
  /\ lock[o] \in Settlers =>
       /\ o \in Internal
       /\ phase[lock[o]] = "confirm" =>
            draft[o].on_hand - draft[o].reserved = row[o].on_hand - row[o].reserved
       /\ phase[lock[o]] # "confirm" => draft[o].on_hand = row[o].on_hand
  /\ lock[o] \in Operators => draft[o].reserved = row[o].reserved

StockInv ==
  /\ RowsInv
  /\ Books
  /\ \A o \in Offers : Account(o) /\ LevelOf(o)

-----------------------------------------------------------------------------
(* What a step leaves to the others *)

LeavesOthers(t) ==
  /\ \A u \in Transactions \ {t} : phase'[u] = phase[u] /\ left'[u] = left[u]
  /\ \A w \in Settlers \ {t} : claimed'[w] = claimed[w]
  /\ claimed' = [w \in Settlers |-> claimed'[w]]

LEMMA Kinds ==
  /\ \A r \in Reservations : r \in Transactions /\ r \notin Settlers /\ r \notin Operators
  /\ \A w \in Settlers : w \in Transactions /\ w \notin Reservations /\ w \notin Operators
  /\ \A a \in Operators : a \in Transactions /\ a \notin Settlers /\ a \notin Reservations
  /\ NoTx \notin Reservations /\ NoTx \notin Settlers /\ NoTx \notin Operators
  /\ NoTx \notin Transactions
BY StockAssumption DEF StockAssumption, Transactions

LEMMA StepLeavesOthers ==
  ASSUME RowsInv, BookTypes, NEW t \in Transactions, Acts(t)
  PROVE  LeavesOthers(t)
<1>0. /\ phase = [u \in Transactions |-> phase[u]]
      /\ left \in [Transactions -> Seq(LineType)]
      /\ claimed \in [Settlers -> SUBSET Reservations]
  BY DEF RowsInv, Types, BookTypes
<1> DEFINE Own ==
  /\ left' = left \/ \E s : left' = [left EXCEPT ![t] = s]
  /\ \/ claimed' = claimed
     \/ \E S : claimed' = [claimed EXCEPT ![t] = S]
     \/ claimed' = [w \in Settlers |-> IF w = t THEN {} ELSE claimed[w]]
<1>1. ASSUME Own PROVE LeavesOthers(t)
  <2>1. \A u \in Transactions \ {t} : phase'[u] = phase[u]
    BY ControlOfStep
  <2>2. \A u \in Transactions \ {t} : left'[u] = left[u]
    BY <1>0, <1>1
  <2>3. /\ \A w \in Settlers \ {t} : claimed'[w] = claimed[w]
        /\ claimed' = [w \in Settlers |-> claimed'[w]]
    BY <1>0, <1>1
  <2> QED
    BY <2>1, <2>2, <2>3 DEF LeavesOthers
<1>2. Ends(t) => Own
  BY DEF Ends
<1>3. GoesOn(t) /\ claimed' = claimed => Own
  BY DEF GoesOn
<1>4. Refuse(t) /\ claimed' = claimed => Own
  BY DEF Refuse
<1>5. Fail(t) => Own
  BY <1>2 DEF Fail
<1>6. SettleLine(t) => Own
  BY <1>3, <1>5 DEF SettleLine
<1>7. CASE t \in Reservations /\ Creates(t)
  <2>1. Begin(t) => Own
    BY DEF Begin
  <2>2. HoldLine(t) => Own
    BY <1>3, <1>4 DEF HoldLine
  <2>3. ObserveLine(t) => Own
    BY <1>3, <1>4 DEF ObserveLine
  <2>4. CommitCreate(t) => Own
    BY <1>2 DEF CommitCreate
  <2> HIDE DEF Own
  <2> QED
    BY <1>1, <1>6, <1>7, <2>1, <2>2, <2>3, <2>4 DEF Creates
<1>8. CASE t \in Settlers /\ Settles(t)
  <2>1. Claim(t) => Own
    BY DEF Claim
  <2>2. CommitSettled(t) => Own
    BY <1>2 DEF CommitSettled
  <2> HIDE DEF Own
  <2> QED
    BY <1>1, <1>6, <1>8, <2>1, <2>2 DEF Settles
<1>9. CASE t \in Operators /\ Administers(t)
  <2>1. Upsert(t) \/ Delete(t) \/ Read(t) => Own
    BY DEF Upsert, Delete, Read
  <2>2. CommitOperator(t) => Own
    BY <1>2 DEF CommitOperator
  <2> HIDE DEF Own
  <2> QED
    BY <1>1, <1>9, <2>1, <2>2 DEF Administers
<1>10. CASE Abort(t) \/ Break(t)
  BY <1>1, <1>5, <1>10 DEF Abort, Break
<1> QED
  BY <1>7, <1>8, <1>9, <1>10 DEF Acts, Works

\* What another transaction has moved stays as it is.
LEMMA MovedByOthers ==
  ASSUME NEW t \in Transactions, LeavesOthers(t), NEW u \in Transactions \ {t}, NEW l
  PROVE  Moved(u, l)' <=> Moved(u, l)
BY DEF LeavesOthers, Moved

LEMMA MovedByNobody == \A l \in Stocked : ~ Moved(NoTx, l) /\ ~ Moved(NoTx, l)'
BY Kinds, LineFacts DEF Moved, Stocked

\* A row that t may write counts what is held, but for what t has moved.
LEMMA FreeCounts ==
  ASSUME StockInv, NEW t \in Transactions, NEW l \in Stocked, Free(t, l.offer)
  PROVE  Counts(l) <=> (IF Moved(t, l) THEN l.of \notin Held ELSE l.of \in Held)
<1>1. CASE lock[l.offer] = t
  BY <1>1 DEF Counts
<1>2. CASE lock[l.offer] # t
  <2>1. lock[l.offer] = NoTx /\ ~ Moved(t, l)
    BY <1>2 DEF Free, StockInv, Books, Booked
  <2> QED
    BY <2>1, MovedByNobody DEF Counts
<1> QED
  BY <1>1, <1>2

-----------------------------------------------------------------------------
(* What a step does to the accounts *)

LEMMA AccountStays ==
  ASSUME NEW o \in Offers, Account(o), Held' = Held, row'[o] = row[o],
         draft'[o].reserved = draft[o].reserved,
         \A l \in Stocked : l.offer = o => (Counts(l)' <=> Counts(l))
  PROVE  Account(o)'
<1> SUFFICES ASSUME o \in Internal PROVE Account(o)'
  BY DEF Account
<1>1. \A r \in Reservations : \A l \in Lines(r) : l.offer = o => l \in Stocked
  BY LineFacts DEF Stocked
<1>2. HeldAt(o)' = HeldAt(o)
  BY DEF HeldAt
<1>3. DraftedAt(o)' = DraftedAt(o)
  BY <1>1 DEF DraftedAt
<1>4. /\ ReservedFor(HeldAt(o)', o) = ReservedFor(HeldAt(o), o)
      /\ ReservedFor(DraftedAt(o)', o) = ReservedFor(DraftedAt(o), o)
  BY <1>2, <1>3, SameReserved
<1> QED
  BY <1>4 DEF Account

LEMMA CountsStay ==
  ASSUME StockInv, NEW t \in Transactions, LeavesOthers(t), Held' = Held, NEW l \in Stocked,
         Moved(t, l)' <=> Moved(t, l),
         lock'[l.offer] = lock[l.offer] \/ (lock[l.offer] = NoTx /\ lock'[l.offer] = t)
  PROVE  Counts(l)' <=> Counts(l)
<1>0. l.offer \in Offers /\ lock[l.offer] \in Transactions \cup {NoTx}
  BY LineFacts DEF Stocked, LineType, StockInv, RowsInv, Types
<1>1. CASE lock'[l.offer] = lock[l.offer]
  <2>1. CASE lock[l.offer] = NoTx
    BY <1>1, <2>1, MovedByNobody DEF Counts
  <2>2. CASE lock[l.offer] = t
    BY <1>1, <2>2 DEF Counts
  <2>3. CASE lock[l.offer] \in Transactions \ {t}
    BY <1>1, <2>3, MovedByOthers DEF Counts
  <2> QED
    BY <1>0, <2>1, <2>2, <2>3
<1>2. CASE lock[l.offer] = NoTx /\ lock'[l.offer] = t
  <2>1. ~ Moved(t, l)
    BY <1>2, Kinds DEF StockInv, Books, Booked
  <2> QED
    BY <1>2, <2>1, MovedByNobody DEF Counts
<1> QED
  BY <1>1, <1>2

LEMMA LevelStays ==
  ASSUME NEW o \in Offers, LevelOf(o), lock'[o] = lock[o], row'[o] = row[o], draft'[o] = draft[o],
         lock[o] \in Settlers => phase'[lock[o]] = phase[lock[o]]
  PROVE  LevelOf(o)'
BY DEF LevelOf

\* Nothing is moved, and a row is written that is no stock kept here, or is so with
\* what is reserved of it as it was.
LEMMA WriteKeeps ==
  ASSUME StockInv, NEW t \in Transactions, LeavesOthers(t), Held' = Held, row' = row,
         NEW o \in Offers, NEW v \in Rows, Free(t, o), Write(t, o, v), LevelOf(o)',
         o \in Internal => v.reserved = draft[o].reserved,
         \A l \in Stocked : Moved(t, l)' <=> Moved(t, l),
         t \in Settlers => phase'[t] = phase[t]
  PROVE  \A p \in Offers : Account(p)' /\ LevelOf(p)'
<1>1. ASSUME NEW p \in Offers PROVE Account(p)' /\ LevelOf(p)'
  <2>0. Account(p) /\ LevelOf(p) /\ lock[p] \in Transactions \cup {NoTx}
    BY DEF StockInv, RowsInv, Types
  <2>1. /\ lock'[p] = IF p = o THEN t ELSE lock[p]
        /\ draft'[p] = IF p = o THEN v ELSE draft[p]
    BY DEF Write, StockInv, RowsInv, Types
  <2>2. \A l \in Stocked : l.offer = p => (Counts(l)' <=> Counts(l))
    BY <2>1, CountsStay DEF Free
  <2>3. Account(p)'
    <3>1. CASE p \notin Internal
      BY <3>1 DEF Account
    <3>2. CASE p \in Internal
      BY <2>0, <2>1, <2>2, <3>2, AccountStays
    <3> QED
      BY <3>1, <3>2
  <2>4. CASE p = o
    BY <2>3, <2>4
  <2>5. CASE p # o
    <3>1. lock[p] \in Settlers => phase'[lock[p]] = phase[lock[p]]
      BY Kinds DEF LeavesOthers
    <3> QED
      BY <2>0, <2>1, <2>3, <2>5, <3>1, LevelStays
  <2> QED
    BY <2>4, <2>5
<1> QED
  BY <1>1

\* Nothing is written, nor moved.
LEMMA QuietKeeps ==
  ASSUME StockInv, NEW t \in Transactions, LeavesOthers(t), Held' = Held,
         UNCHANGED <<row, draft, lock>>,
         \A l \in Stocked : Moved(t, l)' <=> Moved(t, l),
         t \in Settlers => phase'[t] = phase[t] \/ \A o \in Offers : lock[o] # t
  PROVE  \A p \in Offers : Account(p)' /\ LevelOf(p)'
<1>1. ASSUME NEW p \in Offers PROVE Account(p)' /\ LevelOf(p)'
  <2>1. Account(p) /\ LevelOf(p)
    BY DEF StockInv
  <2>2. \A l \in Stocked : l.offer = p => (Counts(l)' <=> Counts(l))
    BY CountsStay
  <2>3. lock[p] \in Settlers => phase'[lock[p]] = phase[lock[p]]
    BY Kinds DEF LeavesOthers
  <2> QED
    BY <2>1, <2>2, <2>3, AccountStays, LevelStays
<1> QED
  BY <1>1

\* The row of a line is written for it: its draft counts the line, or counts it no more.
LEMMA MoveKeeps ==
  ASSUME StockInv, NEW t \in Transactions, LeavesOthers(t), Held' = Held, row' = row,
         NEW l \in Stocked, NEW v \in Rows, Free(t, l.offer), Write(t, l.offer, v),
         LevelOf(l.offer)',
         v.reserved = draft[l.offer].reserved + (IF Counts(l) THEN - l.quantity ELSE l.quantity),
         Moved(t, l)' <=> ~ Moved(t, l),
         \A k \in Stocked : k # l => (Moved(t, k)' <=> Moved(t, k)),
         t \in Settlers => phase'[t] = phase[t]
  PROVE  \A p \in Offers : Account(p)' /\ LevelOf(p)'
<1> DEFINE o == l.offer
<1>0. /\ o \in Offers /\ o \in Internal /\ l.quantity \in Nat /\ l.of \in Reservations
      /\ l \in Lines(l.of)
  BY LineFacts DEF Stocked, LineType
<1>1. ASSUME NEW p \in Offers, p # o PROVE Account(p)' /\ LevelOf(p)'
  <2>0. Account(p) /\ LevelOf(p)
    BY DEF StockInv
  <2>1. lock'[p] = lock[p] /\ draft'[p] = draft[p]
    BY <1>0, <1>1 DEF Write, StockInv, RowsInv, Types
  <2>2. \A k \in Stocked : k.offer = p => (Counts(k)' <=> Counts(k))
    BY <1>1, <2>1, CountsStay
  <2>3. lock[p] \in Settlers => phase'[lock[p]] = phase[lock[p]]
    BY Kinds DEF LeavesOthers
  <2> QED
    BY <2>0, <2>1, <2>2, <2>3, AccountStays, LevelStays
<1>2. lock'[o] = t /\ draft'[o] = v
  BY <1>0 DEF Write, StockInv, RowsInv, Types
<1>3. \A k \in Stocked : k.offer = o /\ k # l => (Counts(k)' <=> Counts(k))
  BY <1>2, CountsStay DEF Free
<1>4. Counts(l)' <=> ~ Counts(l)
  <2>1. Counts(l) <=> (IF Moved(t, l) THEN l.of \notin Held ELSE l.of \in Held)
    BY FreeCounts
  <2>2. Counts(l)' <=> (IF Moved(t, l)' THEN l.of \notin Held ELSE l.of \in Held)
    BY <1>2 DEF Counts
  <2> QED
    BY <2>1, <2>2
<1>5. HeldAt(o)' = HeldAt(o)
  BY DEF HeldAt
<1>6. \A r \in Reservations : \A k \in Lines(r) :
        k.offer = o => k \in Stocked /\ k.of = r /\ (r = l.of <=> k = l)
  BY <1>0, LineFacts DEF Stocked
<1>7. \A r \in Reservations \ {l.of} : r \in DraftedAt(o)' <=> r \in DraftedAt(o)
  BY <1>3, <1>6 DEF DraftedAt
<1>8. l.of \in DraftedAt(o) <=> Counts(l)
  BY <1>0, <1>6 DEF DraftedAt
<1>9. l.of \in DraftedAt(o)' <=> ~ Counts(l)
  BY <1>0, <1>4, <1>6 DEF DraftedAt
<1>10. DraftedAt(o) \subseteq Reservations /\ DraftedAt(o)' \subseteq Reservations
  BY DEF DraftedAt
<1>11. DraftedAt(o)' = IF Counts(l) THEN DraftedAt(o) \ {l.of} ELSE DraftedAt(o) \cup {l.of}
  BY <1>0, <1>7, <1>8, <1>9, <1>10
<1>12. TakenBy[l.of][o] = l.quantity
  BY <1>0, TakenFacts
<1>13. ReservedFor(DraftedAt(o)', o) = ReservedFor(DraftedAt(o), o)
                                      + (IF Counts(l) THEN - l.quantity ELSE l.quantity)
  <2>1. ReservedFor(DraftedAt(o), o) \in Nat
    BY <1>0, <1>10, ReservedStep
  <2>2. CASE Counts(l)
    <3>1. ReservedFor(DraftedAt(o)', o) = ReservedFor(DraftedAt(o), o) - l.quantity
      BY <1>0, <1>8, <1>10, <1>11, <1>12, <2>2, ReservedStep
    <3> QED
      BY <1>0, <2>1, <2>2, <3>1
  <2>3. CASE ~ Counts(l)
    BY <1>0, <1>8, <1>10, <1>11, <1>12, <2>3, ReservedStep
  <2> QED
    BY <2>2, <2>3
<1>14. ReservedFor(HeldAt(o)', o) = ReservedFor(HeldAt(o), o)
  BY <1>5, SameReserved
<1>15. Account(o)'
  BY <1>0, <1>2, <1>13, <1>14 DEF Account, StockInv
<1> QED
  BY <1>1, <1>15

\* What is committed of the rows that t has locked is what their drafts counted, and
\* what the outcomes then say.
LEMMA CommitKeeps ==
  ASSUME StockInv, NEW t \in Transactions, LeavesOthers(t), CommitRows(t),
         \A l \in Stocked : ~ Moved(t, l)',
         \A l \in Stocked :
           l.of \in Held' <=> (IF Moved(t, l) THEN l.of \notin Held ELSE l.of \in Held)
  PROVE  \A p \in Offers : Account(p)' /\ LevelOf(p)'
<1>1. ASSUME NEW p \in Offers PROVE Account(p)' /\ LevelOf(p)'
  <2>0. /\ Account(p) /\ LevelOf(p) /\ LocksShowDrafts
        /\ lock[p] \in Transactions \cup {NoTx} /\ t # NoTx
    BY Kinds DEF StockInv, RowsInv, Types
  <2>1. /\ row'[p] = IF lock[p] = t THEN draft[p] ELSE row[p]
        /\ lock'[p] = IF lock[p] = t THEN NoTx ELSE lock[p]
        /\ draft'[p] = draft[p]
    BY DEF CommitRows, Written
  <2>2. LevelOf(p)'
    <3>1. CASE lock[p] = t
      BY <2>1, <3>1, Kinds DEF LevelOf
    <3>2. CASE lock[p] # t
      <4>1. lock[p] \in Settlers => phase'[lock[p]] = phase[lock[p]]
        BY <3>2, Kinds DEF LeavesOthers
      <4> QED
        BY <2>0, <2>1, <3>2, <4>1, LevelStays
    <3> QED
      BY <3>1, <3>2
  <2>3. ASSUME p \in Internal PROVE Account(p)'
    <3>1. \A r \in Reservations : \A l \in Lines(r) : l.offer = p => l \in Stocked /\ l.of = r
      BY <2>3, LineFacts DEF Stocked
    <3>2. CASE lock[p] = t
      <4>1. \A l \in Stocked : l.offer = p => (l.of \in Held' <=> Counts(l))
        BY <3>2 DEF Counts
      <4>2. \A l \in Stocked : l.offer = p => (l.of \in Held' <=> Counts(l)')
        BY <2>1, <3>2, MovedByNobody DEF Counts
      <4>3. HeldAt(p)' = DraftedAt(p)
        BY <3>1, <4>1 DEF HeldAt, DraftedAt, Held
      <4>4. DraftedAt(p)' = DraftedAt(p)
        BY <3>1, <4>1, <4>2 DEF DraftedAt
      <4>5. /\ ReservedFor(HeldAt(p)', p) = ReservedFor(DraftedAt(p), p)
            /\ ReservedFor(DraftedAt(p)', p) = ReservedFor(DraftedAt(p), p)
        BY <4>3, <4>4, SameReserved
      <4> QED
        BY <2>0, <2>1, <2>3, <3>2, <4>5 DEF Account
    <3>3. CASE lock[p] # t
      <4>1. \A l \in Stocked : l.offer = p => ~ Moved(t, l) /\ (l.of \in Held' <=> l.of \in Held)
        BY <3>3 DEF StockInv, Books, Booked
      <4>2. ASSUME NEW l \in Stocked, l.offer = p PROVE Counts(l)' <=> Counts(l)
        <5>1. CASE lock[p] = NoTx
          BY <2>1, <3>3, <4>1, <4>2, <5>1, MovedByNobody DEF Counts
        <5>2. CASE lock[p] \in Transactions \ {t}
          BY <2>1, <3>3, <4>1, <4>2, <5>2, MovedByOthers DEF Counts
        <5> QED
          BY <2>0, <3>3, <5>1, <5>2
      <4>3. \A l \in Stocked : l.offer = p => (Counts(l)' <=> Counts(l))
        BY <4>2
      <4>4. HeldAt(p)' = HeldAt(p)
        BY <3>1, <4>1 DEF HeldAt, Held
      <4>5. DraftedAt(p)' = DraftedAt(p)
        BY <3>1, <4>3 DEF DraftedAt
      <4>6. /\ ReservedFor(HeldAt(p)', p) = ReservedFor(HeldAt(p), p)
            /\ ReservedFor(DraftedAt(p)', p) = ReservedFor(DraftedAt(p), p)
        BY <4>4, <4>5, SameReserved
      <4> QED
        BY <2>0, <2>1, <2>3, <3>3, <4>6 DEF Account
    <3> QED
      BY <3>2, <3>3
  <2> QED
    BY <2>2, <2>3 DEF Account
<1> QED
  BY <1>1

\* A rollback brings the drafts back to what is committed.
LEMMA RollbackKeeps ==
  ASSUME StockInv, NEW t \in Transactions, LeavesOthers(t), Rollback(t), Held' = Held,
         \A l \in Stocked : ~ Moved(t, l)'
  PROVE  \A p \in Offers : Account(p)' /\ LevelOf(p)'
<1>1. ASSUME NEW p \in Offers PROVE Account(p)' /\ LevelOf(p)'
  <2>0. Account(p) /\ LevelOf(p) /\ lock[p] \in Transactions \cup {NoTx} /\ t # NoTx
    BY Kinds DEF StockInv, RowsInv, Types
  <2>1. /\ row'[p] = row[p]
        /\ lock'[p] = IF lock[p] = t THEN NoTx ELSE lock[p]
        /\ draft'[p] = IF lock[p] = t THEN row[p] ELSE draft[p]
    BY DEF Rollback, Written
  <2>2. CASE lock[p] = t
    <3>1. LevelOf(p)'
      BY <2>1, <2>2, Kinds DEF LevelOf
    <3>2. ASSUME p \in Internal PROVE Account(p)'
      <4>1. \A r \in Reservations : \A l \in Lines(r) : l.offer = p => l \in Stocked /\ l.of = r
        BY <3>2, LineFacts DEF Stocked
      <4>2. \A l \in Stocked : l.offer = p => (Counts(l)' <=> l.of \in Held)
        BY <2>1, <2>2, MovedByNobody DEF Counts
      <4>3. HeldAt(p)' = HeldAt(p)
        BY DEF HeldAt
      <4>4. DraftedAt(p)' = HeldAt(p)
        BY <4>1, <4>2 DEF DraftedAt, HeldAt, Held
      <4>5. /\ ReservedFor(HeldAt(p)', p) = ReservedFor(HeldAt(p), p)
            /\ ReservedFor(DraftedAt(p)', p) = ReservedFor(HeldAt(p), p)
        BY <4>3, <4>4, SameReserved
      <4> QED
        BY <2>0, <2>1, <2>2, <3>2, <4>5 DEF Account
    <3> QED
      BY <3>1, <3>2 DEF Account
  <2>3. CASE lock[p] # t
    <3>1. lock[p] \in Settlers => phase'[lock[p]] = phase[lock[p]]
      BY <2>3, Kinds DEF LeavesOthers
    <3>2. \A l \in Stocked : l.offer = p => (Moved(t, l)' <=> Moved(t, l))
      BY <2>3 DEF StockInv, Books, Booked
    <3>3. \A l \in Stocked : l.offer = p => (Counts(l)' <=> Counts(l))
      BY <2>1, <2>3, <3>2, CountsStay
    <3> QED
      BY <2>0, <2>1, <2>3, <3>1, <3>3, AccountStays, LevelStays
  <2> QED
    BY <2>2, <2>3
<1> QED
  BY <1>1

-----------------------------------------------------------------------------
(* The lines that a transaction has still to write *)

LEMMA EmptyLines == ToSet(<<>>) = {} /\ Distinct(<<>>)
BY DEF ToSet, Distinct

\* With its head, a sequence of distinct lines loses that line and no other.
LEMMA TailLines ==
  ASSUME NEW s \in Seq(LineType), s # <<>>, Distinct(s)
  PROVE  /\ Head(s) \in ToSet(s)
         /\ ToSet(Tail(s)) = ToSet(s) \ {Head(s)}
         /\ Distinct(Tail(s))
<1>1. /\ Len(s) \in Nat /\ Len(s) >= 1 /\ DOMAIN s = 1 .. Len(s)
      /\ Head(s) = s[1]
      /\ Tail(s) \in Seq(LineType) /\ Len(Tail(s)) = Len(s) - 1
      /\ \A i \in 1 .. Len(Tail(s)) : Tail(s)[i] = s[i + 1]
  BY HeadTailProperties, LenProperties, EmptySeq
<1>2. DOMAIN Tail(s) = 1 .. Len(Tail(s))
  BY <1>1, LenProperties
<1>3. Head(s) \in ToSet(s)
  BY <1>1 DEF ToSet
<1>4. Distinct(Tail(s))
  <2> SUFFICES ASSUME NEW i \in DOMAIN Tail(s), NEW j \in DOMAIN Tail(s), Tail(s)[i] = Tail(s)[j]
               PROVE  i = j
    BY DEF Distinct
  <2>1. i + 1 \in DOMAIN s /\ j + 1 \in DOMAIN s /\ s[i + 1] = s[j + 1]
    BY <1>1, <1>2
  <2>2. i + 1 = j + 1
    BY <2>1 DEF Distinct
  <2> QED
    BY <1>1, <1>2, <2>2
<1>5. ASSUME NEW x \in ToSet(Tail(s)) PROVE x \in ToSet(s) /\ x # Head(s)
  <2>1. PICK i \in DOMAIN Tail(s) : x = Tail(s)[i]
    BY <1>5 DEF ToSet
  <2>2. i + 1 \in DOMAIN s /\ x = s[i + 1] /\ i + 1 # 1
    BY <1>1, <1>2, <2>1
  <2>3. 1 \in DOMAIN s
    BY <1>1
  <2> QED
    BY <1>1, <2>2, <2>3 DEF ToSet, Distinct
<1>6. ASSUME NEW x \in ToSet(s), x # Head(s) PROVE x \in ToSet(Tail(s))
  <2>1. PICK i \in DOMAIN s : x = s[i]
    BY <1>6 DEF ToSet
  <2>2. i - 1 \in 1 .. Len(Tail(s)) /\ (i - 1) + 1 = i
    BY <1>1, <1>6, <2>1
  <2>3. i - 1 \in DOMAIN Tail(s) /\ Tail(s)[i - 1] = x
    BY <1>1, <1>2, <2>1, <2>2
  <2> QED
    BY <2>3 DEF ToSet
<1> QED
  BY <1>3, <1>4, <1>5, <1>6

LEMMA OrderedLines ==
  ASSUME NEW S \in SUBSET AllLines, NEW s \in SetToSeqs(S)
  PROVE  ToSet(s) = S /\ Distinct(s)
<1> DEFINE n == Cardinality(S)
           D == 1 .. n
<1>1. IsFiniteSet(S) /\ n \in Nat
  BY FiniteLines, FS_CardinalityType
<1>2. s \in [D -> S] /\ \A i, j \in D : i # j => s[i] # s[j]
  BY DEF SetToSeqs
<1>3. s \in Injection(D, S)
  BY <1>2 DEF Injection, IsInjective
<1>4. Cardinality(D) = n
  BY <1>1, FS_Interval
<1>5. s \in Surjection(D, S)
  BY <1>1, <1>3, <1>4, FS_Injection
<1>6. \A x \in S : \E i \in D : s[i] = x
  BY <1>5 DEF Surjection
<1> HIDE DEF D
<1> QED
  BY <1>2, <1>6 DEF ToSet, Distinct

-----------------------------------------------------------------------------
(* What each step does to the books and the accounts *)

\* The outcomes that a step of t can change.
OutcomesMove(t) ==
  \A r \in Reservations :
    \/ outcome'[r] = outcome[r]
    \/ r = t /\ outcome[r] = "none"
    \/ t \in Settlers /\ r \in claimed[t]

KeepsStock(t) ==
  /\ BookTypes' /\ ClaimsExclude' /\ OutcomesMove(t)
  /\ Booked(t)'
  /\ \A p \in Offers : Account(p)' /\ LevelOf(p)'

LEMMA StockFacts ==
  ASSUME StockInv, NEW t \in Transactions
  PROVE  /\ RowsInv /\ Types /\ Books /\ BookTypes /\ Booked(t)
         /\ left[t] \in Seq(LineType) /\ Distinct(left[t])
BY DEF StockInv, Books, Booked, RowsInv, Types

\* What a transaction that ends leaves of its own.
LEMMA EndsBooked ==
  ASSUME StockInv, NEW t \in Transactions, Ends(t), \A o \in Offers : lock'[o] # t,
         outcome' \in [Reservations ->
           {"none", "held", "refused", "failed", "confirmed", "released"}]
  PROVE  /\ BookTypes' /\ ClaimsExclude' /\ Booked(t)'
         /\ \A l \in Stocked : ~ Moved(t, l)'
<1>0. Types /\ Books
  BY StockFacts
<1>1. /\ phase'[t] = IF t \in Settlers THEN "idle" ELSE "done"
      /\ left'[t] = <<>>
      /\ claimed' = [w \in Settlers |-> IF w = t THEN {} ELSE claimed[w]]
  BY <1>0 DEF Ends, Types
<1>2. BookTypes' /\ ClaimsExclude'
  BY <1>0, <1>1 DEF Books, BookTypes, ClaimsExclude
<1>3. \A l \in Stocked : ~ Moved(t, l)'
  BY <1>1, EmptyLines DEF Moved
<1>4. ToSet(left'[t]) = {} /\ Distinct(left'[t])
  BY <1>1, EmptyLines
<1>5. t \in Reservations => CreateBooks(t)'
  BY <1>1, Kinds DEF CreateBooks
<1>6. t \in Settlers => SettleBooks(t)'
  BY <1>1, <1>4 DEF SettleBooks
<1>7. t \in Operators => AdminBooks(t)'
  BY <1>1, Kinds DEF AdminBooks
<1> QED
  BY <1>2, <1>3, <1>4, <1>5, <1>6, <1>7 DEF Booked

LEMMA FailKeeps ==
  ASSUME StockInv, NEW t \in Transactions, Acts(t), Fail(t),
         t \in Reservations => outcome[t] = "none"
  PROVE  KeepsStock(t)
<1>0. RowsInv /\ Types /\ BookTypes
  BY StockFacts
<1>1. /\ Rollback(t) /\ Ends(t)
      /\ outcome' = [r \in Reservations |-> IF r = t THEN "failed" ELSE outcome[r]]
  BY DEF Fail
<1>2. \A o \in Offers : lock'[o] # t
  BY <1>1, Kinds DEF Rollback, Written
<1>3. OutcomesMove(t)
  BY <1>1 DEF OutcomesMove
<1>4. Held' = Held
  BY <1>1 DEF Held
<1>5. outcome' \in [Reservations ->
         {"none", "held", "refused", "failed", "confirmed", "released"}]
  BY <1>0, <1>1 DEF BookTypes
<1>6. LeavesOthers(t)
  BY <1>0, StepLeavesOthers
<1> QED
  BY <1>1, <1>2, <1>3, <1>4, <1>5, <1>6, EndsBooked, RollbackKeeps DEF KeepsStock

\* A step that changes no outcome and no claim.
LEMMA OwnBooks ==
  ASSUME StockInv, NEW t \in Transactions, UNCHANGED <<outcome, claimed>>
  PROVE  BookTypes' /\ ClaimsExclude' /\ OutcomesMove(t) /\ Held' = Held
BY StockFacts DEF Books, BookTypes, ClaimsExclude, OutcomesMove, Held

LEMMA BeginKeeps ==
  ASSUME StockInv, NEW r \in Reservations, Acts(r), Begin(r)
  PROVE  KeepsStock(r)
<1> DEFINE s == [i \in DOMAIN LinesOf[r] |-> Line(r, i)]
<1>0. /\ r \in Transactions /\ Types /\ Booked(r) /\ CreateBooks(r) /\ LeavesOthers(r)
      /\ phase[r] = "idle" /\ outcome[r] = "none"
  BY Kinds, StockFacts, StepLeavesOthers DEF Booked, Begin
<1>1. /\ phase'[r] = "hold" /\ left'[r] = s /\ UNCHANGED <<row, draft, lock, outcome, claimed>>
  BY <1>0 DEF Begin, Types
<1>2. ToSet(s) = Lines(r)
  BY DEF ToSet, Lines
<1>3. Distinct(s)
  <2> SUFFICES ASSUME NEW i \in DOMAIN s, NEW j \in DOMAIN s, s[i] = s[j] PROVE i = j
    BY DEF Distinct
  <2>1. /\ i \in DOMAIN LinesOf[r] /\ j \in DOMAIN LinesOf[r]
        /\ LinesOf[r][i].offer = LinesOf[r][j].offer
    BY DEF Line
  <2> QED
    BY <2>1, StockAssumption DEF StockAssumption
<1> HIDE DEF s
<1>4. \A l \in Stocked : ~ Moved(r, l) /\ ~ Moved(r, l)'
  BY <1>0, <1>1, <1>2, Kinds, LineFacts DEF Moved, Stocked
<1>5. Booked(r)'
  BY <1>0, <1>1, <1>2, <1>3, <1>4, Kinds DEF Booked, CreateBooks
<1> QED
  BY <1>0, <1>1, <1>4, <1>5, OwnBooks, QuietKeeps, Kinds DEF KeepsStock

\* A line is passed over for another that is held, or all are given back.
LEMMA RefuseMoves ==
  ASSUME StockInv, NEW r \in Reservations, phase[r] = "hold", Refuse(r), outcome' = outcome,
         \A o \in Offers : lock[o] = r => lock'[o] = r
  PROVE  /\ Booked(r)'
         /\ \A l \in Stocked : Moved(r, l)' <=> Moved(r, l)
<1> DEFINE S == {l \in Lines(r) \ ToSet(left[r]) : l.offer \in Internal}
<1>0. r \in Transactions /\ Types /\ Booked(r) /\ CreateBooks(r)
  BY Kinds, StockFacts DEF Booked
<1>1. PICK s \in SetToSeqs(S) : left' = [left EXCEPT ![r] = s]
  BY DEF Refuse
<1>2. phase'[r] = "undo" /\ left'[r] = s
  BY <1>0, <1>1 DEF Refuse, Types
<1>3. S \in SUBSET AllLines
  BY LineFacts
<1>4. ToSet(s) = S /\ Distinct(s)
  BY <1>1, <1>3, OrderedLines
<1>5. \A l \in Stocked : Moved(r, l)' <=> Moved(r, l)
  <2>1. \A l \in Stocked : r = l.of => (l \in ToSet(s) <=> l \notin ToSet(left[r]))
    BY <1>4, LineFacts DEF Stocked
  <2> QED
    BY <1>2, <2>1, Kinds DEF Moved
<1>6. CreateBooks(r)'
  BY <1>0, <1>2, <1>4, LineFacts DEF CreateBooks, Stocked
<1>7. \A l \in Stocked : Moved(r, l)' => lock'[l.offer] = r
  BY <1>0, <1>5, LineFacts DEF Booked, Stocked, LineType
<1> QED
  BY <1>2, <1>4, <1>5, <1>6, <1>7, Kinds DEF Booked

\* The next line of a transaction is done with.
LEMMA GoesOnMoves ==
  ASSUME StockInv, NEW t \in Transactions, left[t] # <<>>, GoesOn(t), phase' = phase,
         phase[t] \in {"hold", "undo", "confirm", "release"},
         UNCHANGED <<outcome, claimed>>, t \in Reservations \cup Settlers,
         \A o \in Offers : lock[o] = t => lock'[o] = t,
         NEW h, h = Head(left[t]), h.offer \in Internal => lock'[h.offer] = t
  PROVE  /\ Booked(t)'
         /\ h.offer \in Internal => (Moved(t, h)' <=> ~ Moved(t, h))
         /\ \A l \in Stocked : l # h => (Moved(t, l)' <=> Moved(t, l))
<1>0. Types /\ BookTypes /\ Booked(t) /\ left[t] \in Seq(LineType) /\ Distinct(left[t])
  BY StockFacts
<1>1. left'[t] = Tail(left[t])
  BY <1>0 DEF GoesOn, Types
<1>2. h \in ToSet(left[t]) /\ ToSet(left'[t]) = ToSet(left[t]) \ {h} /\ Distinct(left'[t])
  BY <1>0, <1>1, TailLines
<1>4. \A l \in Stocked : l # h => (Moved(t, l)' <=> Moved(t, l))
  BY <1>2 DEF Moved
<1>5. Moved(t, h)' <=> ~ Moved(t, h)
  <2>1. CASE t \in Settlers
    <3>1. h.of \in claimed[t] /\ h.of # t
      BY <1>0, <1>2, <2>1, Kinds, LineFacts DEF Booked, SettleBooks, Stocked
    <3> QED
      BY <1>2, <2>1, <3>1 DEF Moved
  <2>2. CASE t \in Reservations
    <3>1. h.of = t /\ t \notin Settlers /\ phase[t] \in {"hold", "undo"}
      BY <1>0, <1>2, <2>2, Kinds, LineFacts DEF Booked, CreateBooks, Stocked
    <3> QED
      BY <1>2, <3>1 DEF Moved
  <2> QED
    BY <2>1, <2>2
<1>6. \A l \in Stocked : Moved(t, l)' => lock'[l.offer] = t
  <2> SUFFICES ASSUME NEW l \in Stocked, Moved(t, l)' PROVE lock'[l.offer] = t
    OBVIOUS
  <2>1. l.offer \in Offers /\ l.offer \in Internal
    BY LineFacts DEF Stocked, LineType
  <2>2. CASE l = h
    BY <2>1, <2>2
  <2>3. CASE l # h
    BY <1>0, <1>4, <2>1, <2>3 DEF Booked
  <2> QED
    BY <2>2, <2>3
<1>7. t \in Reservations => CreateBooks(t)'
  BY <1>0, <1>2 DEF Booked, CreateBooks
<1>8. t \in Settlers => SettleBooks(t)'
  BY <1>0, <1>2 DEF Booked, SettleBooks, Held
<1>9. t \notin Operators
  BY Kinds
<1> QED
  BY <1>2, <1>4, <1>5, <1>6, <1>7, <1>8, <1>9 DEF Booked

\* The line at the head of those that a transaction has still to write.
LEMMA NextLine ==
  ASSUME StockInv, NEW t \in Transactions, left[t] # <<>>
  PROVE  /\ Head(left[t]) \in LineType /\ Head(left[t]) \in ToSet(left[t])
         /\ t \in Reservations /\ phase[t] \in {"hold", "undo"} => Head(left[t]) \in AllLines
         /\ t \in Reservations /\ phase[t] \in {"hold", "undo"} => Head(left[t]).of = t
         /\ t \in Reservations /\ phase[t] = "undo" => Head(left[t]) \in Stocked
         /\ t \in Settlers => Head(left[t]) \in Stocked /\ Head(left[t]).of \in claimed[t]
<1> DEFINE h == Head(left[t])
<1>1. Booked(t) /\ left[t] \in Seq(LineType) /\ Distinct(left[t])
  BY StockFacts
<1>2. h \in LineType /\ h \in ToSet(left[t])
  BY <1>1, HeadTailProperties, TailLines
<1> HIDE DEF h
<1>3. t \in Settlers => h \in Stocked /\ h.of \in claimed[t]
  BY <1>1, <1>2 DEF Booked, SettleBooks
<1>4. t \in Reservations /\ phase[t] = "hold" => h \in AllLines /\ h.of = t
  BY <1>1, <1>2, LineFacts DEF Booked, CreateBooks
<1>5. t \in Reservations /\ phase[t] = "undo" => h \in Stocked /\ h.of = t
  BY <1>1, <1>2 DEF Booked, CreateBooks
<1> QED
  BY <1>2, <1>3, <1>4, <1>5 DEF Stocked, h

-----------------------------------------------------------------------------
(* The statements that write lines *)

\* What the draft of a row that t may write has of its level.
LEMMA FreeLevel ==
  ASSUME StockInv, NEW t \in Transactions, NEW o \in Offers, Free(t, o)
  PROVE  /\ row[o] \in Rows /\ draft[o] \in Rows /\ Seen(t, o) = draft[o] /\ Sound(draft[o])
         /\ t \in Reservations \cup Settlers => draft[o].present = row[o].present
         /\ t \in Reservations /\ o \in Internal => draft[o].on_hand = row[o].on_hand
         /\ t \in Settlers /\ phase[t] = "confirm" =>
              draft[o].on_hand - draft[o].reserved = row[o].on_hand - row[o].reserved
         /\ t \in Settlers /\ phase[t] # "confirm" => draft[o].on_hand = row[o].on_hand
         /\ t \in Operators => draft[o].reserved = row[o].reserved
<1>1. LevelOf(o) /\ row[o] \in Rows /\ draft[o] \in Rows /\ Sound(draft[o])
  BY DEF StockInv, RowsInv, Types
<1>2. lock[o] = t \/ draft[o] = row[o]
  BY DEF Free, StockInv, RowsInv, LocksShowDrafts
<1> QED
  BY <1>1, <1>2 DEF Free, Seen, LevelOf

LEMMA HoldLineKeeps ==
  ASSUME StockInv, NEW r \in Reservations, Acts(r), HoldLine(r)
  PROVE  KeepsStock(r)
<1>0. /\ r \in Transactions /\ Types /\ Booked(r) /\ CreateBooks(r) /\ LeavesOthers(r)
      /\ phase[r] = "hold" /\ left[r] # <<>> /\ outcome[r] = "none"
      /\ UNCHANGED <<row, outcome, claimed>>
  BY Kinds, StockFacts, StepLeavesOthers DEF Booked, CreateBooks, HoldLine
<1>1. PICK h : h = Head(left[r])
  OBVIOUS
<1>2. h \in Stocked /\ h \in ToSet(left[r]) /\ h.of = r /\ h.offer \in Offers /\ h.quantity \in Nat
  BY <1>0, <1>1, NextLine DEF HoldLine, Stocked, LineType
<1> DEFINE o == h.offer
           v == Hold(draft[o], h.quantity)
<1>3. ASSUME Free(r, o), Write(r, o, Hold(Seen(r, o), h.quantity)),
             Fits(Seen(r, o), h.quantity), GoesOn(r), phase' = phase
      PROVE  KeepsStock(r)
  <2>1. /\ row[o] \in Rows /\ draft[o] \in Rows /\ Seen(r, o) = draft[o]
        /\ draft[o].present = row[o].present /\ draft[o].on_hand = row[o].on_hand
    BY <1>0, <1>2, <1>3, FreeLevel DEF Stocked
  <2>2. Write(r, o, v) /\ draft[o].present
    BY <1>3, <2>1 DEF Fits
  <2>3. /\ v \in Rows /\ v.reserved = draft[o].reserved + h.quantity
        /\ v.on_hand = draft[o].on_hand /\ v.present
    BY <1>2, <2>1 DEF Hold, Row, Rows
  <2> HIDE DEF v
  <2>4. draft'[o] = v /\ \A p \in Offers : lock'[p] = IF p = o THEN r ELSE lock[p]
    BY <1>0, <1>2, <2>2 DEF Write, Types
  <2>5. /\ Booked(r)' /\ (Moved(r, h)' <=> ~ Moved(r, h))
        /\ \A l \in Stocked : l # h => (Moved(r, l)' <=> Moved(r, l))
    BY <1>0, <1>1, <1>2, <1>3, <2>4, GoesOnMoves DEF Stocked
  <2>6. ~ Moved(r, h)
    BY <1>0, <1>2, Kinds DEF Moved
  <2>7. ~ Counts(h)
    BY <1>0, <1>2, <1>3, <2>6, FreeCounts DEF Held
  <2>8. LevelOf(o)'
    BY <1>0, <1>2, <2>1, <2>2, <2>3, <2>4, Kinds DEF LevelOf
  <2>9. BookTypes' /\ ClaimsExclude' /\ OutcomesMove(r) /\ Held' = Held
    BY <1>0, OwnBooks
  <2>10. \A p \in Offers : Account(p)' /\ LevelOf(p)'
    BY <1>0, <1>2, <1>3, <2>2, <2>3, <2>5, <2>7, <2>8, <2>9, MoveKeeps, Kinds
  <2> QED
    BY <2>5, <2>9, <2>10 DEF KeepsStock
<1>4. ASSUME Refuse(r), UNCHANGED <<draft, lock>>
      PROVE  KeepsStock(r)
  <2>1. Booked(r)' /\ \A l \in Stocked : Moved(r, l)' <=> Moved(r, l)
    BY <1>0, <1>4, RefuseMoves
  <2>2. BookTypes' /\ ClaimsExclude' /\ OutcomesMove(r) /\ Held' = Held
    BY <1>0, OwnBooks
  <2>3. \A p \in Offers : Account(p)' /\ LevelOf(p)'
    BY <1>0, <1>4, <2>1, <2>2, QuietKeeps, Kinds
  <2> QED
    BY <2>1, <2>2, <2>3 DEF KeepsStock
<1> QED
  BY <1>1, <1>3, <1>4 DEF HoldLine

\* After an observation the line is done with, or the others are given back.
LEMMA ObserveMoves ==
  ASSUME StockInv, NEW r \in Reservations, phase[r] = "hold", left[r] # <<>>,
         Head(left[r]).offer \notin Internal, UNCHANGED <<outcome, claimed>>,
         \A o \in Offers : lock[o] = r => lock'[o] = r,
         (GoesOn(r) /\ UNCHANGED phase) \/ Refuse(r)
  PROVE  Booked(r)' /\ \A l \in Stocked : Moved(r, l)' <=> Moved(r, l)
<1>0. r \in Transactions
  BY Kinds
<1>1. CASE Refuse(r)
  BY <1>1, RefuseMoves
<1>2. CASE GoesOn(r) /\ UNCHANGED phase
  <2>1. PICK h : h = Head(left[r])
    OBVIOUS
  <2>2. Booked(r)' /\ \A l \in Stocked : l # h => (Moved(r, l)' <=> Moved(r, l))
    BY <1>0, <1>2, <2>1, GoesOnMoves
  <2> QED
    BY <2>1, <2>2 DEF Stocked
<1> QED
  BY <1>1, <1>2

LEMMA ObserveLineKeeps ==
  ASSUME StockInv, NEW r \in Reservations, Acts(r), ObserveLine(r)
  PROVE  KeepsStock(r)
<1> DEFINE o == Head(left[r]).offer
           n == Seen(r, o)
<1>0. /\ r \in Transactions /\ Types /\ LeavesOthers(r)
      /\ phase[r] = "hold" /\ left[r] # <<>> /\ o \in Offers
      /\ o \notin Internal
      /\ (GoesOn(r) /\ UNCHANGED phase) \/ Refuse(r)
      /\ UNCHANGED <<row, outcome, claimed>>
  BY Kinds, StockFacts, StepLeavesOthers, StockAssumption
     DEF StockAssumption, ObserveLine, Offers
<1>1. BookTypes' /\ ClaimsExclude' /\ OutcomesMove(r) /\ Held' = Held
  BY <1>0, OwnBooks
<1>2. CASE UNCHANGED <<draft, lock>>
  <2>1. Booked(r)' /\ \A l \in Stocked : Moved(r, l)' <=> Moved(r, l)
    BY <1>0, <1>2, ObserveMoves
  <2>2. \A p \in Offers : Account(p)' /\ LevelOf(p)'
    BY <1>0, <1>1, <1>2, <2>1, QuietKeeps, Kinds
  <2> QED
    BY <1>1, <2>1, <2>2 DEF KeepsStock
<1>3. ASSUME n.present, Free(r, o), NEW k \in Levels,
             Write(r, o, Row(IF k > n.reserved THEN k ELSE n.reserved, n.reserved))
      PROVE  KeepsStock(r)
  <2>1. PICK p \in Offers : p = o
    BY <1>0
  <2>2. PICK v : v = Row(IF k > n.reserved THEN k ELSE n.reserved, n.reserved)
    OBVIOUS
  <2>3. Seen(r, p) = draft[p] /\ draft[p] \in Rows /\ draft[p].present = row[p].present
    BY <1>0, <1>3, <2>1, FreeLevel
  <2>4. v \in Rows /\ v.present /\ draft[p].present
    BY <1>3, <2>1, <2>2, <2>3, StockAssumption DEF StockAssumption, Row, Rows
  <2>5. Write(r, p, v) /\ Free(r, p)
    BY <1>3, <2>1, <2>2
  <2>6. draft'[p] = v /\ \A q \in Offers : lock'[q] = IF q = p THEN r ELSE lock[q]
    BY <1>0, <2>5 DEF Write, Types
  <2>7. Booked(r)' /\ \A l \in Stocked : Moved(r, l)' <=> Moved(r, l)
    BY <1>0, <2>6, ObserveMoves
  <2>8. LevelOf(p)'
    BY <1>0, <2>1, <2>3, <2>4, <2>6, Kinds DEF LevelOf
  <2>9. \A q \in Offers : Account(q)' /\ LevelOf(q)'
    BY <1>0, <1>1, <2>1, <2>4, <2>5, <2>7, <2>8, WriteKeeps, Kinds
  <2> QED
    BY <1>1, <2>7, <2>9 DEF KeepsStock
<1> QED
  BY <1>2, <1>3 DEF ObserveLine

\* A line is settled, or given back by a creation that is refused.
LEMMA SettleLineKeeps ==
  ASSUME StockInv, NEW t \in Reservations \cup Settlers, Acts(t), SettleLine(t)
  PROVE  KeepsStock(t)
<1>0. /\ t \in Transactions /\ Types /\ Booked(t) /\ LeavesOthers(t)
      /\ phase[t] \in {"confirm", "release", "undo"} /\ left[t] # <<>>
  BY Kinds, StockFacts, StepLeavesOthers DEF SettleLine
<1>1. t \in Reservations => phase[t] = "undo" /\ outcome[t] = "none"
  BY <1>0 DEF Booked, CreateBooks
<1>2. PICK h : h = Head(left[t])
  OBVIOUS
<1>3. /\ h \in Stocked /\ h \in ToSet(left[t]) /\ h.offer \in Offers /\ h.offer \in Internal
      /\ h.quantity \in Nat
      /\ t \in Reservations => h.of = t
      /\ t \in Settlers => h.of \in claimed[t]
  BY <1>0, <1>1, <1>2, NextLine DEF Stocked, LineType
<1> DEFINE o == h.offer
           found == IF phase[t] = "confirm" THEN Confirmable(Seen(t, o), h.quantity)
                                            ELSE Releasable(Seen(t, o), h.quantity)
           u(x) == IF phase[t] = "confirm" THEN Confirm(x, h.quantity) ELSE Release(x, h.quantity)
<1>4. ASSUME found, Free(t, o), Write(t, o, u(Seen(t, o))), GoesOn(t),
             UNCHANGED <<row, outcome, phase, claimed>>
      PROVE  KeepsStock(t)
  <2>1. PICK v : v = u(draft[o])
    OBVIOUS
  <2>2. /\ row[o] \in Rows /\ draft[o] \in Rows /\ Seen(t, o) = draft[o]
        /\ draft[o].present = row[o].present
        /\ t \in Reservations => draft[o].on_hand = row[o].on_hand
        /\ t \in Settlers /\ phase[t] = "confirm" =>
              draft[o].on_hand - draft[o].reserved = row[o].on_hand - row[o].reserved
        /\ t \in Settlers /\ phase[t] # "confirm" => draft[o].on_hand = row[o].on_hand
    BY <1>0, <1>3, <1>4, FreeLevel
  <2>3. Write(t, o, v) /\ draft[o].present
    BY <1>4, <2>1, <2>2 DEF Confirmable, Releasable
  <2>4. /\ v \in Rows /\ v.reserved = draft[o].reserved - h.quantity /\ v.present
        /\ v.on_hand = IF phase[t] = "confirm" THEN draft[o].on_hand - h.quantity
                                               ELSE draft[o].on_hand
    BY <1>3, <2>1, <2>2 DEF Confirm, Release, Row, Rows
  <2> HIDE DEF u
  <2>5. draft'[o] = v /\ \A p \in Offers : lock'[p] = IF p = o THEN t ELSE lock[p]
    BY <1>0, <1>3, <2>3 DEF Write, Types
  <2>6. /\ Booked(t)' /\ (Moved(t, h)' <=> ~ Moved(t, h))
        /\ \A l \in Stocked : l # h => (Moved(t, l)' <=> Moved(t, l))
    <3>1. o \in Internal => lock'[o] = t
      BY <1>3, <2>5
    <3>2. \A p \in Offers : lock[p] = t => lock'[p] = t
      BY <2>5
    <3> QED
      BY <1>0, <1>2, <1>3, <1>4, <3>1, <3>2, GoesOnMoves
  <2>7. Counts(h)
    <3>1. CASE t \in Settlers
      <4>1. h.of \in Held /\ h.of # t
        BY <1>0, <1>3, <3>1, Kinds, LineFacts DEF Booked, SettleBooks, Stocked
      <4>2. ~ Moved(t, h)
        BY <1>3, <4>1 DEF Moved
      <4> QED
        BY <1>0, <1>3, <1>4, <4>1, <4>2, FreeCounts
    <3>2. CASE t \in Reservations
      <4>1. h.of \notin Held /\ Moved(t, h)
        BY <1>0, <1>1, <1>3, <3>2 DEF Moved, Held
      <4> QED
        BY <1>0, <1>3, <1>4, <4>1, FreeCounts
    <3> QED
      BY <3>1, <3>2
  <2>8. LevelOf(o)'
    <3>1. draft'[o].present = row'[o].present
      BY <1>4, <2>2, <2>3, <2>4, <2>5
    <3>2. phase[t] # "confirm" => draft'[o].on_hand = row'[o].on_hand
      BY <1>1, <1>4, <2>2, <2>4, <2>5
    <3>3. phase[t] = "confirm" => draft'[o].on_hand - draft'[o].reserved
                                  = row'[o].on_hand - row'[o].reserved
      <4>1. phase[t] = "confirm" => t \in Settlers
        BY <1>1
      <4>2. phase[t] = "confirm" => v.on_hand - v.reserved = draft[o].on_hand - draft[o].reserved
        BY <1>3, <2>2, <2>4 DEF Rows
      <4> QED
        BY <1>4, <2>2, <2>5, <4>1, <4>2
    <3> QED
      BY <1>1, <1>3, <1>4, <2>5, <3>1, <3>2, <3>3, Kinds DEF LevelOf
  <2>9. BookTypes' /\ ClaimsExclude' /\ OutcomesMove(t) /\ Held' = Held
    BY <1>0, <1>4, OwnBooks
  <2>10. \A p \in Offers : Account(p)' /\ LevelOf(p)'
    <3>1. v.reserved = draft[o].reserved + (IF Counts(h) THEN - h.quantity ELSE h.quantity)
      BY <1>3, <2>2, <2>4, <2>7 DEF Rows
    <3> QED
      BY <1>0, <1>3, <1>4, <2>3, <2>4, <2>6, <2>8, <2>9, <3>1, MoveKeeps
  <2> QED
    BY <2>6, <2>9, <2>10 DEF KeepsStock
<1>5. CASE Fail(t)
  BY <1>0, <1>1, <1>5, FailKeeps
<1> QED
  BY <1>2, <1>4, <1>5 DEF SettleLine

-----------------------------------------------------------------------------
(* Claims, commits and operators *)

LEMMA CommitFacts ==
  ASSUME NEW t \in Transactions, CommitRows(t)
  PROVE  \A o \in Offers : lock'[o] # t
BY Kinds DEF CommitRows, Written

LEMMA CommitCreateKeeps ==
  ASSUME StockInv, NEW r \in Reservations, Acts(r), CommitCreate(r)
  PROVE  KeepsStock(r)
<1>0. /\ r \in Transactions /\ Types /\ BookTypes /\ CreateBooks(r) /\ LeavesOthers(r)
      /\ phase[r] \in {"hold", "undo"} /\ left[r] = <<>> /\ outcome[r] = "none"
      /\ CommitRows(r) /\ Ends(r)
      /\ outcome' = [outcome EXCEPT ![r] = IF phase[r] = "hold" THEN "held" ELSE "refused"]
  BY Kinds, StockFacts, StepLeavesOthers DEF Booked, CreateBooks, CommitCreate
<1>1. outcome' \in [Reservations ->
         {"none", "held", "refused", "failed", "confirmed", "released"}]
  BY <1>0 DEF BookTypes
<1>2. /\ BookTypes' /\ ClaimsExclude' /\ Booked(r)'
      /\ \A l \in Stocked : ~ Moved(r, l)'
  BY <1>0, <1>1, CommitFacts, EndsBooked
<1>3. OutcomesMove(r)
  BY <1>0 DEF OutcomesMove, BookTypes
<1>4. ASSUME NEW l \in Stocked
      PROVE  l.of \in Held' <=> (IF Moved(r, l) THEN l.of \notin Held ELSE l.of \in Held)
  <2>1. l.of \in Reservations
    BY LineFacts DEF Stocked
  <2>2. Moved(r, l) <=> l.of = r /\ phase[r] = "hold"
    BY <1>0, Kinds, EmptyLines DEF Moved
  <2> QED
    BY <1>0, <2>1, <2>2 DEF Held, BookTypes
<1>5. \A p \in Offers : Account(p)' /\ LevelOf(p)'
  BY <1>0, <1>2, <1>4, CommitKeeps
<1> QED
  BY <1>2, <1>3, <1>5 DEF KeepsStock

LEMMA CommitSettledKeeps ==
  ASSUME StockInv, NEW w \in Settlers, Acts(w), CommitSettled(w)
  PROVE  KeepsStock(w)
<1>0. /\ w \in Transactions /\ Types /\ BookTypes /\ SettleBooks(w) /\ LeavesOthers(w)
      /\ left[w] = <<>> /\ CommitRows(w) /\ Ends(w)
      /\ outcome' = [r \in Reservations |->
           IF r \notin claimed[w] THEN outcome[r]
           ELSE IF phase[w] = "confirm" THEN "confirmed" ELSE "released"]
  BY Kinds, StockFacts, StepLeavesOthers DEF Booked, CommitSettled
<1>1. outcome' \in [Reservations ->
         {"none", "held", "refused", "failed", "confirmed", "released"}]
  BY <1>0 DEF BookTypes
<1>2. /\ BookTypes' /\ ClaimsExclude' /\ Booked(w)'
      /\ \A l \in Stocked : ~ Moved(w, l)'
  BY <1>0, <1>1, CommitFacts, EndsBooked
<1>3. OutcomesMove(w)
  BY <1>0 DEF OutcomesMove
<1>4. ASSUME NEW l \in Stocked
      PROVE  l.of \in Held' <=> (IF Moved(w, l) THEN l.of \notin Held ELSE l.of \in Held)
  <2>1. l.of \in Reservations /\ l.of # w
    BY LineFacts, Kinds DEF Stocked
  <2>2. Moved(w, l) <=> l.of \in claimed[w]
    BY <1>0, <2>1, EmptyLines DEF Moved
  <2> QED
    BY <1>0, <2>1, <2>2 DEF Held, SettleBooks
<1>5. \A p \in Offers : Account(p)' /\ LevelOf(p)'
  BY <1>0, <1>2, <1>4, CommitKeeps
<1> QED
  BY <1>2, <1>3, <1>5 DEF KeepsStock

LEMMA ClaimKeeps ==
  ASSUME StockInv, NEW w \in Settlers, Acts(w), Claim(w)
  PROVE  KeepsStock(w)
<1>0. /\ w \in Transactions /\ Types /\ Books /\ SettleBooks(w) /\ LeavesOthers(w)
      /\ phase[w] = "idle" /\ UNCHANGED <<row, draft, lock, outcome>>
  BY Kinds, StockFacts, StepLeavesOthers DEF Booked, Claim
<1>1. PICK S \in (SUBSET (Held \ Locked)) \ {{}}, way \in {"confirm", "release"} :
        /\ Cardinality(S) <= IF way = "confirm" THEN 1 ELSE BatchSize
        /\ \E s \in Orders(S) : left' = [left EXCEPT ![w] = s]
        /\ claimed' = [claimed EXCEPT ![w] = S]
        /\ phase' = [phase EXCEPT ![w] = way]
  BY DEF Claim
<1> DEFINE L == {l \in UNION {Lines(r) : r \in S} : l.offer \in Internal}
<1>2. PICK s \in Orders(S) : left' = [left EXCEPT ![w] = s]
  BY <1>1
<1>3. S \subseteq Reservations /\ L \in SUBSET AllLines
  BY <1>1, LineFacts DEF Held
<1>4. ToSet(s) = L /\ Distinct(s)
  BY <1>2, <1>3, OrderedLines DEF Orders
<1>5. L = {l \in Stocked : l.of \in S}
  BY <1>3, LineFacts DEF Stocked
<1>6. /\ claimed'[w] = S /\ phase'[w] = way /\ left'[w] = s
      /\ \A v \in Settlers \ {w} : claimed'[v] = claimed[v]
      /\ claimed' \in [Settlers -> SUBSET Reservations]
  BY <1>0, <1>1, <1>2, <1>3 DEF Books, BookTypes, Types
<1> HIDE DEF L
<1>7. BookTypes' /\ ClaimsExclude' /\ OutcomesMove(w) /\ Held' = Held
  <2>1. BookTypes' /\ OutcomesMove(w) /\ Held' = Held
    BY <1>0, <1>6 DEF Books, BookTypes, OutcomesMove, Held
  <2>2. \A v \in Settlers : S \cap claimed[v] = {}
    BY <1>1 DEF Locked
  <2>3. ClaimsExclude'
    BY <1>0, <1>6, <2>2 DEF Books, ClaimsExclude
  <2> QED
    BY <2>1, <2>3
<1>8. \A l \in Stocked : ~ Moved(w, l) /\ ~ Moved(w, l)'
  <2> SUFFICES ASSUME NEW l \in Stocked PROVE ~ Moved(w, l) /\ ~ Moved(w, l)'
    OBVIOUS
  <2>1. l.of # w /\ claimed[w] = {}
    BY <1>0, LineFacts, Kinds DEF Stocked, SettleBooks
  <2>2. l.of \in S => l \in ToSet(s)
    BY <1>4, <1>5
  <2> QED
    BY <1>6, <2>1, <2>2 DEF Moved
<1>9. way = "confirm" => \E r \in Reservations : S = {r}
  <2> SUFFICES ASSUME way = "confirm" PROVE \E r \in Reservations : S = {r}
    OBVIOUS
  <2>1. IsFiniteSet(S) /\ Cardinality(S) \in Nat /\ Cardinality(S) <= 1 /\ S # {}
    BY <1>1, <1>3, FS_Subset, FS_CardinalityType, StockAssumption DEF StockAssumption
  <2>2. Cardinality(S) # 0
    BY <2>1, FS_EmptySet
  <2>3. Cardinality(S) = 1
    BY <2>1, <2>2
  <2>4. \E x : S = {x}
    BY <2>1, <2>3, FS_Singleton
  <2> QED
    BY <1>3, <2>4
<1>10. SettleBooks(w)'
  <2>1. S \subseteq Held /\ way # "idle"
    BY <1>1
  <2>2. /\ phase'[w] \in {"idle", "confirm", "release"} /\ claimed'[w] \subseteq Held'
        /\ phase'[w] # "idle"
        /\ phase'[w] = "confirm" => \E r \in Reservations : claimed'[w] = {r}
    BY <1>6, <1>7, <1>9, <2>1
  <2>3. ToSet(left'[w]) \subseteq {l \in Stocked : l.of \in claimed'[w]}
    BY <1>4, <1>5, <1>6
  <2> QED
    BY <2>2, <2>3 DEF SettleBooks
<1>11. Booked(w)'
  BY <1>4, <1>6, <1>8, <1>10, Kinds DEF Booked
<1>12. \A p \in Offers : Account(p)' /\ LevelOf(p)'
  BY <1>0, <1>7, <1>8, QuietKeeps DEF SettleBooks
<1> QED
  BY <1>7, <1>11, <1>12 DEF KeepsStock

\* Operators move no lines.
LEMMA OperatorMoves ==
  ASSUME NEW a \in Operators
  PROVE  \A l \in Stocked : ~ Moved(a, l) /\ ~ Moved(a, l)'
BY Kinds, LineFacts DEF Moved, Stocked

LEMMA OperatorBooked ==
  ASSUME StockInv, NEW a \in Operators, left' = left, request' = request,
         phase'[a] \in {"read", "commit"},
         \A o \in Offers : lock'[o] = a => lock[o] = a \/ o = request[a].offer
  PROVE  Booked(a)'
<1>1. a \in Transactions /\ AdminBooks(a) /\ Distinct(left[a])
  BY Kinds, StockFacts DEF Booked
<1>2. AdminBooks(a)'
  BY <1>1 DEF AdminBooks
<1> QED
  BY <1>1, <1>2, OperatorMoves, Kinds DEF Booked

\* The row that an operator writes keeps what is reserved of it.
LEMMA OperatorWriteKeeps ==
  ASSUME StockInv, NEW a \in Operators, Acts(a), NEW o \in Offers, o = request[a].offer,
         NEW v \in Rows, Free(a, o), Write(a, o, v), v.reserved = draft[o].reserved,
         UNCHANGED <<row, outcome, left, claimed, request>>, phase'[a] \in {"read", "commit"}
  PROVE  KeepsStock(a)
<1>0. a \in Transactions /\ Types /\ LeavesOthers(a)
  BY Kinds, StockFacts, StepLeavesOthers
<1>1. draft'[o] = v /\ \A p \in Offers : lock'[p] = IF p = o THEN a ELSE lock[p]
  BY <1>0 DEF Write, Types
<1>2. Booked(a)'
  BY <1>1, OperatorBooked
<1>3. LevelOf(o)'
  <2>1. draft'[o].reserved = row'[o].reserved
    BY <1>0, <1>1, FreeLevel
  <2> QED
    BY <1>1, <2>1, Kinds DEF LevelOf
<1>4. BookTypes' /\ ClaimsExclude' /\ OutcomesMove(a) /\ Held' = Held
  BY <1>0, OwnBooks
<1>5. \A p \in Offers : Account(p)' /\ LevelOf(p)'
  BY <1>0, <1>3, <1>4, OperatorMoves, WriteKeeps, Kinds
<1> QED
  BY <1>2, <1>4, <1>5 DEF KeepsStock

\* Nor does one that writes nothing do anything to the stock.
LEMMA OperatorQuietKeeps ==
  ASSUME StockInv, NEW a \in Operators, Acts(a),
         UNCHANGED <<row, draft, lock, outcome, left, claimed, request>>,
         phase'[a] \in {"read", "commit"}
  PROVE  KeepsStock(a)
<1>0. a \in Transactions /\ LeavesOthers(a)
  BY Kinds, StockFacts, StepLeavesOthers
<1>1. Booked(a)'
  BY OperatorBooked
<1>2. BookTypes' /\ ClaimsExclude' /\ OutcomesMove(a) /\ Held' = Held
  BY <1>0, OwnBooks
<1>3. \A p \in Offers : Account(p)' /\ LevelOf(p)'
  BY <1>0, <1>2, OperatorMoves, QuietKeeps, Kinds
<1> QED
  BY <1>1, <1>2, <1>3 DEF KeepsStock

LEMMA AdministersKeeps ==
  ASSUME StockInv, NEW a \in Operators, Acts(a), Administers(a)
  PROVE  KeepsStock(a)
<1>0. a \in Transactions /\ Types /\ RowsInv /\ BookTypes /\ LeavesOthers(a)
  BY Kinds, StockFacts, StepLeavesOthers
<1>1. PICK o \in Offers : o = request[a].offer
  BY <1>0, RequestTypes
<1>2. phase = [u \in Transactions |-> phase[u]]
  BY <1>0 DEF Types
<1>3. CASE Upsert(a)
  <2> DEFINE n == request[a].level
             changes == ~draft[o].present \/ (draft[o].reserved <= n /\ draft[o].on_hand # n)
  <2>1. n \in Nat /\ Free(a, o) /\ UNCHANGED <<row, outcome, left, claimed, request>>
    BY <1>0, <1>1, <1>3, RequestTypes DEF Upsert
  <2>2. PICK v : v = IF changes THEN Row(n, draft[o].reserved) ELSE draft[o]
    OBVIOUS
  <2>3. Write(a, o, v) /\ phase'[a] \in {"read", "commit"}
    BY <1>0, <1>1, <1>2, <1>3, <2>2 DEF Upsert
  <2>4. v \in Rows /\ v.reserved = draft[o].reserved
    BY <1>0, <2>1, <2>2 DEF Types, Row, Rows
  <2> QED
    BY <1>1, <2>1, <2>3, <2>4, OperatorWriteKeeps
<1>4. CASE Delete(a)
  <2>1. phase'[a] \in {"read", "commit"} /\ UNCHANGED <<row, outcome, left, claimed, request>>
    BY <1>0, <1>2, <1>4 DEF Delete
  <2>2. CASE UNCHANGED <<draft, lock>>
    BY <2>1, <2>2, OperatorQuietKeeps
  <2>3. CASE Seen(a, o).reserved = 0 /\ Free(a, o) /\ Write(a, o, NoRow)
    <3>1. NoRow \in Rows /\ NoRow.reserved = draft[o].reserved
      BY <2>3 DEF Seen, NoRow, Rows
    <3> QED
      BY <1>1, <2>1, <2>3, <3>1, OperatorWriteKeeps
  <2> QED
    BY <1>1, <1>4, <2>2, <2>3 DEF Delete
<1>5. CASE Read(a)
  BY <1>0, <1>2, <1>5, OperatorQuietKeeps DEF Read
<1>6. CASE CommitOperator(a)
  <2>1. CommitRows(a) /\ Ends(a) /\ outcome' = outcome
    BY <1>6 DEF CommitOperator
  <2>2. BookTypes' /\ ClaimsExclude' /\ Booked(a)'
    BY <1>0, <2>1, CommitFacts, EndsBooked DEF BookTypes
  <2>3. OutcomesMove(a) /\ Held' = Held
    BY <2>1 DEF OutcomesMove, Held
  <2>4. \A p \in Offers : Account(p)' /\ LevelOf(p)'
    BY <1>0, <2>1, <2>3, OperatorMoves, CommitKeeps
  <2> QED
    BY <2>2, <2>3, <2>4 DEF KeepsStock
<1> QED
  BY <1>3, <1>4, <1>5, <1>6 DEF Administers

\* A transaction that breaks off or is aborted has something under way.
LEMMA BreakingOff ==
  ASSUME StockInv, NEW t \in Transactions, Abort(t) \/ Break(t)
  PROVE  Fail(t) /\ (t \in Reservations => outcome[t] = "none")
<1>1. t \in Reservations => CreateBooks(t)
  BY StockFacts DEF Booked
<1>2. CASE Break(t)
  BY <1>1, <1>2 DEF Break, CreateBooks
<1>3. CASE Abort(t)
  <2>1. Fail(t) /\ WaitsFor(t) # {}
    BY <1>3 DEF Abort, InCircle, Waiting
  <2>2. Wants(t) # {}
    BY <2>1 DEF WaitsFor
  <2>3. t \in Reservations => phase[t] # "done"
    BY <2>2, Kinds DEF Wants
  <2> QED
    BY <1>1, <2>1, <2>3 DEF CreateBooks
<1> QED
  BY <1>2, <1>3

LEMMA ActsKeepsStock ==
  ASSUME StockInv, NEW t \in Transactions, Acts(t)
  PROVE  KeepsStock(t)
<1>1. CASE Abort(t) \/ Break(t)
  BY <1>1, BreakingOff, FailKeeps
<1>2. CASE t \in Reservations /\ Creates(t)
  BY <1>2, BeginKeeps, HoldLineKeeps, ObserveLineKeeps, SettleLineKeeps, CommitCreateKeeps
     DEF Creates
<1>3. CASE t \in Settlers /\ Settles(t)
  BY <1>3, ClaimKeeps, SettleLineKeeps, CommitSettledKeeps DEF Settles
<1>4. CASE t \in Operators /\ Administers(t)
  BY <1>4, AdministersKeeps
<1> QED
  BY <1>1, <1>2, <1>3, <1>4 DEF Acts, Works

-----------------------------------------------------------------------------
(* The invariant of the stock *)

LEMMA OthersKeepLocks ==
  ASSUME RowsInv, NEW t \in Transactions, Touches(t), NEW u \in Transactions \ {t}
  PROVE  \A o \in Offers : lock'[o] = u <=> lock[o] = u
BY Kinds DEF Touches, Writes, Write, Free, CommitRows, Rollback, Written, RowsInv, Types

LEMMA OthersBooked ==
  ASSUME StockInv, NEW t \in Transactions, Acts(t), NEW u \in Transactions \ {t}
  PROVE  Booked(u)'
<1>0. RowsInv /\ Booked(u) /\ Booked(t) /\ ClaimsExclude /\ LeavesOthers(t) /\ OutcomesMove(t)
  BY StockFacts, StepLeavesOthers, ActsKeepsStock DEF Books, KeepsStock
<1>1. phase'[u] = phase[u] /\ left'[u] = left[u] /\ request' = request
  BY <1>0, ControlOfStep DEF LeavesOthers
<1>2. \A o \in Offers : lock'[o] = u <=> lock[o] = u
  BY <1>0, RowsOfStep, OthersKeepLocks
<1>3. ASSUME u \in Reservations PROVE CreateBooks(u)'
  <2>1. phase[u] # "done" => outcome'[u] = "none"
    BY <1>0, <1>3 DEF Booked, CreateBooks, SettleBooks, OutcomesMove, Held
  <2> QED
    BY <1>0, <1>1, <1>3, <2>1 DEF Booked, CreateBooks
<1>4. ASSUME u \in Settlers PROVE SettleBooks(u)'
  <2>1. claimed'[u] = claimed[u] /\ SettleBooks(u)
    BY <1>0, <1>4 DEF LeavesOthers, Booked
  <2>2. ASSUME NEW r \in claimed[u] PROVE r \in Held'
    <3>1. r \in Reservations /\ outcome[r] = "held"
      BY <2>1 DEF SettleBooks, Held
    <3>2. t \in Settlers => r \notin claimed[t]
      BY <1>0, <1>4 DEF ClaimsExclude
    <3> QED
      BY <1>0, <3>1, <3>2 DEF OutcomesMove, Held
  <2>3. claimed'[u] \subseteq Held'
    BY <2>1, <2>2
  <2> QED
    BY <1>1, <1>2, <2>1, <2>3 DEF SettleBooks
<1>5. ASSUME u \in Operators PROVE AdminBooks(u)'
  BY <1>0, <1>1, <1>2, <1>5 DEF Booked, AdminBooks
<1>6. \A l \in Stocked : Moved(u, l)' => lock'[l.offer] = u
  <2>1. \A l \in Stocked : l.offer \in Offers
    BY LineFacts DEF Stocked, LineType
  <2> QED
    BY <1>0, <1>2, <2>1, MovedByOthers DEF Booked
<1> QED
  BY <1>0, <1>1, <1>3, <1>4, <1>5, <1>6 DEF Booked

LEMMA InitStock == Init => StockInv
<1> SUFFICES ASSUME Init PROVE StockInv
  OBVIOUS
<1>1. RowsInv
  BY InitRows
<1>2. \A t \in Transactions : \A l \in Stocked : ~ Moved(t, l)
  BY Kinds, LineFacts DEF Init, Moved, Stocked
<1>3. \A l \in Stocked : ~ Moved(NoTx, l)
  BY Kinds, LineFacts DEF Moved, Stocked
<1>4. Held = {}
  BY DEF Init, Held
<1>5. Books
  <2>1. BookTypes /\ ClaimsExclude
    BY DEF Init, BookTypes, ClaimsExclude
  <2>2. ASSUME NEW t \in Transactions PROVE Booked(t)
    <3>1. left[t] = <<>> /\ ToSet(left[t]) = {} /\ Distinct(left[t])
      BY EmptyLines DEF Init
    <3>2. \A o \in Offers : lock[o] # t
      BY Kinds DEF Init
    <3>3. t \in Reservations => CreateBooks(t)
      BY Kinds DEF Init, CreateBooks
    <3>4. t \in Settlers => SettleBooks(t)
      BY <3>1, <3>2, Kinds DEF Init, SettleBooks
    <3>5. t \in Operators => AdminBooks(t)
      BY <3>2, Kinds DEF Init, AdminBooks
    <3> QED
      BY <1>2, <3>1, <3>3, <3>4, <3>5 DEF Booked
  <2> QED
    BY <2>1, <2>2 DEF Books
<1>6. ASSUME NEW o \in Offers PROVE Account(o) /\ LevelOf(o)
  <2>1. LevelOf(o)
    BY Kinds DEF Init, LevelOf
  <2>2. ASSUME o \in Internal PROVE Account(o)
    <3>1. HeldAt(o) = {}
      BY <1>4 DEF HeldAt
    <3>2. \A l \in Stocked : l.offer = o => ~ Counts(l)
      BY <1>3, <1>4 DEF Init, Counts
    <3>3. DraftedAt(o) = {}
      BY <2>2, <3>2, LineFacts DEF DraftedAt, Stocked
    <3>4. ReservedFor({}, o) = 0
      BY ReservedIsSum, SumEmpty
    <3>5. ReservedFor(HeldAt(o), o) = 0 /\ ReservedFor(DraftedAt(o), o) = 0
      BY <3>1, <3>3, <3>4, SameReserved
    <3>6. row[o].reserved = 0 /\ draft[o].reserved = 0
      BY DEF Init, Row
    <3> QED
      BY <3>5, <3>6 DEF Account
  <2> QED
    BY <2>1, <2>2 DEF Account
<1> QED
  BY <1>1, <1>5, <1>6 DEF StockInv

LEMMA StockStutters ==
  ASSUME StockInv, UNCHANGED vars
  PROVE  StockInv'
<1>1. UNCHANGED <<row, draft, lock, outcome, phase, left, claimed, request, answer, breaks>>
  BY DEF vars
<1>2. RowsInv'
  BY RowsStep DEF StockInv
<1>3. Books'
  BY <1>1 DEF StockInv, Books, BookTypes, ClaimsExclude, Booked, CreateBooks, SettleBooks,
              AdminBooks, Held, Moved
<1>4. \A l \in Stocked : Counts(l)' <=> Counts(l)
  BY <1>1 DEF Counts, Moved, Held
<1>5. Held' = Held
  BY <1>1 DEF Held
<1>6. ASSUME NEW o \in Offers PROVE Account(o)' /\ LevelOf(o)'
  BY <1>1, <1>4, <1>5, AccountStays, LevelStays DEF StockInv
<1> QED
  BY <1>2, <1>3, <1>6 DEF StockInv

LEMMA StockStep == StockInv /\ [Next]_vars => StockInv'
<1> SUFFICES ASSUME StockInv, [Next]_vars PROVE StockInv'
  OBVIOUS
<1>1. RowsInv'
  BY RowsStep DEF StockInv
<1>2. ASSUME NEW t \in Transactions, Acts(t) PROVE StockInv'
  <2>1. KeepsStock(t)
    BY <1>2, ActsKeepsStock
  <2>2. \A u \in Transactions : Booked(u)'
    BY <1>2, <2>1, OthersBooked DEF KeepsStock
  <2> QED
    BY <1>1, <2>1, <2>2 DEF KeepsStock, StockInv, Books
<1> QED
  BY <1>2, StockStutters DEF Next, Acts

\* The inductive invariant: what a transaction has written and not committed is what it
\* is to have written at its place in its lines, and every row accounts for it.
THEOREM StockInvariance == Spec => []StockInv
BY InitStock, StockStep, PTL DEF Spec

-----------------------------------------------------------------------------
(* Types *)

CountsBreaks ==
  /\ breaks \in 0 .. MaxBreaks
  /\ answer \in [Operators ->
       {"none", "set", "below reserved", "removed", "not found", "in use", "error"}]

LEMMA BreaksStep ==
  ASSUME StockInv, CountsBreaks, [Next]_vars
  PROVE  CountsBreaks'
<1> DEFINE Answers == {"none", "set", "below reserved", "removed", "not found", "in use", "error"}
<1>0. MaxBreaks \in Nat /\ breaks \in 0 .. MaxBreaks /\ answer \in [Operators -> Answers]
  BY StockAssumption DEF StockAssumption, CountsBreaks
<1>1. ASSUME NEW t \in Transactions, Fail(t) PROVE answer' \in [Operators -> Answers]
  BY <1>0, <1>1 DEF Fail
<1>2. ASSUME NEW t \in Transactions, Works(t) PROVE CountsBreaks'
  <2>1. breaks' = breaks
    BY <1>2 DEF Works, Creates, Begin, HoldLine, ObserveLine, SettleLine, CommitCreate,
                Settles, Claim, CommitSettled, Administers, Upsert, Delete, Read, CommitOperator
  <2>2. ASSUME NEW a, NEW s \in Answers, answer' = [answer EXCEPT ![a] = s]
        PROVE  answer' \in [Operators -> Answers]
    BY <1>0, <2>2
  <2> HIDE DEF Answers
  <2>3. ASSUME SettleLine(t) PROVE answer' \in [Operators -> Answers]
    BY <1>0, <1>1, <2>3 DEF SettleLine
  <2>4. CASE t \in Reservations /\ Creates(t)
    <3>1. answer' = answer \/ SettleLine(t)
      BY <2>4 DEF Creates, Begin, HoldLine, ObserveLine, CommitCreate
    <3> QED
      BY <1>0, <2>1, <2>3, <3>1 DEF CountsBreaks, Answers
  <2>5. CASE t \in Settlers /\ Settles(t)
    <3>1. answer' = answer \/ SettleLine(t)
      BY <2>5 DEF Settles, Claim, CommitSettled
    <3> QED
      BY <1>0, <2>1, <2>3, <3>1 DEF CountsBreaks, Answers
  <2>6. CASE t \in Operators /\ Administers(t)
    <3>1. \A s \in {"set", "none", "removed"} : s \in Answers
      BY DEF Answers
    <3>2. Reads(t) \in Answers
      BY DEF Reads, Answers
    <3>3. \/ answer' = answer
          \/ \E s \in Answers : answer' = [answer EXCEPT ![t] = s]
      <4>1. CASE Upsert(t)
        BY <3>1, <4>1 DEF Upsert
      <4>2. CASE Delete(t)
        BY <3>1, <4>2 DEF Delete
      <4>3. CASE Read(t)
        BY <3>2, <4>3 DEF Read
      <4>4. CASE CommitOperator(t)
        BY <4>4 DEF CommitOperator
      <4> QED
        BY <2>6, <4>1, <4>2, <4>3, <4>4 DEF Administers
    <3> QED
      BY <1>0, <2>1, <2>2, <3>3 DEF CountsBreaks, Answers
  <2> QED
    BY <1>2, <2>4, <2>5, <2>6 DEF Works
<1>3. ASSUME NEW t \in Transactions, Abort(t) PROVE CountsBreaks'
  BY <1>0, <1>1, <1>3 DEF Abort, CountsBreaks
<1>4. ASSUME NEW t \in Transactions, Break(t) PROVE CountsBreaks'
  <2>1. breaks' \in 0 .. MaxBreaks
    <3>1. breaks < MaxBreaks /\ breaks' = breaks + 1
      BY <1>4 DEF Break
    <3>2. MaxBreaks \in Nat /\ breaks \in 0 .. MaxBreaks
      BY <1>0
    <3> QED
      BY <3>1, <3>2
  <2>2. answer' \in [Operators -> Answers]
    BY <1>1, <1>4 DEF Break
  <2> QED
    BY <2>1, <2>2 DEF CountsBreaks
<1>5. CASE UNCHANGED vars
  BY <1>5 DEF vars, CountsBreaks
<1> QED
  BY <1>2, <1>3, <1>4, <1>5 DEF Next

\* Every variable keeps to its values; what a settler has claimed stays held until it
\* ends, and no draft differs from its row without a lock.
THEOREM TypesHold == Spec => []TypeOK
<1> DEFINE Inv == StockInv /\ CountsBreaks
<1>1. Init => Inv
  BY InitStock, StockAssumption DEF StockAssumption, Init, CountsBreaks
<1>2. Inv /\ [Next]_vars => Inv'
  BY StockStep, BreaksStep
<1>3. Inv => TypeOK
  <2> SUFFICES ASSUME Inv PROVE TypeOK
    OBVIOUS
  <2>1. Types /\ BookTypes /\ Books /\ LocksShowDrafts
    BY DEF StockInv, RowsInv, Books
  <2>2. \A t \in Transactions : phase[t] \in
          {"idle", "hold", "undo", "confirm", "release", "ask", "read", "commit", "done"}
    BY <2>1 DEF Books, Booked, CreateBooks, SettleBooks, AdminBooks, Transactions
  <2>3. phase \in [Transactions ->
          {"idle", "hold", "undo", "confirm", "release", "ask", "read", "commit", "done"}]
    BY <2>1, <2>2 DEF Types
  <2>4. \A w \in Settlers : claimed[w] \subseteq Held
    BY <2>1, Kinds DEF Books, Booked, SettleBooks
  <2> QED
    BY <2>1, <2>3, <2>4 DEF TypeOK, Types, BookTypes, LocksShowDrafts, CountsBreaks
<1> QED
  BY <1>1, <1>2, <1>3, PTL DEF Spec

-----------------------------------------------------------------------------
(* The ledger *)

LevelAt(o) == IF row[o].present THEN row[o].on_hand ELSE -1
Listed == [o \in Offers |-> LevelAt(o)]
Ended == [r \in Reservations |-> IF outcome[r] = "failed" THEN "none" ELSE outcome[r]]

LEMMA LedgerIs ==
  /\ Ledger!vars = <<Listed, Ended>> /\ Ledger!vars' = <<Listed', Ended'>>
  /\ Ledger!Offers = Offers /\ Ledger!Unlisted = -1
BY DEF Ledger!vars, Ledger!Offers, Ledger!Unlisted, Listed, LevelAt, Ended, Offers

LEMMA LedgerHeld == Ledger!Held = Held
BY DEF Ledger!Held, Held

LEMMA LedgerReserved ==
  ASSUME StockInv, NEW o \in Offers
  PROVE  Ledger!Reserved(o) = IF o \in Internal THEN row[o].reserved ELSE 0
<1>1. CASE o \notin Internal
  BY <1>1 DEF Ledger!Reserved
<1>2. CASE o \in Internal
  <2>1. Ledger!Reserved(o) = ReservedFor(Ledger!Held, o)
    BY <1>2 DEF Ledger!Reserved, ReservedFor, Ledger!MapThenSumSet, Ledger!MapThenFoldSet,
                MapThenSumSet, MapThenFoldSet
  <2>2. ReservedFor(Ledger!Held, o) = ReservedFor(Held, o)
    BY LedgerHeld, SameReserved
  <2>3. ReservedFor(Held, o) = ReservedFor(HeldAt(o), o)
    BY <1>2, ReservedThere DEF Held, HeldAt
  <2> QED
    BY <1>2, <2>1, <2>2, <2>3 DEF StockInv, Account
<1> QED
  BY <1>1, <1>2

\* What counts in the ledger is what is committed.
LEMMA LedgerStays ==
  ASSUME row' = row, Ended' = Ended
  PROVE  UNCHANGED Ledger!vars
<1>1. Listed' = Listed
  BY DEF Listed, LevelAt
<1> QED
  BY <1>1, LedgerIs

LEMMA CommittedRows ==
  ASSUME StockInv, NEW t \in Transactions, CommitRows(t), NEW o \in Offers
  PROVE  /\ row'[o] = IF lock[o] = t THEN draft[o] ELSE row[o]
         /\ Account(o) /\ LevelOf(o) /\ Sound(row[o]) /\ Sound(draft[o])
         /\ row[o] \in Rows /\ draft[o] \in Rows
         /\ Listed[o] = LevelAt(o) /\ Listed'[o] = LevelAt(o)'
BY DEF CommitRows, Written, StockInv, RowsInv, Types, Listed

LEMMA LevelsListed ==
  ASSUME StockInv, StockInv'
  PROVE  /\ Listed \in [Offers -> Nat \cup {-1}] /\ Listed' \in [Offers -> Nat \cup {-1}]
         /\ \A o \in Offers : Listed[o] = -1 <=> ~ row[o].present
<1>1. ASSUME NEW v \in Rows, Sound(v) PROVE v.on_hand \in Nat
  BY <1>1 DEF Rows, Sound
<1>2. \A o \in Offers : /\ row[o] \in Rows /\ row[o].on_hand \in Nat
                        /\ row'[o] \in Rows /\ row'[o].on_hand \in Nat
  BY <1>1 DEF StockInv, RowsInv, Types
<1> QED
  BY <1>2 DEF Listed, LevelAt

\* A creation leaves the levels of the rows it commits, but for what it has observed.
LEMMA CreateObserves ==
  ASSUME StockInv, StockInv', NEW r \in Reservations, CommitRows(r)
  PROVE  Ledger!Observe
<1>0. r \in Transactions
  BY Kinds
<1>1. ASSUME NEW o \in Offers
      PROVE  /\ row'[o].present = row[o].present
             /\ o \in Internal => Listed'[o] = Listed[o]
             /\ Listed[o] = -1 => Listed'[o] = -1
  <2>1. /\ row'[o].present = row[o].present
        /\ o \in Internal => row'[o].on_hand = row[o].on_hand
    BY <1>0, CommittedRows DEF LevelOf
  <2>2. Listed[o] = LevelAt(o) /\ Listed'[o] = LevelAt(o)' /\ (Listed[o] = -1 <=> ~row[o].present)
    BY <1>0, CommittedRows, LevelsListed
  <2> QED
    BY <2>1, <2>2 DEF LevelAt
<1> QED
  BY <1>1, LevelsListed, LedgerIs DEF Ledger!Observe, Listed, LevelAt, Offers

\* What the rows have that a transaction is about to commit.
LEMMA LineOf ==
  ASSUME NEW o \in Internal, NEW r \in Reservations, TakenBy[r][o] # 0
  PROVE  \E l \in Stocked : l \in Lines(r) /\ l.of = r /\ l.offer = o
BY TakenFacts, LineFacts DEF Stocked

LEMMA HoldFits ==
  ASSUME StockInv, NEW r \in Reservations, CommitCreate(r), phase[r] = "hold"
  PROVE  Ledger!Fits(r)
<1>0. /\ r \in Transactions /\ CreateBooks(r) /\ Booked(r) /\ left[r] = <<>> /\ CommitRows(r)
      /\ outcome[r] = "none"
  BY Kinds, StockFacts DEF CommitCreate, Booked, CreateBooks
<1>1. ASSUME NEW o \in Internal, TakenBy[r][o] > 0
      PROVE  Listed[o] - Ledger!Reserved(o) >= TakenBy[r][o]
  <2>0. o \in Offers /\ TakenBy[r][o] \in Nat
    BY TakenFacts DEF Offers
  <2>1. PICK l \in Stocked : l \in Lines(r) /\ l.of = r /\ l.offer = o
    BY <1>1, LineOf
  <2>2. \A k \in Stocked : Moved(r, k) <=> k.of = r
    BY <1>0, Kinds, EmptyLines DEF Moved
  <2>3. lock[o] = r
    BY <1>0, <2>1, <2>2 DEF Booked
  <2>4. \A k \in Stocked : k.offer = o => (Counts(k) <=> k.of = r \/ k.of \in Held)
    BY <1>0, <2>2, <2>3 DEF Counts, Held
  <2>5. DraftedAt(o) = HeldAt(o) \cup {r}
    <3>1. \A q \in Reservations : \A k \in Lines(q) : k.offer = o => k \in Stocked /\ k.of = q
      BY LineFacts DEF Stocked
    <3>2. r \in DraftedAt(o)
      BY <2>1, <2>4 DEF DraftedAt
    <3>3. \A q \in Reservations \ {r} : q \in DraftedAt(o) <=> q \in HeldAt(o)
      BY <2>4, <3>1 DEF DraftedAt, HeldAt, Held
    <3>4. DraftedAt(o) \subseteq Reservations /\ HeldAt(o) \subseteq Reservations
      BY DEF DraftedAt, HeldAt, Held
    <3> QED
      BY <3>2, <3>3, <3>4
  <2>6. /\ HeldAt(o) \subseteq Reservations /\ DraftedAt(o) \subseteq Reservations
        /\ r \notin HeldAt(o)
    BY <1>0 DEF HeldAt, DraftedAt, Held
  <2>7. ReservedFor(DraftedAt(o), o) = ReservedFor(HeldAt(o), o) + TakenBy[r][o]
    BY <2>5, <2>6, ReservedStep
  <2>8. /\ Account(o) /\ LevelOf(o) /\ Sound(draft[o]) /\ Listed[o] = LevelAt(o)
        /\ row[o] \in Rows /\ draft[o] \in Rows
    BY <1>0, <2>0, CommittedRows
  <2>9. /\ draft[o].reserved = row[o].reserved + TakenBy[r][o]
        /\ draft[o].on_hand = row[o].on_hand /\ draft[o].present = row[o].present
    BY <2>3, <2>7, <2>8 DEF Account, LevelOf
  <2>10. row[o].reserved >= 0
    BY <1>0, <2>0, CommittedRows DEF Sound
  <2>11. Ledger!Reserved(o) = row[o].reserved
    BY <2>0, LedgerReserved
  <2>12. draft[o].present
    BY <1>1, <2>0, <2>8, <2>9, <2>10 DEF Sound, Rows
  <2>13. Listed[o] = row[o].on_hand
    BY <2>8, <2>9, <2>12 DEF LevelAt
  <2> QED
    BY <2>0, <2>8, <2>9, <2>11, <2>13 DEF Sound, Rows
<1> QED
  BY <1>1 DEF Ledger!Fits, Listed, LevelAt, Offers

LEMMA CreateInLedger ==
  ASSUME StockInv, StockInv', NEW r \in Reservations, CommitCreate(r)
  PROVE  Ledger!Create(r)
<1>0. /\ CreateBooks(r) /\ BookTypes /\ phase[r] \in {"hold", "undo"} /\ outcome[r] = "none"
      /\ CommitRows(r)
      /\ outcome' = [outcome EXCEPT ![r] = IF phase[r] = "hold" THEN "held" ELSE "refused"]
  BY Kinds, StockFacts DEF CommitCreate, Booked, CreateBooks
<1>1. Ledger!Observe
  BY <1>0, CreateObserves
<1>2. Ended[r] = "none"
  BY <1>0 DEF Ended
<1>3. CASE phase[r] = "hold"
  <2>1. Ended' = [Ended EXCEPT ![r] = "held"]
    BY <1>0, <1>3 DEF Ended, BookTypes
  <2>2. Ledger!Fits(r)
    BY <1>3, HoldFits
  <2> QED
    BY <1>1, <1>2, <2>1, <2>2 DEF Ledger!Create, Ended
<1>4. CASE phase[r] = "undo"
  <2>1. Ended' = [Ended EXCEPT ![r] = "refused"]
    BY <1>0, <1>4 DEF Ended, BookTypes
  <2> QED
    BY <1>1, <1>2, <2>1 DEF Ledger!Create, Ended
<1> QED
  BY <1>0, <1>3, <1>4

\* What a settler has at an offer when all its lines are written.
LEMMA SettledRow ==
  ASSUME StockInv, NEW w \in Settlers, phase[w] = "confirm", left[w] = <<>>,
         NEW r \in Reservations, claimed[w] = {r}, NEW o \in Internal
  PROVE  /\ TakenBy[r][o] # 0 => lock[o] = w
         /\ lock[o] = w => draft[o].reserved = row[o].reserved - TakenBy[r][o]
<1>0. w \in Transactions /\ Booked(w) /\ r \in Held /\ o \in Offers /\ Account(o)
  BY Kinds, StockFacts DEF Booked, SettleBooks, Offers, StockInv
<1>1. \A l \in Stocked : Moved(w, l) <=> l.of = r
  BY Kinds, LineFacts, EmptyLines DEF Moved, Stocked
<1>2. ASSUME TakenBy[r][o] # 0 PROVE lock[o] = w
  BY <1>0, <1>1, <1>2, LineOf DEF Booked
<1>3. ASSUME lock[o] = w PROVE draft[o].reserved = row[o].reserved - TakenBy[r][o]
  <2>1. \A l \in Stocked : l.offer = o => (Counts(l) <=> l.of # r /\ l.of \in Held)
    BY <1>0, <1>1, <1>3 DEF Counts
  <2>2. \A q \in Reservations : \A l \in Lines(q) : l.offer = o => l \in Stocked /\ l.of = q
    BY LineFacts DEF Stocked
  <2>3. \A q \in Reservations : q \in DraftedAt(o) <=> q \in HeldAt(o) /\ q # r
    BY <2>1, <2>2 DEF DraftedAt, HeldAt, Held
  <2>4. HeldAt(o) \subseteq Reservations /\ DraftedAt(o) \subseteq Reservations
    BY DEF HeldAt, DraftedAt, Held
  <2>5. DraftedAt(o) = HeldAt(o) \ {r}
    BY <2>3, <2>4
  <2>6. TakenBy[r][o] \in Nat /\ ReservedFor(HeldAt(o), o) \in Nat
    BY <2>4, TakenFacts, ReservedStep
  <2>7. ReservedFor(DraftedAt(o), o) = ReservedFor(HeldAt(o), o) - TakenBy[r][o]
    <3>1. CASE r \in HeldAt(o)
      BY <2>4, <2>5, <3>1, ReservedStep
    <3>2. CASE r \notin HeldAt(o)
      <4>1. \A l \in Lines(r) : l.offer # o
        BY <1>0, <3>2 DEF HeldAt
      <4>2. TakenBy[r][o] = 0
        BY <4>1, TakenFacts
      <4>3. DraftedAt(o) = HeldAt(o)
        BY <2>5, <3>2
      <4>4. ReservedFor(DraftedAt(o), o) = ReservedFor(HeldAt(o), o)
        BY <4>3, SameReserved
      <4> QED
        BY <2>6, <4>2, <4>4
    <3> QED
      BY <3>1, <3>2
  <2> QED
    BY <1>0, <2>7 DEF Account
<1> QED
  BY <1>2, <1>3

LEMMA ConfirmInLedger ==
  ASSUME StockInv, NEW w \in Settlers, CommitSettled(w), phase[w] = "confirm"
  PROVE  \E r \in Reservations : Ledger!Confirm(r)
<1>0. /\ w \in Transactions /\ SettleBooks(w) /\ BookTypes /\ left[w] = <<>> /\ CommitRows(w)
      /\ outcome' = [q \in Reservations |->
           IF q \notin claimed[w] THEN outcome[q]
           ELSE IF phase[w] = "confirm" THEN "confirmed" ELSE "released"]
  BY Kinds, StockFacts DEF CommitSettled, Booked
<1>1. PICK r \in Reservations : claimed[w] = {r}
  BY <1>0 DEF SettleBooks
<1>2. outcome[r] = "held"
  BY <1>0, <1>1 DEF SettleBooks, Held
<1>3. Ended[r] = "held" /\ Ended' = [Ended EXCEPT ![r] = "confirmed"]
  BY <1>0, <1>1, <1>2 DEF Ended, BookTypes
<1>4. ASSUME NEW o \in Offers
      PROVE  Listed'[o] = IF o \in Internal THEN Listed[o] - TakenBy[r][o] ELSE Listed[o]
  <2>0. /\ row'[o] = IF lock[o] = w THEN draft[o] ELSE row[o]
        /\ Account(o) /\ LevelOf(o) /\ Sound(row[o]) /\ Sound(draft[o])
        /\ row[o] \in Rows /\ draft[o] \in Rows
        /\ Listed[o] = LevelAt(o) /\ Listed'[o] = LevelAt(o)'
    BY <1>0, CommittedRows
  <2>1. CASE o \notin Internal
    <3>1. row'[o] = row[o]
      BY <2>0, <2>1 DEF LevelOf
    <3> QED
      BY <2>0, <2>1, <3>1 DEF LevelAt
  <2>2. CASE o \in Internal
    <3>0. /\ TakenBy[r][o] \in Nat
          /\ TakenBy[r][o] # 0 => lock[o] = w
          /\ lock[o] = w => draft[o].reserved = row[o].reserved - TakenBy[r][o]
      BY <1>0, <1>1, <2>2, SettledRow, TakenFacts
    <3>1. CASE lock[o] # w
      <4>1. TakenBy[r][o] = 0 /\ row'[o] = row[o]
        BY <2>0, <3>0, <3>1
      <4>2. LevelAt(o)' = LevelAt(o) /\ LevelAt(o) \in Int
        BY <2>0, <4>1 DEF LevelAt, Rows
      <4> QED
        BY <2>0, <2>2, <4>1, <4>2
    <3>2. CASE lock[o] = w
      <4>1. /\ draft[o].present = row[o].present
            /\ draft[o].on_hand - draft[o].reserved = row[o].on_hand - row[o].reserved
        BY <1>0, <2>0, <3>2 DEF LevelOf
      <4>2. draft[o].on_hand = row[o].on_hand - TakenBy[r][o]
        BY <2>0, <3>0, <3>2, <4>1 DEF Rows
      <4>3. ~ row[o].present => TakenBy[r][o] = 0
        BY <2>0, <3>0, <3>2 DEF Sound, Rows
      <4>4. row'[o] = draft[o]
        BY <2>0, <3>2
      <4>5. LevelAt(o)' = IF draft[o].present THEN draft[o].on_hand ELSE -1
        BY <4>4 DEF LevelAt
      <4>6. LevelAt(o)' = LevelAt(o) - TakenBy[r][o]
        BY <3>0, <4>1, <4>2, <4>3, <4>5 DEF LevelAt
      <4> QED
        BY <2>0, <2>2, <4>6
    <3> QED
      BY <3>1, <3>2
  <2> QED
    BY <2>1, <2>2
<1>5. Listed' = [o \in Offers |-> IF o \in Internal THEN Listed[o] - TakenBy[r][o] ELSE Listed[o]]
  BY <1>4 DEF Listed
<1>6. Ledger!Confirm(r)
  BY <1>3, <1>5 DEF Ledger!Confirm, Ledger!Offers, Offers, Listed, LevelAt, Ended
<1> QED
  BY <1>6

LEMMA ReleaseInLedger ==
  ASSUME StockInv, NEW w \in Settlers, CommitSettled(w), phase[w] # "confirm"
  PROVE  \E S \in SUBSET Reservations : Ledger!Release(S)
<1>0. /\ w \in Transactions /\ SettleBooks(w) /\ BookTypes /\ CommitRows(w)
      /\ outcome' = [q \in Reservations |->
           IF q \notin claimed[w] THEN outcome[q]
           ELSE IF phase[w] = "confirm" THEN "confirmed" ELSE "released"]
  BY Kinds, StockFacts DEF CommitSettled, Booked
<1>1. claimed[w] \subseteq Held /\ claimed[w] \in SUBSET Reservations
  BY <1>0 DEF SettleBooks, Held
<1>2. Ended' = [q \in Reservations |-> IF q \in claimed[w] THEN "released" ELSE Ended[q]]
  BY <1>0 DEF Ended
<1>3. ASSUME NEW o \in Offers PROVE Listed'[o] = Listed[o]
  <2>0. /\ row'[o] = IF lock[o] = w THEN draft[o] ELSE row[o]
        /\ LevelOf(o) /\ Listed[o] = LevelAt(o) /\ Listed'[o] = LevelAt(o)'
    BY <1>0, CommittedRows
  <2>1. row'[o].present = row[o].present /\ row'[o].on_hand = row[o].on_hand
    BY <2>0 DEF LevelOf
  <2> QED
    BY <2>0, <2>1 DEF LevelAt
<1>4. Listed' = Listed
  BY <1>3 DEF Listed
<1>5. PICK S \in SUBSET Reservations : S = claimed[w]
  BY <1>1
<1>6. Ledger!Release(S)
  BY <1>1, <1>2, <1>4, <1>5, LedgerHeld DEF Ledger!Release, Listed, LevelAt, Ended
<1> QED
  BY <1>6

\* An operator has the row it asks about locked at most, and what is reserved as it was.
LEMMA OperatorInLedger ==
  ASSUME StockInv, NEW a \in Operators, CommitOperator(a)
  PROVE  [Ledger!Next]_(Ledger!vars)
<1>0. /\ a \in Transactions /\ Types /\ AdminBooks(a) /\ CommitRows(a) /\ outcome' = outcome
  BY Kinds, StockFacts DEF CommitOperator, Booked
<1>1. PICK o \in Offers : o = request[a].offer
  BY <1>0, RequestTypes
<1>2. Ended' = Ended
  BY <1>0 DEF Ended
<1>3. \A p \in Offers \ {o} : row'[p] = row[p]
  BY <1>0, <1>1, CommittedRows DEF AdminBooks
<1>4. \A p \in Offers \ {o} : Listed'[p] = Listed[p]
  BY <1>3 DEF Listed, LevelAt
<1>5. /\ row'[o] = IF lock[o] = a THEN draft[o] ELSE row[o]
      /\ LevelOf(o) /\ Sound(draft[o]) /\ row[o] \in Rows /\ draft[o] \in Rows
      /\ Listed[o] = LevelAt(o) /\ Listed'[o] = LevelAt(o)'
  BY <1>0, CommittedRows
<1>6. Listed' = [Listed EXCEPT ![o] = Listed'[o]]
  BY <1>4 DEF Listed
<1>7. Ledger!Reserved(o) = IF o \in Internal THEN row[o].reserved ELSE 0
  BY LedgerReserved
<1>8. CASE lock[o] # a
  <2>1. Listed'[o] = Listed[o]
    BY <1>5, <1>8 DEF LevelAt
  <2>2. Listed' = Listed
    BY <1>4, <2>1 DEF Listed
  <2> QED
    BY <1>2, <2>2, LedgerIs
<1>9. CASE lock[o] = a /\ draft[o].present
  <2>1. Listed'[o] = draft[o].on_hand /\ draft[o].reserved = row[o].reserved
    BY <1>5, <1>9 DEF LevelAt, LevelOf
  <2>2. Listed'[o] >= Ledger!Reserved(o)
    BY <1>5, <1>7, <2>1 DEF Sound, Rows
  <2>3. Ledger!SetLevel(o, Listed'[o])
    BY <1>2, <1>6, <2>2 DEF Ledger!SetLevel, Listed, LevelAt, Ended
  <2> QED
    BY <2>3, LedgerIs DEF Ledger!Next, Listed, LevelAt
<1>10. CASE lock[o] = a /\ ~ draft[o].present
  <2>1. Listed'[o] = -1 /\ draft[o].reserved = row[o].reserved
    BY <1>5, <1>10 DEF LevelAt, LevelOf
  <2>2. Ledger!Reserved(o) = 0
    BY <1>5, <1>7, <1>10, <2>1 DEF Sound
  <2>3. Listed' = [Listed EXCEPT ![o] = -1]
    BY <1>6, <2>1
  <2>4. Ledger!RemoveLevel(o)
    BY <1>2, <2>2, <2>3, LedgerIs DEF Ledger!RemoveLevel, Listed, LevelAt, Ended
  <2> QED
    BY <2>4, LedgerIs DEF Ledger!Next
<1> QED
  BY <1>8, <1>9, <1>10

-----------------------------------------------------------------------------
\* Until a transaction ends, the ledger shows nothing of it, and nothing of one that
\* breaks off.
LEMMA QuietInLedger ==
  ASSUME StockInv, NEW t \in Transactions, Acts(t),
         ~ (t \in Reservations /\ CommitCreate(t)), ~ (t \in Settlers /\ CommitSettled(t)),
         ~ (t \in Operators /\ CommitOperator(t))
  PROVE  UNCHANGED Ledger!vars
<1>1. ASSUME Fail(t), t \in Reservations => outcome[t] = "none"
      PROVE  UNCHANGED Ledger!vars
  <2>1. row' = row
    BY <1>1 DEF Fail, Rollback
  <2>2. Ended' = Ended
    BY <1>1 DEF Fail, Ended
  <2> QED
    BY <2>1, <2>2, LedgerStays
<1>2. ASSUME row' = row, outcome' = outcome PROVE UNCHANGED Ledger!vars
  BY <1>2, LedgerStays DEF Ended
<1>3. CASE Abort(t) \/ Break(t)
  BY <1>1, <1>3, BreakingOff
<1>4. CASE SettleLine(t)
  <2>1. t \in Reservations => outcome[t] = "none"
    BY <1>4, StockFacts DEF SettleLine, Booked, CreateBooks
  <2> QED
    BY <1>1, <1>2, <1>4, <2>1 DEF SettleLine
<1>5. CASE t \in Reservations /\ Creates(t)
  <2>1. SettleLine(t) \/ (row' = row /\ outcome' = outcome)
    BY <1>5 DEF Creates, Begin, HoldLine, ObserveLine
  <2> QED
    BY <1>2, <1>4, <2>1
<1>6. CASE t \in Settlers /\ Settles(t)
  <2>1. SettleLine(t) \/ (row' = row /\ outcome' = outcome)
    BY <1>6 DEF Settles, Claim
  <2> QED
    BY <1>2, <1>4, <2>1
<1>7. CASE t \in Operators /\ Administers(t)
  BY <1>2, <1>7 DEF Administers, Upsert, Delete, Read
<1> QED
  BY <1>3, <1>5, <1>6, <1>7 DEF Acts, Works

LEMMA LedgerStep == StockInv /\ StockInv' /\ [Next]_vars => [Ledger!Next]_(Ledger!vars)
<1> SUFFICES ASSUME StockInv, StockInv', [Next]_vars PROVE [Ledger!Next]_(Ledger!vars)
  OBVIOUS
<1>1. CASE UNCHANGED vars
  BY <1>1, LedgerStays DEF vars, Ended
<1>2. ASSUME NEW t \in Transactions, Acts(t) PROVE [Ledger!Next]_(Ledger!vars)
  <2>1. CASE t \in Reservations /\ CommitCreate(t)
    BY <2>1, CreateInLedger DEF Ledger!Next
  <2>2. CASE t \in Settlers /\ CommitSettled(t)
    BY <2>2, ConfirmInLedger, ReleaseInLedger DEF Ledger!Next
  <2>3. CASE t \in Operators /\ CommitOperator(t)
    BY <2>3, OperatorInLedger
  <2> QED
    BY <1>2, <2>1, <2>2, <2>3, QuietInLedger
<1> QED
  BY <1>1, <1>2 DEF Next, Acts

LEMMA InitLedger == Init => Ledger!Init
<1> SUFFICES ASSUME Init PROVE Ledger!Init
  OBVIOUS
<1>1. Listed \in [Offers -> Nat \cup {-1}]
  BY StockAssumption DEF StockAssumption, Init, Row, Listed, LevelAt
<1>2. Ended = [r \in Reservations |-> "none"]
  BY DEF Init, Ended
<1> QED
  BY <1>1, <1>2 DEF Ledger!Init, Ledger!Offers, Ledger!Unlisted, Offers, Listed, LevelAt, Ended

\* The statements of any number of transactions, in any order and with any of them
\* broken off or aborted, come to what the ledger does at once.
THEOREM TransactionsKeepLedger == Spec => KeepsLedger
<1> QED
  BY InitStock, StockStep, InitLedger, LedgerStep, PTL DEF Spec, KeepsLedger, Ledger!Spec
=============================================================================
