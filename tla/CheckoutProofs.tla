---------------------------- MODULE CheckoutProofs ----------------------------
(***************************************************************************)
(* What create keeps to, for any calls, items, routes and providers: the   *)
(* promise of an idempotency key, that one provider at most holds for a    *)
(* line, that no hold is forgotten, and the accounts of the internal       *)
(* stock.                                                                  *)
(***************************************************************************)
EXTENDS Checkout, SumTheorems

Early == {"lookup", "insert", "raced"}
Choosing == {"offer", "enough", "short", "hold"}

LineType == [provider : Providers \cup {NoProvider},
             status : {"none", "held", "released", "unknown"}]

Types ==
  /\ pc \in [Calls -> Open \cup Early \cup {"done"}]
  /\ item \in [Calls -> Nat]
  /\ cand = [c \in Calls |-> cand[c]]
  /\ line = [c \in Calls |-> line[c]]
  /\ \A c \in Calls : line[c] \in [Items(c) -> LineType] /\ item[c] \in Items(c)
  /\ answer \in [Calls -> Promise!Answers]
  /\ decided \in [Keys -> Promise!Decisions]
  /\ \A h \in remote : h[1] \in Calls

\* The unique constraint: of the calls under a key, one has inserted its reservation,
\* and none once a reservation is committed.
KeysExclude ==
  /\ \A c \in Calls : pc[c] \in Open => decided[KeyOf[c]].by = NoCall
  /\ \A c \in Calls : pc[c] = "raced" => decided[KeyOf[c]].by # NoCall
  /\ \A c, d \in Calls :
       pc[c] \in Open /\ pc[d] \in Open /\ KeyOf[c] = KeyOf[d] => c = d

Told(c) ==
  /\ pc[c] # "done" <=> answer[c].kind = "none"
  /\ answer[c].kind = "error" => \A i \in Items(c) : line[c][i] = NoLine

\* The lines that a call has still to hold, or to pass over when it gives up, are blank.
Ahead(c) ==
  /\ pc[c] \in Early \cup Choosing =>
       \A i \in Items(c) : i >= item[c] => line[c][i] = NoLine
  /\ pc[c] = "undo" => \E i \in Items(c) : i >= item[c] /\ line[c][i] = NoLine
  /\ pc[c] \in {"enough", "short", "hold"} => Candidate(c) \in Checked

HoldsOf(c) == {h \in remote : h[1] = c}

Blank(c) == HoldsOf(c) = {} /\ \A i \in Items(c) : line[c][i] = NoLine

\* What an external provider holds is the line's, unless the caller got an error.
Recorded(c, h) ==
  /\ h[2] \in Items(c)
  /\ h[3] \in External
  /\ h = <<c, h[2], h[3]>>
  /\ answer[c].kind # "error" =>
       line[c][h[2]].provider = h[3] /\ line[c][h[2]].status \in {"held", "unknown"}

HoldsFit(c) ==
  /\ pc[c] \in Early => Blank(c)
  /\ pc[c] = "done" /\ answer[c].kind # "error" /\ decided[KeyOf[c]].by # c => Blank(c)
  /\ \A h \in HoldsOf(c) : Recorded(c, h)
  /\ \A g, h \in HoldsOf(c) : g[2] = h[2] => g = h

Mine(c) == Told(c) /\ Ahead(c) /\ HoldsFit(c)

CInv == Types /\ KeysExclude /\ \A c \in Calls : Mine(c)

\* What a step of the call c leaves to the others.
LeavesOthers(c) ==
  \A d \in Calls \ {c} :
    /\ pc'[d] = pc[d] /\ item'[d] = item[d] /\ cand'[d] = cand[d]
    /\ line'[d] = line[d] /\ answer'[d] = answer[d]
    /\ HoldsOf(d)' = HoldsOf(d)

Keeps(c) == Types' /\ KeysExclude' /\ LeavesOthers(c) /\ Mine(c)'

LEMMA InitHolds == Init => CInv
<1> SUFFICES ASSUME Init PROVE CInv
  OBVIOUS
<1>1. Types
  BY CheckoutAssumption DEF CheckoutAssumption, Init, Types, NoLine, LineType, Early, Items,
     Promise!Answers, Promise!Decisions
<1>2. KeysExclude
  BY DEF Init, KeysExclude, Open
<1>3. ASSUME NEW c \in Calls PROVE Mine(c)
  BY DEF Init, Mine, Told, Ahead, HoldsFit, HoldsOf, Blank, Early, Choosing
<1> QED
  BY <1>1, <1>2, <1>3 DEF CInv

LEMMA OthersKeep ==
  ASSUME CInv, NEW c \in Calls, LeavesOthers(c), NEW d \in Calls \ {c},
         decided'[KeyOf[d]] = decided[KeyOf[d]] \/ decided[KeyOf[d]].by = NoCall
  PROVE  Mine(d)'
<1>1. Mine(d) /\ d # NoCall
  BY CheckoutAssumption DEF CheckoutAssumption, CInv
<1>2. /\ pc'[d] = pc[d] /\ item'[d] = item[d] /\ cand'[d] = cand[d]
      /\ line'[d] = line[d] /\ answer'[d] = answer[d]
      /\ HoldsOf(d)' = HoldsOf(d)
  BY DEF LeavesOthers
<1>3. Told(d)'
  BY <1>1, <1>2 DEF Mine, Told
<1>4. Ahead(d)'
  BY <1>1, <1>2 DEF Mine, Ahead, Candidate, Route
<1>5. (Blank(d) => Blank(d)') /\ (\A h \in HoldsOf(d) : Recorded(d, h) => Recorded(d, h)')
  BY <1>2 DEF Blank, Recorded
<1>6. HoldsFit(d)'
  BY <1>1, <1>2, <1>5 DEF Mine, HoldsFit
<1> QED
  BY <1>3, <1>4, <1>6 DEF Mine

LEMMA AllKeep ==
  ASSUME CInv, NEW c \in Calls, Keeps(c),
         \A d \in Calls \ {c} :
           decided'[KeyOf[d]] = decided[KeyOf[d]] \/ decided[KeyOf[d]].by = NoCall
  PROVE  CInv'
<1>1. \A d \in Calls \ {c} : Mine(d)'
  BY OthersKeep DEF Keeps
<1> QED
  BY <1>1 DEF Keeps, CInv

-----------------------------------------------------------------------------
(* The key *)

\* What a decision says is an answer, and never an error.
LEMMA ResolvedType ==
  ASSUME NEW c \in Calls, NEW d \in Promise!Decisions
  PROVE  /\ Resolved(c, d) \in Promise!Answers
         /\ Resolved(c, d).kind \notin {"none", "error"}
         /\ Resolved(c, d) = Promise!Resolved(c, d)
<1>1. d.by \in Calls \cup {NoCall} /\ d.held \in BOOLEAN
  BY DEF Promise!Decisions
<1> QED
  BY <1>1 DEF Resolved, Promise!Resolved, Promise!Answers

\* A call that is answered with what is decided has held nothing.
LEMMA AnswerByKeyKeeps ==
  ASSUME CInv, NEW c \in Calls, pc[c] \in Early, AnswerByKey(c),
         UNCHANGED <<item, cand, line, reserved, committed, lock, remote, decided>>
  PROVE  Keeps(c)
<1>1. KeyOf[c] \in Keys /\ decided[KeyOf[c]] \in Promise!Decisions
  BY DEF Keys, CInv, Types
<1>2. /\ answer'[c] = Resolved(c, decided[KeyOf[c]]) /\ pc'[c] = "done"
      /\ \A d \in Calls \ {c} : pc'[d] = pc[d] /\ answer'[d] = answer[d]
  BY DEF AnswerByKey, CInv, Types
<1>3. Types'
  <2>1. /\ pc' \in [Calls -> Open \cup Early \cup {"done"}]
        /\ answer' \in [Calls -> Promise!Answers]
    BY <1>1, ResolvedType DEF AnswerByKey, CInv, Types
  <2> QED
    BY <2>1 DEF CInv, Types
<1>4. KeysExclude'
  BY <1>2 DEF CInv, KeysExclude, Open
<1>5. LeavesOthers(c)
  BY <1>2 DEF LeavesOthers, HoldsOf
<1>6. Mine(c)'
  <2>1. Blank(c)'
    BY DEF CInv, Mine, HoldsFit, Blank, HoldsOf
  <2>2. Told(c)'
    BY <1>1, <1>2, ResolvedType DEF Told
  <2>3. Ahead(c)'
    BY <1>2 DEF Ahead, Early, Choosing
  <2>4. HoldsFit(c)'
    BY <2>1 DEF HoldsFit, Blank
  <2> QED
    BY <2>2, <2>3, <2>4 DEF Mine
<1> QED
  BY <1>3, <1>4, <1>5, <1>6 DEF Keeps

\* Steps of a call that has not inserted its reservation, or that inserts it.
LEMMA InsertKeeps ==
  ASSUME CInv, NEW c \in Calls, NEW where, pc' = [pc EXCEPT ![c] = where],
         pc[c] \in {"lookup", "insert"}, where \in {"insert", "raced", "offer"},
         where = "raced" <=> KeyTaken(c) /\ where # "insert",
         where = "offer" => KeyFree(c),
         UNCHANGED <<item, cand, line, reserved, committed, lock, remote, decided, answer>>
  PROVE  Keeps(c)
<1>1. pc'[c] = where /\ \A d \in Calls \ {c} : pc'[d] = pc[d]
  BY DEF CInv, Types
<1>2. Types'
  BY DEF CInv, Types, Open, Early
<1>3. KeysExclude'
  BY <1>1 DEF CInv, KeysExclude, Open, KeyTaken, KeyFree
<1>4. LeavesOthers(c)
  BY <1>1 DEF LeavesOthers, HoldsOf
<1>5. Mine(c)'
  <2>1. /\ Blank(c) /\ Blank(c)'
        /\ \A i \in Items(c) : i >= item[c] => line[c][i] = NoLine
    BY DEF CInv, Mine, HoldsFit, Ahead, Blank, HoldsOf, Early
  <2>2. Told(c)'
    BY <1>1 DEF CInv, Mine, Told
  <2>3. Ahead(c)'
    BY <1>1, <2>1 DEF Ahead
  <2>4. HoldsFit(c)'
    BY <1>1, <2>1 DEF HoldsFit, Blank
  <2> QED
    BY <2>2, <2>3, <2>4 DEF Mine
<1> QED
  BY <1>2, <1>3, <1>4, <1>5 DEF Keeps

-----------------------------------------------------------------------------
(* The end of a transaction *)

LEMMA CommitKeeps ==
  ASSUME CInv, NEW c \in Calls, Commit(c)
  PROVE  /\ Keeps(c)
         /\ \A d \in Calls \ {c} :
              decided'[KeyOf[d]] = decided[KeyOf[d]] \/ decided[KeyOf[d]].by = NoCall
<1> DEFINE e == [by |-> c, held |-> \A i \in Items(c) : line[c][i].provider # NoProvider]
<1>1. KeyOf[c] \in Keys /\ e \in Promise!Decisions
  BY DEF Keys, Promise!Decisions
<1>2. pc[c] \in Open /\ decided[KeyOf[c]].by = NoCall
  BY DEF Commit, Open, CInv, KeysExclude
<1>3. /\ answer'[c] = Resolved(c, e) /\ pc'[c] = "done"
      /\ decided'[KeyOf[c]] = e
      /\ \A k \in Keys \ {KeyOf[c]} : decided'[k] = decided[k]
      /\ \A d \in Calls \ {c} : pc'[d] = pc[d] /\ answer'[d] = answer[d]
  BY <1>1 DEF Commit, CInv, Types
<1> HIDE DEF e
<1>4. Types'
  <2>1. /\ pc' \in [Calls -> Open \cup Early \cup {"done"}]
        /\ answer' \in [Calls -> Promise!Answers]
        /\ decided' \in [Keys -> Promise!Decisions]
    BY <1>1, ResolvedType DEF Commit, CInv, Types, e
  <2> QED
    BY <2>1 DEF Commit, CInv, Types
<1>5. KeysExclude'
  <2>1. \A d \in Calls \ {c} : KeyOf[d] = KeyOf[c] => pc[d] \notin Open
    BY <1>2 DEF CInv, KeysExclude
  <2>2. \A d \in Calls : KeyOf[d] \in Keys
    BY DEF Keys
  <2>3. e.by # NoCall
    BY CheckoutAssumption DEF CheckoutAssumption, e
  <2> QED
    BY <1>3, <2>1, <2>2, <2>3 DEF CInv, KeysExclude, Open
<1>6. LeavesOthers(c)
  BY <1>3 DEF LeavesOthers, HoldsOf, Commit
<1>7. Mine(c)'
  <2>1. e.by = c
    BY DEF e
  <2>2. answer[c].kind # "error" /\ answer'[c].kind \notin {"none", "error"}
    BY <1>1, <1>2, <1>3, ResolvedType DEF CInv, Mine, Told, Open
  <2>3. Told(c)'
    BY <1>3, <2>2 DEF Told
  <2>4. Ahead(c)'
    BY <1>3 DEF Ahead, Early, Choosing
  <2>5. HoldsFit(c)'
    BY <1>3, <2>1, <2>2 DEF CInv, Mine, HoldsFit, HoldsOf, Recorded, Commit, Early
  <2> QED
    BY <2>3, <2>4, <2>5 DEF Mine
<1>8. \A d \in Calls : KeyOf[d] \in Keys
  BY DEF Keys
<1> QED
  BY <1>2, <1>3, <1>4, <1>5, <1>6, <1>7, <1>8 DEF Keeps

\* While a provider is chosen for a line, nobody holds for it.
LEMMA ChosenIsBlank ==
  ASSUME CInv, NEW c \in Calls, pc[c] \in Choosing
  PROVE  /\ pc[c] \in Open
         /\ answer[c].kind = "none"
         /\ item[c] \in Items(c) /\ item[c] \in Nat
         /\ \A i \in Items(c) : i >= item[c] => line[c][i] = NoLine
         /\ line[c][item[c]] = NoLine
         /\ \A h \in HoldsOf(c) : h[2] # item[c]
<1>1. item[c] \in Items(c) /\ item[c] \in Nat
  BY DEF CInv, Types
<1>2. answer[c].kind = "none"
  BY DEF CInv, Mine, Told, Choosing
<1>3. \A i \in Items(c) : i >= item[c] => line[c][i] = NoLine
  BY DEF CInv, Mine, Ahead
<1>4. line[c][item[c]] = NoLine
  BY <1>1, <1>3
<1>5. \A h \in HoldsOf(c) : h[2] # item[c]
  BY <1>2, <1>4, CheckoutAssumption
     DEF CheckoutAssumption, CInv, Mine, HoldsFit, Recorded, NoLine
<1> QED
  BY <1>1, <1>2, <1>3, <1>4, <1>5 DEF Choosing, Open

LEMMA AskedIsExternal ==
  ASSUME CInv, NEW c \in Calls, CallsHold(c)
  PROVE  pc[c] \in Choosing /\ Candidate(c) \in External
BY CheckoutAssumption
   DEF CheckoutAssumption, CInv, Mine, Ahead, CallsHold, AtCandidate, Choosing

\* A call that is given up is answered with an error, whatever a provider has done.
LEMMA RollbackKeeps ==
  ASSUME CInv, NEW c \in Calls, pc[c] \in Open, Rollback(c),
         remote' = remote \/ (CallsHold(c) /\ remote' = remote \cup {HoldOf(c)})
  PROVE  Keeps(c)
<1>1. /\ pc'[c] = "done" /\ answer'[c] = [kind |-> "error", of |-> NoCall]
      /\ line'[c] = [i \in Items(c) |-> NoLine]
      /\ \A d \in Calls \ {c} :
           pc'[d] = pc[d] /\ answer'[d] = answer[d] /\ line'[d] = line[d]
  BY DEF Rollback, CInv, Types
<1>2. Types'
  <2>1. /\ pc' \in [Calls -> Open \cup Early \cup {"done"}]
        /\ answer' \in [Calls -> Promise!Answers]
    BY DEF Rollback, CInv, Types, Promise!Answers
  <2>2. NoLine \in LineType
    BY DEF NoLine, LineType
  <2>3. line' = [d \in Calls |-> line'[d]]
    BY DEF Rollback, CInv, Types
  <2>4. \A d \in Calls : line'[d] \in [Items(d) -> LineType]
    BY <1>1, <2>2 DEF CInv, Types
  <2>5. \A h \in remote' : h[1] \in Calls
    BY DEF HoldOf, CInv, Types
  <2> QED
    BY <2>1, <2>3, <2>4, <2>5 DEF Rollback, CInv, Types
<1>3. KeysExclude'
  BY <1>1 DEF Rollback, CInv, KeysExclude, Open
<1>4. LeavesOthers(c)
  <2>1. \A d \in Calls \ {c} : HoldsOf(d)' = HoldsOf(d)
    BY DEF HoldsOf, HoldOf
  <2> QED
    BY <1>1, <2>1 DEF LeavesOthers, Rollback
<1>5. Mine(c)'
  <2>1. Told(c)' /\ Ahead(c)'
    BY <1>1 DEF Told, Ahead, Early, Choosing
  <2>2. \A h \in HoldsOf(c)' : Recorded(c, h)'
    <3>1. CASE remote' = remote
      BY <1>1, <3>1 DEF CInv, Mine, HoldsFit, HoldsOf, Recorded
    <3>2. CASE CallsHold(c) /\ remote' = remote \cup {HoldOf(c)}
      BY <1>1, <3>2, ChosenIsBlank, AskedIsExternal DEF CInv, Mine, HoldsFit, HoldsOf, Recorded, HoldOf
    <3> QED
      BY <3>1, <3>2
  <2>3. \A g, h \in HoldsOf(c)' : g[2] = h[2] => g = h
    <3>1. CASE remote' = remote
      BY <3>1 DEF CInv, Mine, HoldsFit, HoldsOf
    <3>2. CASE CallsHold(c) /\ remote' = remote \cup {HoldOf(c)}
      BY <3>2, ChosenIsBlank, AskedIsExternal DEF CInv, Mine, HoldsFit, HoldsOf, HoldOf
    <3> QED
      BY <3>1, <3>2
  <2>4. HoldsFit(c)'
    BY <1>1, <2>2, <2>3 DEF HoldsFit, Early
  <2> QED
    BY <2>1, <2>4 DEF Mine
<1> QED
  BY <1>2, <1>3, <1>4, <1>5 DEF Keeps

-----------------------------------------------------------------------------
(* Inside the transaction *)

\* What such a step has to show: its own lines and holds, as it leaves them.
LEMMA WithinKeeps ==
  ASSUME CInv, NEW c \in Calls, pc[c] \in Open, UNCHANGED <<decided, answer>>,
         NEW where \in Open, pc' = [pc EXCEPT ![c] = where],
         NEW i \in Items(c), item' = [item EXCEPT ![c] = i],
         NEW k, cand' = [cand EXCEPT ![c] = k],
         NEW l \in [Items(c) -> LineType], line' = [line EXCEPT ![c] = l],
         \A h : h[1] # c => (h \in remote' <=> h \in remote),
         Ahead(c)',
         \A h \in HoldsOf(c)' : Recorded(c, h)',
         \A g, h \in HoldsOf(c)' : g[2] = h[2] => g = h
  PROVE  Keeps(c) /\ decided' = decided
<1>1. /\ pc'[c] = where
      /\ \A d \in Calls \ {c} : pc'[d] = pc[d] /\ item'[d] = item[d] /\ cand'[d] = cand[d]
                                /\ line'[d] = line[d] /\ answer'[d] = answer[d]
  BY DEF CInv, Types
<1>2. Types'
  <2>1. i \in Nat
    BY CheckoutAssumption DEF CheckoutAssumption, Items
  <2>2. pc' \in [Calls -> Open \cup Early \cup {"done"}] /\ item' \in [Calls -> Nat]
    BY <2>1 DEF CInv, Types
  <2>3. cand' = [d \in Calls |-> cand'[d]] /\ line' = [d \in Calls |-> line'[d]]
    BY DEF CInv, Types
  <2>4. \A d \in Calls : line'[d] \in [Items(d) -> LineType] /\ item'[d] \in Items(d)
    BY DEF CInv, Types
  <2>5. \A h \in remote' : h[1] \in Calls
    BY DEF CInv, Types
  <2> QED
    BY <2>2, <2>3, <2>4, <2>5 DEF CInv, Types
<1>3. KeysExclude'
  BY <1>1 DEF CInv, KeysExclude, Open
<1>4. LeavesOthers(c)
  BY <1>1 DEF LeavesOthers, HoldsOf
<1>5. Mine(c)'
  <2>1. answer[c].kind = "none"
    BY DEF CInv, Mine, Told, Open
  <2>2. Told(c)'
    BY <1>1, <2>1 DEF Told, Open
  <2>3. HoldsFit(c)'
    BY <1>1 DEF HoldsFit, Early, Open
  <2> QED
    BY <2>2, <2>3 DEF Mine
<1> QED
  BY <1>2, <1>3, <1>4, <1>5 DEF Keeps

\* A step that only moves on leaves the call's holds as they are.
LEMMA SameHolds ==
  ASSUME CInv, NEW c \in Calls, UNCHANGED <<line, remote, answer>>
  PROVE  /\ \A h : h[1] # c => (h \in remote' <=> h \in remote)
         /\ \A h \in HoldsOf(c)' : Recorded(c, h)'
         /\ \A g, h \in HoldsOf(c)' : g[2] = h[2] => g = h
BY DEF CInv, Mine, HoldsFit, HoldsOf, Recorded

LEMMA MovesOnKeeps ==
  ASSUME CInv, NEW c \in Calls, pc[c] \in Open,
         UNCHANGED <<line, remote, decided, answer>>,
         NEW where \in Open, pc' = [pc EXCEPT ![c] = where],
         NEW i \in Items(c), item' = [item EXCEPT ![c] = i],
         NEW k, cand' = [cand EXCEPT ![c] = k],
         Ahead(c)'
  PROVE  Keeps(c) /\ decided' = decided
<1>1. line[c] \in [Items(c) -> LineType] /\ line' = [line EXCEPT ![c] = line[c]]
  BY DEF CInv, Types
<1> QED
  BY <1>1, WithinKeeps, SameHolds

\* The next provider is tried, or the same one is asked to hold.
LEMMA ChoosingKeeps ==
  ASSUME CInv, NEW c \in Calls, pc[c] \in Choosing,
         UNCHANGED <<item, line, remote, decided, answer>>,
         \/ NextCandidate(c)
         \/ /\ cand' = cand /\ Candidate(c) \in Checked
            /\ \E where \in {"enough", "short", "hold"} : pc' = [pc EXCEPT ![c] = where]
  PROVE  Keeps(c) /\ decided' = decided
<1>1. /\ item[c] \in Items(c) /\ item' = [item EXCEPT ![c] = item[c]]
      /\ cand = [cand EXCEPT ![c] = cand[c]]
      /\ \A i \in Items(c) : i >= item[c] => line[c][i] = NoLine
  BY DEF CInv, Types, Mine, Ahead
<1>2. CASE NextCandidate(c)
  <2>1. pc'[c] = "offer"
    BY <1>2 DEF NextCandidate, CInv, Types
  <2>2. Ahead(c)'
    BY <1>1, <2>1 DEF Ahead
  <2> QED
    BY <1>1, <1>2, <2>2, MovesOnKeeps DEF NextCandidate, Open, Choosing
<1>3. CASE /\ cand' = cand /\ Candidate(c) \in Checked
           /\ \E where \in {"enough", "short", "hold"} : pc' = [pc EXCEPT ![c] = where]
  <2>1. PICK where \in {"enough", "short", "hold"} : pc' = [pc EXCEPT ![c] = where]
    BY <1>3
  <2>2. pc'[c] = where
    BY <2>1 DEF CInv, Types
  <2>3. Ahead(c)'
    BY <1>1, <1>3, <2>2 DEF Ahead, Candidate, Route
  <2> QED
    BY <1>1, <1>3, <2>1, <2>3, MovesOnKeeps DEF Open, Choosing
<1> QED
  BY <1>2, <1>3

\* A line that was blank is held, by the provider that holds for it.
LEMMA HeldKeeps ==
  ASSUME CInv, NEW c \in Calls, pc[c] \in Choosing, Held(c), UNCHANGED <<decided, answer>>,
         \/ Candidate(c) \in Internal /\ remote' = remote
         \/ Candidate(c) \in External /\ remote' = remote \cup {HoldOf(c)}
  PROVE  Keeps(c) /\ decided' = decided
<1> DEFINE new == [provider |-> Candidate(c), status |-> "held"]
           l == [line[c] EXCEPT ![item[c]] = new]
<1>1. Candidate(c) \in Providers /\ External \subseteq Providers
  BY CheckoutAssumption DEF CheckoutAssumption, Internal
<1>2. l \in [Items(c) -> LineType] /\ line' = [line EXCEPT ![c] = l]
  BY <1>1 DEF CInv, Types, LineType, Held
<1>3. /\ line'[c] = l /\ l[item[c]] = new
      /\ \A i \in Items(c) : i # item[c] => l[i] = line[c][i]
  BY <1>2, ChosenIsBlank DEF CInv, Types
<1>4. \A h : h[1] # c => (h \in remote' <=> h \in remote)
  BY DEF HoldOf
<1>5. \A h \in HoldsOf(c)' : Recorded(c, h)'
  <2>1. \A h \in HoldsOf(c) : Recorded(c, h)'
    BY <1>3, ChosenIsBlank DEF CInv, Mine, HoldsFit, Recorded
  <2>2. CASE Candidate(c) \in Internal /\ remote' = remote
    BY <2>1, <2>2 DEF HoldsOf
  <2>3. CASE Candidate(c) \in External /\ remote' = remote \cup {HoldOf(c)}
    <3>1. \A h : h = HoldOf(c) => Recorded(c, h)'
      BY <1>3, <2>3, ChosenIsBlank DEF Recorded, HoldOf
    <3> QED
      BY <2>1, <2>3, <3>1 DEF HoldsOf
  <2> QED
    BY <2>2, <2>3
<1>6. \A g, h \in HoldsOf(c)' : g[2] = h[2] => g = h
  BY ChosenIsBlank DEF CInv, Mine, HoldsFit, HoldsOf, HoldOf
<1> HIDE DEF l, new
<1>7. CASE item[c] = Len(ItemsOf[c])
  <2>1. pc' = [pc EXCEPT ![c] = "commit"] /\ UNCHANGED <<item, cand>>
    BY <1>7 DEF Held, NextItem
  <2>2. pc'[c] = "commit"
    BY <2>1 DEF CInv, Types
  <2>3. Ahead(c)'
    BY <2>2 DEF Ahead, Early, Choosing
  <2>4. item' = [item EXCEPT ![c] = item[c]] /\ cand' = [cand EXCEPT ![c] = cand[c]]
    BY <2>1 DEF CInv, Types
  <2> QED
    BY <1>2, <1>4, <1>5, <1>6, <2>1, <2>3, <2>4, ChosenIsBlank, WithinKeeps DEF Open
<1>8. CASE item[c] # Len(ItemsOf[c])
  <2>1. /\ pc' = [pc EXCEPT ![c] = "offer"] /\ cand' = [cand EXCEPT ![c] = 1]
        /\ item' = [item EXCEPT ![c] = item[c] + 1]
    BY <1>8 DEF Held, NextItem
  <2>2. pc'[c] = "offer" /\ item'[c] = item[c] + 1
    BY <2>1 DEF CInv, Types
  <2>3. item[c] + 1 \in Items(c)
    BY <1>8, CheckoutAssumption, ChosenIsBlank DEF CheckoutAssumption, Items
  <2>4. \A i \in Items(c) : i \in Nat
    BY DEF Items
  <2>5. Ahead(c)'
    BY <1>3, <2>2, <2>4, ChosenIsBlank DEF Ahead
  <2> QED
    BY <1>2, <1>4, <1>5, <1>6, <2>1, <2>3, <2>5, ChosenIsBlank, WithinKeeps DEF Open
<1> QED
  BY <1>7, <1>8

-----------------------------------------------------------------------------
(* Compensation *)

\* A line that is being released keeps its provider, and stays on record for as long
\* as the provider may hold.
LEMMA UndoneKeeps ==
  ASSUME CInv, NEW c \in Calls, pc[c] = "undo",
         line[c][item[c]].provider \in Providers,
         NEW status \in {"held", "released", "unknown"}, Undone(c, status),
         NEW p, p = line[c][item[c]].provider,
         \/ remote' = remote \ {<<c, item[c], p>>}
         \/ remote' = remote /\ (p \in Internal \/ status # "released")
  PROVE  Keeps(c) /\ decided' = decided
<1> DEFINE l == [line[c] EXCEPT ![item[c]].status = status]
<1>1. item[c] \in Items(c) /\ item[c] \in Nat /\ answer[c].kind = "none"
  BY DEF CInv, Types, Mine, Told
<1>2. l \in [Items(c) -> LineType] /\ line' = [line EXCEPT ![c] = l]
  BY <1>1 DEF CInv, Types, LineType, Undone
<1>3. /\ line'[c] = l
      /\ l[item[c]].provider = p /\ l[item[c]].status = status
      /\ \A i \in Items(c) : i # item[c] => l[i] = line[c][i]
  BY <1>1, <1>2 DEF CInv, Types, LineType
<1>4. \A h : h[1] # c => (h \in remote' <=> h \in remote)
  OBVIOUS
<1> HIDE DEF l
<1>5. ASSUME NEW h \in HoldsOf(c)' PROVE Recorded(c, h)'
  <2>1. h \in HoldsOf(c) /\ Recorded(c, h)
    BY DEF HoldsOf, CInv, Mine, HoldsFit
  <2>2. CASE h[2] = item[c]
    <3>1. h = <<c, item[c], p>> /\ p \in External
      BY <1>1, <2>1, <2>2 DEF Recorded
    <3>2. status # "released"
      BY <3>1 DEF HoldsOf, Internal
    <3> QED
      BY <1>3, <2>1, <2>2, <3>1, <3>2 DEF Recorded
  <2>3. CASE h[2] # item[c]
    BY <1>3, <2>1, <2>3 DEF Recorded, Undone
  <2> QED
    BY <2>2, <2>3
<1>6. \A g, h \in HoldsOf(c)' : g[2] = h[2] => g = h
  BY DEF CInv, Mine, HoldsFit, HoldsOf
<1>7. PICK i \in Items(c) : i >= item[c] /\ line[c][i] = NoLine
  BY DEF CInv, Mine, Ahead
<1>8. i # item[c] /\ i >= item[c] + 1 /\ item[c] + 1 \in Items(c)
  <2>1. i # item[c]
    BY <1>7, CheckoutAssumption DEF CheckoutAssumption, NoLine
  <2> QED
    BY <1>1, <1>7, <2>1, CheckoutAssumption DEF CheckoutAssumption, Items
<1>9. pc' = [pc EXCEPT ![c] = "undo"] /\ pc'[c] = "undo" /\ item'[c] = item[c] + 1
  BY DEF Undone, CInv, Types
<1>10. Ahead(c)'
  BY <1>3, <1>7, <1>8, <1>9 DEF Ahead, Early, Choosing
<1>11. item' = [item EXCEPT ![c] = item[c] + 1] /\ cand' = [cand EXCEPT ![c] = cand[c]]
  BY DEF Undone, CInv, Types
<1> QED
  BY <1>2, <1>4, <1>5, <1>6, <1>8, <1>9, <1>10, <1>11, WithinKeeps DEF Open, Undone

LEMMA GiveUpKeeps ==
  ASSUME CInv, NEW c \in Calls, GiveUp(c)
  PROVE  Keeps(c) /\ decided' = decided
<1>1. pc[c] \in Choosing
  BY DEF GiveUp, Choosing
<1>2. pc'[c] = "undo" /\ item'[c] = 1 /\ cand' = [cand EXCEPT ![c] = cand[c]]
  BY DEF GiveUp, CInv, Types
<1>3. 1 \in Items(c) /\ \A i \in Items(c) : i >= 1
  BY CheckoutAssumption DEF CheckoutAssumption, Items
<1>4. Ahead(c)'
  BY <1>1, <1>2, <1>3, ChosenIsBlank DEF Ahead, Early, Choosing, GiveUp
<1> QED
  BY <1>1, <1>2, <1>3, <1>4, ChosenIsBlank, MovesOnKeeps DEF GiveUp, Open

LEMMA EndUndoKeeps ==
  ASSUME CInv, NEW c \in Calls, EndUndo(c)
  PROVE  Keeps(c) /\ decided' = decided
<1>1. /\ pc[c] = "undo" /\ pc'[c] = "commit"
      /\ item[c] \in Items(c) /\ item' = [item EXCEPT ![c] = item[c]]
      /\ cand' = [cand EXCEPT ![c] = cand[c]]
  BY DEF EndUndo, Undoing, CInv, Types
<1>2. Ahead(c)'
  BY <1>1 DEF Ahead, Early, Choosing
<1> QED
  BY <1>1, <1>2, MovesOnKeeps DEF EndUndo, Open

-----------------------------------------------------------------------------
(* Every step *)

LEMMA EarlyKeeps ==
  ASSUME CInv, NEW c \in Calls, Lookup(c) \/ Insert(c) \/ LookupAgain(c)
  PROVE  Keeps(c) /\ decided' = decided
<1>1. CASE Lookup(c)
  <2>1. CASE AnswerByKey(c)
    BY <1>1, <2>1, AnswerByKeyKeeps DEF Lookup, Early
  <2>2. CASE pc' = [pc EXCEPT ![c] = "insert"] /\ UNCHANGED answer
    BY <1>1, <2>2, InsertKeeps DEF Lookup
  <2> QED
    BY <1>1, <2>1, <2>2 DEF Lookup
<1>2. CASE Insert(c)
  BY <1>2, InsertKeeps DEF Insert
<1>3. CASE LookupAgain(c)
  BY <1>3, AnswerByKeyKeeps DEF LookupAgain, Early
<1> QED
  BY <1>1, <1>2, <1>3

LEMMA RoutingKeeps ==
  ASSUME CInv, NEW c \in Calls,
         CheckAvailability(c) \/ Observe(c) \/ HoldInternal(c) \/ HoldExternal(c)
  PROVE  Keeps(c) /\ decided' = decided
<1>1. CASE CheckAvailability(c)
  <2>1. pc[c] \in Choosing
    BY <1>1 DEF CheckAvailability, AtCandidate, Choosing
  <2> QED
    BY <1>1, <2>1, ChoosingKeeps DEF CheckAvailability
<1>2. CASE Observe(c)
  <2>1. pc[c] \in Choosing
    BY <1>2 DEF Observe, Choosing
  <2>2. Candidate(c) \in Checked
    BY <1>2 DEF Observe, CInv, Mine, Ahead
  <2> QED
    BY <1>2, <2>1, <2>2, ChoosingKeeps DEF Observe
<1>3. CASE HoldInternal(c)
  <2>1. pc[c] \in Choosing
    BY <1>3 DEF HoldInternal, AtCandidate, Choosing
  <2> QED
    BY <1>3, <2>1, ChoosingKeeps, HeldKeeps DEF HoldInternal
<1>4. CASE HoldExternal(c)
  <2>1. pc[c] \in Choosing /\ Candidate(c) \in External
    BY <1>4, AskedIsExternal DEF HoldExternal
  <2> QED
    BY <1>4, <2>1, ChoosingKeeps, HeldKeeps DEF HoldExternal
<1> QED
  BY <1>1, <1>2, <1>3, <1>4

LEMMA CompensationKeeps ==
  ASSUME CInv, NEW c \in Calls,
         GiveUp(c) \/ ReleaseInternal(c) \/ ReleaseExternal(c) \/ EndUndo(c)
  PROVE  Keeps(c) /\ decided' = decided
<1>1. External \subseteq Providers /\ Internal \subseteq Providers
  BY CheckoutAssumption DEF CheckoutAssumption, Internal
<1>2. CASE ReleaseInternal(c)
  BY <1>1, <1>2, UndoneKeeps DEF ReleaseInternal, Undoing
<1>3. CASE ReleaseExternal(c)
  BY <1>1, <1>3, UndoneKeeps DEF ReleaseExternal, Undoing
<1> QED
  BY <1>2, <1>3, GiveUpKeeps, EndUndoKeeps

LEMMA EndKeeps ==
  ASSUME CInv, NEW c \in Calls, HoldUnknown(c) \/ Fail(c)
  PROVE  Keeps(c) /\ decided' = decided
<1>1. CASE HoldUnknown(c)
  <2>1. pc[c] \in Open
    BY <1>1, AskedIsExternal, ChosenIsBlank DEF HoldUnknown
  <2> QED
    BY <1>1, <2>1, RollbackKeeps DEF HoldUnknown, Rollback
<1>2. CASE Fail(c)
  BY <1>2, RollbackKeeps DEF Fail, Rollback
<1> QED
  BY <1>1, <1>2

LEMMA StepKeeps ==
  ASSUME CInv, NEW c \in Calls, Step(c) \/ Fail(c)
  PROVE  Keeps(c) /\ (Commit(c) \/ decided' = decided)
BY EarlyKeeps, RoutingKeeps, CompensationKeeps, EndKeeps, CommitKeeps DEF Step, Abort

LEMMA NextKeeps == CInv /\ [Next]_vars => CInv'
<1> SUFFICES ASSUME CInv, [Next]_vars PROVE CInv'
  OBVIOUS
<1>1. ASSUME NEW c \in Calls, Step(c) \/ Fail(c) PROVE CInv'
  <2>1. Keeps(c) /\ \A d \in Calls \ {c} :
          decided'[KeyOf[d]] = decided[KeyOf[d]] \/ decided[KeyOf[d]].by = NoCall
    BY <1>1, StepKeeps, CommitKeeps
  <2> QED
    BY <2>1, AllKeep
<1>2. CASE UNCHANGED vars
  <2>1. \A c \in Calls : Mine(c) => Mine(c)'
    BY <1>2 DEF vars, Mine, Told, Ahead, HoldsFit, Blank, HoldsOf, Recorded, Candidate, Route
  <2> QED
    BY <1>2, <2>1 DEF vars, CInv, Types, KeysExclude
<1> QED
  BY <1>1, <1>2 DEF Next

LEMMA Invariance == Spec => []CInv
<1>1. CInv /\ [Next]_vars => CInv'
  BY NextKeeps
<1> QED
  BY <1>1, InitHolds, PTL DEF Spec

-----------------------------------------------------------------------------
(* What create keeps to *)

\* Whatever answers are lost, at most one provider holds for a line of a call: the
\* router falls back after a refusal only, never after a hold or a timeout.
THEOREM OneProviderForALine == Spec => []OneProviderPerLine
<1>1. CInv => OneProviderPerLine
  <2> SUFFICES ASSUME CInv, NEW h \in remote
               PROVE  /\ \A g \in remote : <<g[1], g[2]>> = <<h[1], h[2]>> => g = h
                      /\ line[h[1]][h[2]].provider \in {NoProvider, h[3]}
    BY DEF OneProviderPerLine
  <2> DEFINE c == h[1]
  <2>1. c \in Calls /\ h \in HoldsOf(c) /\ Mine(c)
    BY DEF CInv, Types, HoldsOf
  <2>2. \A g \in remote : <<g[1], g[2]>> = <<h[1], h[2]>> => g \in HoldsOf(c)
    BY DEF HoldsOf
  <2>3. line[c][h[2]].provider \in {NoProvider, h[3]}
    BY <2>1 DEF Mine, Told, HoldsFit, Recorded, NoLine
  <2> QED
    BY <2>1, <2>2, <2>3 DEF Mine, HoldsFit
<1> QED
  BY <1>1, Invariance, PTL

\* No provider holds for a transaction that has ended, unless the reservation says so
\* and a confirmation or release follows, or the caller got an error.
THEOREM HoldsStayOnRecord == Spec => []HoldsAreOnRecord
<1>1. CInv => HoldsAreOnRecord
  <2> SUFFICES ASSUME CInv, NEW h \in remote, pc[h[1]] \notin Open,
                      answer[h[1]].kind # "error"
               PROVE  /\ line[h[1]][h[2]].provider = h[3]
                      /\ line[h[1]][h[2]].status \in {"held", "unknown"}
    BY DEF HoldsAreOnRecord
  <2>1. h[1] \in Calls /\ h \in HoldsOf(h[1])
    BY DEF CInv, Types, HoldsOf
  <2> QED
    BY <2>1 DEF CInv, Mine, HoldsFit, Recorded
<1> QED
  BY <1>1, Invariance, PTL

\* A call that loses the race for its key, or repeats a decided one, has asked no
\* provider to hold: the reservation is inserted before anything is held.
THEOREM LosersAskNobody == Spec => []LosersHoldNothing
<1>1. CInv => LosersHoldNothing
  BY DEF CInv, Mine, HoldsFit, Blank, HoldsOf, LosersHoldNothing
<1> QED
  BY <1>1, Invariance, PTL

\* What a step says to the caller is what CreateOnce promises.
LEMMA StepPromises ==
  ASSUME CInv, NEW c \in Calls, Step(c) \/ Fail(c)
  PROVE  [Promise!Next]_<<decided, answer>>
<1>1. KeyOf[c] \in Keys /\ decided[KeyOf[c]] \in Promise!Decisions
  BY DEF Keys, CInv, Types
<1>2. pc[c] # "done" => answer[c].kind = "none"
  BY DEF CInv, Mine, Told
<1>3. CASE AnswerByKey(c) /\ (Lookup(c) \/ LookupAgain(c)) /\ decided[KeyOf[c]].by # NoCall
  <2>1. Promise!Repeat(c)
    BY <1>1, <1>2, <1>3, ResolvedType DEF Promise!Repeat, AnswerByKey, Lookup, LookupAgain
  <2> QED
    BY <2>1 DEF Promise!Next
<1>4. CASE Rollback(c) /\ pc[c] # "done"
  <2>1. Promise!Err(c)
    BY <1>2, <1>4 DEF Promise!Err, Rollback
  <2> QED
    BY <2>1 DEF Promise!Next
<1>5. CASE Commit(c)
  <2> DEFINE e == [by |-> c, held |-> \A i \in Items(c) : line[c][i].provider # NoProvider]
  <2>1. decided[KeyOf[c]].by = NoCall /\ answer[c].kind = "none"
    BY <1>2, <1>5 DEF Commit, CInv, KeysExclude, Open
  <2>2. e \in Promise!Decisions /\ e = [by |-> c, held |-> e.held] /\ e.held \in BOOLEAN
    BY DEF Promise!Decisions
  <2>3. /\ decided' = [decided EXCEPT ![KeyOf[c]] = e]
        /\ answer' = [answer EXCEPT ![c] = Resolved(c, e)]
    BY <1>5 DEF Commit
  <2> HIDE DEF e
  <2>4. Promise!Decide(c, e.held)
    BY <2>1, <2>2, <2>3, ResolvedType DEF Promise!Decide
  <2> QED
    BY <2>2, <2>4 DEF Promise!Next
<1>6. CASE UNCHANGED <<decided, answer>>
  BY <1>6
<1>7. Fail(c) => Rollback(c) /\ pc[c] # "done"
  BY DEF Fail, Open
<1>8. HoldUnknown(c) => Rollback(c) /\ pc[c] # "done"
  BY AskedIsExternal DEF HoldUnknown, Choosing
<1>9. Lookup(c) => (AnswerByKey(c) /\ decided[KeyOf[c]].by # NoCall)
                   \/ UNCHANGED <<decided, answer>>
  BY DEF Lookup
<1>10. LookupAgain(c) => AnswerByKey(c) /\ decided[KeyOf[c]].by # NoCall
  BY DEF LookupAgain, CInv, KeysExclude
<1> QED
  BY <1>3, <1>4, <1>5, <1>6, <1>7, <1>8, <1>9, <1>10
     DEF Step, Abort, Insert, CheckAvailability, Observe, HoldInternal, HoldExternal,
         GiveUp, ReleaseInternal, ReleaseExternal, EndUndo, Undone

\* However many calls race for a key, are rolled back or repeated, the answers are one
\* decision: the transactions implement CreateOnce.
THEOREM CreatePromises == Spec => KeepsPromise
<1>1. Init => Promise!Init
  BY DEF Init, Promise!Init, Keys, Promise!Keys
<1>2. CInv /\ [Next]_vars => [Promise!Next]_<<decided, answer>>
  BY StepPromises DEF Next, vars
<1> QED
  BY <1>1, <1>2, Invariance, PTL DEF Spec, KeepsPromise, Promise!Spec

-----------------------------------------------------------------------------
(* The accounts of the internal stock *)

\* How far a call has come: its candidate is one of the route, or the first past it,
\* and the lines behind it are held, all of them while it chooses, the rest of them
\* while it releases.
Standing(c) ==
  /\ cand[c] \in Nat \ {0}
  /\ pc[c] \in Early => cand[c] = 1
  /\ pc[c] \in Choosing => cand[c] <= Len(Route(c)) + 1
  /\ pc[c] \in {"enough", "short", "hold"} => cand[c] <= Len(Route(c))
  /\ pc[c] \in Early \cup Choosing =>
       \A i \in Items(c) : line[c][i] = NoLine \/ line[c][i].status = "held"
  /\ pc[c] = "undo" =>
       \A i \in Items(c) : i >= item[c] => line[c][i] = NoLine \/ line[c][i].status = "held"

DoneAt(o) == {l \in HeldAt(o) : pc[l[1]] = "done"}

\* A row is written for the lines that hold it, by the one transaction that has it
\* locked, and committed for the lines of calls that are done.
Accounts(o) ==
  /\ lock[o] # NoCall => pc[lock[o]] \in Open
  /\ o[2] \notin Internal => reserved[o] = 0 /\ committed[o] = 0
  /\ o[2] \in Internal =>
       /\ IsFiniteSet(HeldAt(o))
       /\ \A l \in HeldAt(o) : pc[l[1]] = "done" \/ lock[o] = l[1]
       /\ reserved[o] = QuantityOf(HeldAt(o))
       /\ committed[o] = QuantityOf(DoneAt(o))
       /\ reserved[o] <= Stock[o] /\ committed[o] <= Stock[o]

RowTypes ==
  /\ reserved \in [Offers -> Int]
  /\ committed \in [Offers -> Int]
  /\ lock \in [Offers -> Calls \cup {NoCall}]

AInv ==
  /\ CInv
  /\ RowTypes
  /\ \A c \in Calls : Standing(c)
  /\ \A o \in Offers : Accounts(o)

-----------------------------------------------------------------------------
(* What lines come to *)

LineIds == UNION {{c} \X Items(c) : c \in Calls}

Units == [l \in LineIds |-> Quantity(l[1], l[2])]

LEMMA LineFacts ==
  /\ \A l \in LineIds : /\ l[1] \in Calls /\ l[2] \in Items(l[1]) /\ l = <<l[1], l[2]>>
                        /\ Units[l] \in Nat
  /\ \A c \in Calls : \A i \in Items(c) : <<c, i>> \in LineIds
<1>1. \A l \in LineIds : l[1] \in Calls /\ l[2] \in Items(l[1]) /\ l = <<l[1], l[2]>>
  BY DEF LineIds
<1>2. \A c \in Calls : \A i \in Items(c) : <<c, i>> \in LineIds
  BY DEF LineIds
<1>3. \A c \in Calls : \A i \in Items(c) : Quantity(c, i) \in Nat
  BY CheckoutAssumption DEF CheckoutAssumption, Quantity
<1> QED
  BY <1>1, <1>2, <1>3 DEF Units

LEMMA QuantityIsSum ==
  ASSUME NEW S \in SUBSET LineIds, IsFiniteSet(S)
  PROVE  QuantityOf(S) = Sum(Units, S)
<1> DEFINE Folds(g) == g = [s \in SUBSET S |->
             IF s = {} THEN 0 ELSE Quantity(Pick(s)[1], Pick(s)[2]) + g[s \ {Pick(s)}]]
           iter == CHOOSE g : Folds(g)
<1>1. QuantityOf(S) = iter[S]
  BY DEF QuantityOf, MapThenSumSet, MapThenFoldSet, Pick
<1>2. \A s \in SUBSET S : s # {} => Units[Pick(s)] = Quantity(Pick(s)[1], Pick(s)[2])
  BY DEF Units, Pick
<1>3. ASSUME NEW g PROVE Folds(g) <=> Adds(g, Units, S)
  <2>1. \A s \in SUBSET S :
          (IF s = {} THEN 0 ELSE Quantity(Pick(s)[1], Pick(s)[2]) + g[s \ {Pick(s)}])
        = (IF s = {} THEN 0 ELSE Units[Pick(s)] + g[s \ {Pick(s)}])
    BY <1>2
  <2> QED
    BY <2>1 DEF Adds
<1>4. Folds(iter)
  <2>1. \E g : Folds(g)
    BY <1>3, AddsExists
  <2> HIDE DEF Folds
  <2> QED
    BY <2>1
<1> HIDE DEF iter, Folds
<1>5. Adds(iter, Units, S)
  BY <1>3, <1>4
<1> QED
  BY <1>1, <1>5, SumIs

LEMMA SameQuantity ==
  ASSUME NEW S, NEW T, S = T
  PROVE  QuantityOf(S) = QuantityOf(T)
BY Zenon

LEMMA QuantityNat ==
  ASSUME NEW S \in SUBSET LineIds, IsFiniteSet(S)
  PROVE  QuantityOf(S) \in Nat
<1>1. \A l \in S : Units[l] \in Nat
  BY LineFacts
<1> QED
  BY <1>1, QuantityIsSum, SumNat

\* Two sets of lines that differ in l at most.
LEMMA QuantityStep ==
  ASSUME NEW S, NEW T, S \subseteq LineIds, T \subseteq LineIds, IsFiniteSet(S),
         NEW l, S \ {l} = T \ {l}
  PROVE  /\ IsFiniteSet(T)
         /\ QuantityOf(T) = QuantityOf(S) - Brings(Units, S, l) + Brings(Units, T, l)
<1>1. \A y \in S \cup T : Units[y] \in Int
  BY LineFacts
<1>2. /\ IsFiniteSet(T)
      /\ Sum(Units, T) = Sum(Units, S) - Brings(Units, S, l) + Brings(Units, T, l)
  BY <1>1, SumStep
<1> QED
  BY <1>2, QuantityIsSum

-----------------------------------------------------------------------------
(* What a step does to an account *)

LEMMA HeldAtFacts ==
  ASSUME NEW o
  PROVE  /\ HeldAt(o) \subseteq LineIds /\ HeldAt(o)' \subseteq LineIds
         /\ DoneAt(o) \subseteq HeldAt(o) /\ DoneAt(o)' \subseteq HeldAt(o)'
BY DEF HeldAt, DoneAt, LineIds

\* Lines and rows stay as they are, and a call that ends has held nothing.
LEMMA QuietAccounts ==
  ASSUME CInv, NEW c \in Calls, NEW o \in Offers, Accounts(o),
         o[2] \in Internal => HeldAt(o)' = HeldAt(o),
         UNCHANGED <<reserved[o], committed[o]>>,
         \A d \in Calls \ {c} : pc'[d] = pc[d],
         pc[c] \in Open => pc'[c] \in Open,
         pc[c] \in Open \/ pc'[c] = pc[c] \/ (\A i \in Items(c) : line[c][i] = NoLine),
         \/ lock'[o] = lock[o] /\ lock[o] \in Calls \cup {NoCall}
         \/ lock'[o] = c /\ o[2] \notin Internal /\ pc'[c] \in Open
  PROVE  Accounts(o)'
<1>1. lock'[o] # NoCall => pc'[lock'[o]] \in Open
  BY DEF Accounts
<1>2. CASE o[2] \notin Internal
  BY <1>1, <1>2 DEF Accounts
<1>3. CASE o[2] \in Internal
  <2>1. ASSUME NEW l \in HeldAt(o)
        PROVE  /\ pc'[l[1]] = "done" <=> pc[l[1]] = "done"
               /\ pc'[l[1]] = "done" \/ lock'[o] = l[1]
    <3>1. l[1] \in Calls /\ l[2] \in Items(l[1]) /\ line[l[1]][l[2]] # NoLine
      BY LineFacts, HeldAtFacts DEF HeldAt, NoLine
    <3> QED
      BY <1>3, <3>1 DEF Accounts, Open
  <2>2. HeldAt(o)' = HeldAt(o) /\ DoneAt(o)' = DoneAt(o)
    BY <1>3, <2>1 DEF DoneAt
  <2>3. IsFiniteSet(HeldAt(o)')
    BY <1>3, <2>2, Zenon DEF Accounts
  <2>4. /\ QuantityOf(HeldAt(o)') = QuantityOf(HeldAt(o))
        /\ QuantityOf(DoneAt(o)') = QuantityOf(DoneAt(o))
    BY <2>2, SameQuantity
  <2> QED
    BY <1>1, <1>3, <2>1, <2>2, <2>3, <2>4 DEF Accounts
<1> QED
  BY <1>2, <1>3

\* One line of the transaction that has the row comes to hold it, or holds it no more.
LEMMA LineAccounts ==
  ASSUME CInv, NEW c \in Calls, NEW o \in Offers, Accounts(o), o[2] \in Internal,
         NEW i \in Items(c), HeldAt(o)' \ {<<c, i>>} = HeldAt(o) \ {<<c, i>>},
         reserved'[o] = reserved[o] - Brings(Units, HeldAt(o), <<c, i>>)
                                    + Brings(Units, HeldAt(o)', <<c, i>>),
         reserved'[o] <= Stock[o], committed'[o] = committed[o],
         \A d \in Calls \ {c} : pc'[d] = pc[d],
         pc[c] \in Open, pc'[c] \in Open, lock[o] \in {NoCall, c}, lock'[o] = c
  PROVE  Accounts(o)'
<1>1. <<c, i>> \in LineIds
  BY LineFacts
<1>2. /\ IsFiniteSet(HeldAt(o)')
      /\ reserved'[o] = QuantityOf(HeldAt(o)')
  BY <1>1, QuantityStep, HeldAtFacts DEF Accounts
<1>3. \A l \in LineIds : l[1] = c => pc[l[1]] # "done" /\ pc'[l[1]] # "done"
  BY DEF Open
<1>4. \A l \in LineIds : l[1] \in Calls /\ (l[1] # c => pc'[l[1]] = pc[l[1]] /\ l # <<c, i>>)
  BY LineFacts
<1>5. DoneAt(o)' = DoneAt(o)
  BY <1>3, <1>4, HeldAtFacts DEF DoneAt
<1>6. QuantityOf(DoneAt(o)') = QuantityOf(DoneAt(o))
  BY <1>5, SameQuantity
<1>7. \A l \in HeldAt(o)' : pc'[l[1]] = "done" \/ lock'[o] = l[1]
  BY <1>3, <1>4, HeldAtFacts, CheckoutAssumption DEF Accounts, CheckoutAssumption
<1> QED
  BY <1>2, <1>6, <1>7 DEF Accounts

\* What is reserved and committed is counted in units.
LEMMA AccountTypes ==
  ASSUME NEW o \in Offers, Accounts(o)
  PROVE  reserved[o] \in Nat /\ committed[o] \in Nat
<1>1. CASE o[2] \notin Internal
  BY <1>1 DEF Accounts
<1>2. CASE o[2] \in Internal
  <2>1. IsFiniteSet(HeldAt(o)) /\ IsFiniteSet(DoneAt(o))
    BY <1>2, HeldAtFacts, FS_Subset DEF Accounts
  <2>2. HeldAt(o) \in SUBSET LineIds /\ DoneAt(o) \in SUBSET LineIds
    BY HeldAtFacts
  <2> QED
    BY <1>2, <2>1, <2>2, QuantityNat DEF Accounts
<1> QED
  BY <1>1, <1>2

\* A row that nobody has locked is as it was committed.
LEMMA FreeIsCommitted ==
  ASSUME NEW o \in Offers, Accounts(o), o[2] \in Internal, lock[o] = NoCall
  PROVE  reserved[o] = committed[o]
<1>1. \A l \in HeldAt(o) : l[1] # NoCall
  BY LineFacts, HeldAtFacts, CheckoutAssumption DEF CheckoutAssumption
<1>2. HeldAt(o) = DoneAt(o)
  BY <1>1 DEF Accounts, DoneAt
<1> QED
  BY <1>2, SameQuantity DEF Accounts

LEMMA QuietKeeps ==
  ASSUME AInv, NEW c \in Calls, Keeps(c), UNCHANGED <<line, reserved, committed>>,
         pc[c] \in Early \/ (pc[c] \in Open /\ pc'[c] \in Open),
         \/ lock' = lock
         \/ /\ lock' = [lock EXCEPT ![Row(c)] = c]
            /\ Candidate(c) \notin Internal /\ pc'[c] \in Open
  PROVE  RowTypes' /\ \A o \in Offers : Accounts(o)'
<1>1. RowTypes'
  BY DEF AInv, RowTypes
<1>2. ASSUME NEW o \in Offers PROVE Accounts(o)'
  <2>1. CInv /\ Accounts(o)
    BY DEF AInv
  <2>2. HeldAt(o)' = HeldAt(o)
    BY DEF HeldAt
  <2>3. \A d \in Calls \ {c} : pc'[d] = pc[d]
    BY DEF Keeps, LeavesOthers
  <2>4. pc[c] \in Open \/ \A i \in Items(c) : line[c][i] = NoLine
    BY <2>1 DEF CInv, Mine, HoldsFit, Blank
  <2>5. pc[c] \in Open => pc'[c] \in Open
    BY DEF Early, Open
  <2>6. \/ lock'[o] = lock[o] /\ lock[o] \in Calls \cup {NoCall}
        \/ lock'[o] = c /\ o[2] \notin Internal /\ pc'[c] \in Open
    BY DEF AInv, RowTypes, Row
  <2>7. UNCHANGED <<reserved[o], committed[o]>>
    OBVIOUS
  <2> QED
    BY <2>1, <2>2, <2>3, <2>4, <2>5, <2>6, <2>7, QuietAccounts
<1> QED
  BY <1>1, <1>2

\* l, as the line i of c, holds at the offer o.
HoldsAt(o, c, i, l) ==
  /\ ItemsOf[c][i].product = o[1]
  /\ l = [provider |-> o[2], status |-> "held"]

\* The line i of c becomes l: which offers it is held at, before and after.
LEMMA LineMoves ==
  ASSUME CInv, NEW c \in Calls, NEW i \in Items(c), NEW l,
         line' = [line EXCEPT ![c] = [line[c] EXCEPT ![i] = l]], NEW o
  PROVE  /\ HeldAt(o)' \ {<<c, i>>} = HeldAt(o) \ {<<c, i>>}
         /\ <<c, i>> \in HeldAt(o) <=> HoldsAt(o, c, i, line[c][i])
         /\ <<c, i>> \in HeldAt(o)' <=> HoldsAt(o, c, i, l)
<1>1. <<c, i>> \in LineIds
  BY LineFacts
<1>2. line'[c][i] = l
  BY DEF CInv, Types
<1>3. \A k \in LineIds : k # <<c, i>> => line'[k[1]][k[2]] = line[k[1]][k[2]]
  BY LineFacts DEF CInv, Types
<1>4. HeldAt(o) = {k \in LineIds : /\ ItemsOf[k[1]][k[2]].product = o[1]
                                   /\ line[k[1]][k[2]] = [provider |-> o[2], status |-> "held"]}
  BY DEF HeldAt, LineIds
<1>5. HeldAt(o)' = {k \in LineIds : /\ ItemsOf[k[1]][k[2]].product = o[1]
                                    /\ line'[k[1]][k[2]] = [provider |-> o[2], status |-> "held"]}
  BY DEF HeldAt, LineIds
<1> QED
  BY <1>1, <1>2, <1>3, <1>4, <1>5 DEF HoldsAt

\* A line that no internal offer knows, before or after, moves no account.
LEMMA OutsideKeeps ==
  ASSUME AInv, NEW c \in Calls, Keeps(c), UNCHANGED <<reserved, committed, lock>>,
         pc[c] \in Open, pc'[c] \in Open, NEW i \in Items(c), NEW l,
         line' = [line EXCEPT ![c] = [line[c] EXCEPT ![i] = l]],
         line[c][i].provider \notin Internal, l.provider \notin Internal
  PROVE  RowTypes' /\ \A o \in Offers : Accounts(o)'
<1>1. RowTypes'
  BY DEF AInv, RowTypes
<1>2. ASSUME NEW o \in Offers PROVE Accounts(o)'
  <2>1. CInv /\ Accounts(o) /\ lock[o] \in Calls \cup {NoCall}
    BY DEF AInv, RowTypes
  <2>2. o[2] \in Internal => HeldAt(o)' = HeldAt(o)
    <3>1. ASSUME o[2] \in Internal
          PROVE  <<c, i>> \notin HeldAt(o) /\ <<c, i>> \notin HeldAt(o)'
      <4>1. ~ HoldsAt(o, c, i, line[c][i]) /\ ~ HoldsAt(o, c, i, l)
        BY <3>1 DEF HoldsAt
      <4> QED
        BY <2>1, <4>1, LineMoves
    <3>2. HeldAt(o)' \ {<<c, i>>} = HeldAt(o) \ {<<c, i>>}
      BY <2>1, LineMoves
    <3> QED
      BY <3>1, <3>2
  <2>3. \A d \in Calls \ {c} : pc'[d] = pc[d]
    BY DEF Keeps, LeavesOthers
  <2>4. lock'[o] = lock[o] /\ UNCHANGED <<reserved[o], committed[o]>>
    OBVIOUS
  <2> QED
    BY <2>1, <2>2, <2>3, <2>4, QuietAccounts
<1> QED
  BY <1>1, <1>2

\* The UPDATE of try_hold: the row has the units that the line takes.
LEMMA TakeKeeps ==
  ASSUME AInv, NEW c \in Calls, Keeps(c), HoldInternal(c), Held(c),
         Suffices(c), RowFree(c, Row(c)),
         reserved' = [reserved EXCEPT ![Row(c)] = @ + Quantity(c, item[c])],
         lock' = [lock EXCEPT ![Row(c)] = c]
  PROVE  RowTypes' /\ \A o \in Offers : Accounts(o)'
<1> DEFINE i == item[c]
           l == [provider |-> Candidate(c), status |-> "held"]
<1>1. CInv /\ i \in Items(c) /\ Quantity(c, i) \in Nat /\ pc[c] \in Choosing
  BY CheckoutAssumption
     DEF CheckoutAssumption, AInv, CInv, Types, Quantity, HoldInternal, AtCandidate, Choosing
<1>2. RowTypes'
  <2>1. Row(c) \in Offers => reserved[Row(c)] + Quantity(c, i) \in Int
    BY <1>1 DEF AInv, RowTypes
  <2>2. reserved' \in [Offers -> Int]
    BY <2>1 DEF AInv, RowTypes
  <2> QED
    BY <2>2 DEF AInv, RowTypes, HoldInternal
<1>3. line' = [line EXCEPT ![c] = [line[c] EXCEPT ![i] = l]] /\ line[c][i] = NoLine
  BY <1>1, ChosenIsBlank DEF Held
<1>4. pc[c] \in Open /\ pc'[c] \in Open /\ committed' = committed
  <2>1. pc'[c] \in {"commit", "offer"}
    BY <1>1 DEF Held, NextItem, CInv, Types
  <2> QED
    BY <1>1, <2>1 DEF Choosing, Open, HoldInternal
<1>5. \A d \in Calls \ {c} : pc'[d] = pc[d]
  BY DEF Keeps, LeavesOthers
<1>6. ASSUME NEW o \in Offers PROVE Accounts(o)'
  <2>1. Accounts(o) /\ lock[o] \in Calls \cup {NoCall}
    BY DEF AInv, RowTypes
  <2>2. /\ HeldAt(o)' \ {<<c, i>>} = HeldAt(o) \ {<<c, i>>}
        /\ <<c, i>> \notin HeldAt(o)
        /\ <<c, i>> \in HeldAt(o)' => o[1] = Row(c)[1] /\ o[2] = Row(c)[2]
        /\ o = Row(c) => <<c, i>> \in HeldAt(o)'
    <3>1. ~ HoldsAt(o, c, i, line[c][i])
      BY <1>3 DEF NoLine, HoldsAt
    <3>2. HoldsAt(o, c, i, l) <=> o[1] = Row(c)[1] /\ o[2] = Row(c)[2]
      BY DEF Row, HoldsAt
    <3> HIDE DEF i, l
    <3> QED
      BY <1>1, <1>3, <3>1, <3>2, LineMoves
  <2>3. CASE o = Row(c)
    <3>1. o[2] \in Internal /\ lock[o] \in {NoCall, c}
      BY <2>3 DEF Row, HoldInternal, RowFree
    <3>2. /\ Brings(Units, HeldAt(o), <<c, i>>) = 0
          /\ Brings(Units, HeldAt(o)', <<c, i>>) = Quantity(c, i)
      BY <1>1, <2>2, <2>3, LineFacts DEF Brings, Units
    <3>3. reserved[o] \in Nat /\ reserved'[o] = reserved[o] + Quantity(c, i) /\ lock'[o] = c
      BY <2>1, <2>3, AccountTypes DEF AInv, RowTypes
    <3>4. reserved'[o] <= Stock[o]
      <4>1. Stock[o] \in Nat
        BY CheckoutAssumption DEF CheckoutAssumption
      <4>2. Stock[o] - reserved[o] >= Quantity(c, i)
        BY <2>1, <2>3, <3>1, FreeIsCommitted, CheckoutAssumption DEF CheckoutAssumption, Suffices
      <4> QED
        BY <1>1, <3>3, <4>1, <4>2
    <3>5. reserved'[o] = reserved[o] - Brings(Units, HeldAt(o), <<c, i>>)
                                     + Brings(Units, HeldAt(o)', <<c, i>>)
      BY <1>1, <3>2, <3>3
    <3> HIDE DEF i, l
    <3> QED
      BY <1>1, <1>4, <1>5, <2>1, <2>2, <3>1, <3>3, <3>4, <3>5, LineAccounts
  <2>4. CASE o # Row(c)
    <3>1. UNCHANGED <<reserved[o], committed[o]>> /\ lock'[o] = lock[o]
      BY <1>4, <2>4 DEF AInv, RowTypes
    <3>2. HeldAt(o)' = HeldAt(o)
      <4>1. o = <<o[1], o[2]>> /\ Row(c) = <<Row(c)[1], Row(c)[2]>>
        BY CheckoutAssumption DEF CheckoutAssumption, Row
      <4>2. <<c, i>> \notin HeldAt(o)'
        BY <2>2, <2>4, <4>1
      <4> QED
        BY <2>2, <4>2
    <3> QED
      BY <1>1, <1>4, <1>5, <2>1, <3>1, <3>2, QuietAccounts
  <2> QED
    BY <2>3, <2>4
<1> QED
  BY <1>2, <1>6

\* The release of a line: its call has the row locked, and the line held its units.
LEMMA GiveBackKeeps ==
  ASSUME AInv, NEW c \in Calls, Keeps(c), ReleaseInternal(c)
  PROVE  RowTypes' /\ \A o \in Offers : Accounts(o)'
<1> DEFINE i == item[c]
           p == line[c][i].provider
           row == <<ItemsOf[c][i].product, p>>
           l == [line[c][i] EXCEPT !.status = "released"]
<1>1. /\ CInv /\ i \in Items(c) /\ i \in Nat /\ Quantity(c, i) \in Nat
      /\ pc[c] = "undo" /\ p \in Internal /\ line[c][i] \in LineType
  BY CheckoutAssumption
     DEF CheckoutAssumption, AInv, CInv, Types, Quantity, ReleaseInternal, Undoing
<1>2. /\ reserved' = [reserved EXCEPT ![row] = @ - Quantity(c, i)]
      /\ UNCHANGED <<pc, committed, lock>>
      /\ line' = [line EXCEPT ![c] = [line[c] EXCEPT ![i] = l]]
  BY DEF ReleaseInternal, Undone
<1>3. line[c][i].status = "held"
  <2>1. line[c][i] # NoLine
    BY <1>1, CheckoutAssumption DEF CheckoutAssumption, NoLine, Internal
  <2> QED
    BY <1>1, <2>1 DEF AInv, Standing
<1>4. RowTypes'
  <2>1. row \in Offers => reserved[row] - Quantity(c, i) \in Int
    BY <1>1 DEF AInv, RowTypes
  <2>2. reserved' \in [Offers -> Int]
    BY <1>2, <2>1 DEF AInv, RowTypes
  <2> QED
    BY <1>2, <2>2 DEF AInv, RowTypes
<1>5. pc[c] \in Open
  BY <1>1 DEF Open
<1>6. ASSUME NEW o \in Offers PROVE Accounts(o)'
  <2>1. Accounts(o) /\ lock[o] \in Calls \cup {NoCall}
    BY DEF AInv, RowTypes
  <2>2. /\ HeldAt(o)' \ {<<c, i>>} = HeldAt(o) \ {<<c, i>>}
        /\ <<c, i>> \notin HeldAt(o)'
        /\ <<c, i>> \in HeldAt(o) <=> o[1] = row[1] /\ o[2] = row[2]
    <3>1. ~ HoldsAt(o, c, i, l)
      BY <1>1 DEF HoldsAt, LineType
    <3>2. HoldsAt(o, c, i, line[c][i]) <=> o[1] = row[1] /\ o[2] = row[2]
      BY <1>1, <1>3 DEF HoldsAt, LineType
    <3> HIDE DEF i, l, row
    <3> QED
      BY <1>1, <1>2, <3>1, <3>2, LineMoves
  <2>3. CASE o = row
    <3>1. <<c, i>> \in HeldAt(o) /\ o[2] \in Internal
      BY <1>1, <2>2, <2>3
    <3>2. lock[o] = c
      BY <1>5, <2>1, <3>1 DEF Accounts, Open
    <3>3. /\ Brings(Units, HeldAt(o), <<c, i>>) = Quantity(c, i)
          /\ Brings(Units, HeldAt(o)', <<c, i>>) = 0
      BY <1>1, <2>2, <3>1, LineFacts DEF Brings, Units
    <3>4. reserved[o] \in Nat /\ reserved'[o] = reserved[o] - Quantity(c, i)
      BY <1>2, <2>1, <2>3, AccountTypes DEF AInv, RowTypes
    <3>5. reserved'[o] <= Stock[o]
      <4>1. Stock[o] \in Nat /\ reserved[o] <= Stock[o]
        BY <2>1, <3>1, CheckoutAssumption DEF CheckoutAssumption, Accounts
      <4> QED
        BY <1>1, <3>4, <4>1
    <3>6. reserved'[o] = reserved[o] - Brings(Units, HeldAt(o), <<c, i>>)
                                     + Brings(Units, HeldAt(o)', <<c, i>>)
      BY <1>1, <3>3, <3>4
    <3> HIDE DEF i, l, row
    <3> QED
      BY <1>1, <1>2, <1>5, <2>1, <2>2, <3>1, <3>2, <3>5, <3>6, LineAccounts
  <2>4. CASE o # row
    <3>1. UNCHANGED <<reserved[o], committed[o]>> /\ lock'[o] = lock[o]
      BY <1>2, <2>4 DEF AInv, RowTypes
    <3>2. HeldAt(o)' = HeldAt(o)
      <4>1. o = <<o[1], o[2]>> /\ row = <<row[1], row[2]>>
        BY CheckoutAssumption DEF CheckoutAssumption
      <4>2. <<c, i>> \notin HeldAt(o)
        BY <2>2, <2>4, <4>1
      <4> QED
        BY <2>2, <4>2
    <3> QED
      BY <1>1, <1>2, <1>5, <2>1, <3>1, <3>2, QuietAccounts
  <2> QED
    BY <2>3, <2>4
<1> QED
  BY <1>4, <1>6

\* What no call holds of c's, when c has the row or not.
LEMMA OwnLines ==
  ASSUME NEW c \in Calls, NEW o, Accounts(o), o[2] \in Internal, pc[c] \in Open
  PROVE  /\ lock[o] = c => \A l \in HeldAt(o) : pc[l[1]] = "done" <=> l[1] # c
         /\ lock[o] # c => \A l \in HeldAt(o) : l[1] # c
BY DEF Accounts, Open

\* A rollback puts a row back to what is committed, and what is committed was held by
\* the calls that are done.
LEMMA RollbackAccounts ==
  ASSUME AInv, NEW c \in Calls, Keeps(c), pc[c] \in Open, Rollback(c)
  PROVE  RowTypes' /\ \A o \in Offers : Accounts(o)'
<1>1. /\ reserved' = [o \in Offers |-> IF lock[o] = c THEN committed[o] ELSE reserved[o]]
      /\ lock' = [o \in Offers |-> IF lock[o] = c THEN NoCall ELSE lock[o]]
      /\ committed' = committed /\ pc'[c] = "done"
      /\ line'[c] = [i \in Items(c) |-> NoLine]
  BY DEF Rollback, AInv, CInv, Types
<1>2. \A d \in Calls \ {c} : pc'[d] = pc[d] /\ line'[d] = line[d]
  BY DEF Keeps, LeavesOthers
<1>3. RowTypes'
  BY <1>1 DEF AInv, RowTypes
<1>4. ASSUME NEW o \in Offers PROVE Accounts(o)'
  <2>1. Accounts(o) /\ lock[o] \in Calls \cup {NoCall} /\ c # NoCall
    BY CheckoutAssumption DEF CheckoutAssumption, AInv, RowTypes
  <2>2. lock'[o] # NoCall => pc'[lock'[o]] \in Open
    BY <1>1, <1>2, <2>1 DEF Accounts
  <2>3. CASE o[2] \notin Internal
    BY <1>1, <2>1, <2>2, <2>3 DEF Accounts
  <2>4. CASE o[2] \in Internal
    <3>1. HeldAt(o)' = {l \in HeldAt(o) : l[1] # c}
      <4>1. \A k \in LineIds :
              line'[k[1]][k[2]] = IF k[1] = c THEN NoLine ELSE line[k[1]][k[2]]
        BY <1>1, <1>2, LineFacts
      <4>2. HeldAt(o) = {k \in LineIds : HoldsAt(o, k[1], k[2], line[k[1]][k[2]])}
        BY DEF HeldAt, LineIds, HoldsAt
      <4>3. HeldAt(o)' = {k \in LineIds : HoldsAt(o, k[1], k[2], line'[k[1]][k[2]])}
        BY DEF HeldAt, LineIds, HoldsAt
      <4>4. \A k : ~ HoldsAt(o, k[1], k[2], NoLine)
        BY DEF HoldsAt, NoLine
      <4> QED
        BY <4>1, <4>2, <4>3, <4>4
    <3>2. \A l \in HeldAt(o) : l[1] \in Calls
      BY LineFacts, HeldAtFacts
    <3>3. DoneAt(o)' = DoneAt(o)
      <4>1. \A l \in HeldAt(o) : l[1] # c => pc'[l[1]] = pc[l[1]]
        BY <1>2, <3>2
      <4> QED
        BY <3>1, <4>1 DEF DoneAt, Open
    <3>4. HeldAt(o)' = IF lock[o] = c THEN DoneAt(o) ELSE HeldAt(o)
      BY <2>1, <2>4, <3>1, OwnLines DEF DoneAt
    <3>5. IsFiniteSet(HeldAt(o)')
      BY <2>1, <2>4, <3>1, FS_Subset DEF Accounts
    <3>6. /\ QuantityOf(HeldAt(o)') = IF lock[o] = c THEN QuantityOf(DoneAt(o))
                                                     ELSE QuantityOf(HeldAt(o))
          /\ QuantityOf(DoneAt(o)') = QuantityOf(DoneAt(o))
      BY <3>3, <3>4, SameQuantity
    <3>7. \A l \in HeldAt(o)' : pc'[l[1]] = "done" \/ lock'[o] = l[1]
      BY <1>1, <1>2, <2>1, <2>4, <3>1, <3>2 DEF Accounts
    <3>8. reserved'[o] = IF lock[o] = c THEN committed[o] ELSE reserved[o]
      BY <1>1
    <3> QED
      BY <1>1, <2>1, <2>2, <2>4, <3>5, <3>6, <3>7, <3>8 DEF Accounts
  <2> QED
    BY <2>3, <2>4
<1> QED
  BY <1>3, <1>4

LEMMA CommitAccounts ==
  ASSUME AInv, NEW c \in Calls, Keeps(c), Commit(c)
  PROVE  RowTypes' /\ \A o \in Offers : Accounts(o)'
<1>1. /\ committed' = [o \in Offers |-> IF lock[o] = c THEN reserved[o] ELSE committed[o]]
      /\ lock' = [o \in Offers |-> IF lock[o] = c THEN NoCall ELSE lock[o]]
      /\ reserved' = reserved /\ pc'[c] = "done" /\ line' = line /\ pc[c] \in Open
  BY DEF Commit, AInv, CInv, Types, Open
<1>2. \A d \in Calls \ {c} : pc'[d] = pc[d]
  BY DEF Keeps, LeavesOthers
<1>3. RowTypes'
  BY <1>1 DEF AInv, RowTypes
<1>4. ASSUME NEW o \in Offers PROVE Accounts(o)'
  <2>1. Accounts(o) /\ lock[o] \in Calls \cup {NoCall} /\ c # NoCall
    BY CheckoutAssumption DEF CheckoutAssumption, AInv, RowTypes
  <2>2. lock'[o] # NoCall => pc'[lock'[o]] \in Open
    BY <1>1, <1>2, <2>1 DEF Accounts
  <2>3. CASE o[2] \notin Internal
    BY <1>1, <2>1, <2>2, <2>3 DEF Accounts
  <2>4. CASE o[2] \in Internal
    <3>1. HeldAt(o)' = HeldAt(o)
      BY <1>1 DEF HeldAt
    <3>2. \A l \in HeldAt(o) : l[1] \in Calls
      BY LineFacts, HeldAtFacts
    <3>3. DoneAt(o)' = IF lock[o] = c THEN HeldAt(o) ELSE DoneAt(o)
      <4>1. \A l \in HeldAt(o) : pc'[l[1]] = "done" <=> l[1] = c \/ pc[l[1]] = "done"
        BY <1>1, <1>2, <3>2
      <4> QED
        BY <1>1, <2>1, <2>4, <3>1, <4>1, OwnLines DEF DoneAt
    <3>4. IsFiniteSet(HeldAt(o)')
      BY <2>1, <2>4, <3>1, FS_Subset DEF Accounts
    <3>5. /\ QuantityOf(DoneAt(o)') = IF lock[o] = c THEN QuantityOf(HeldAt(o))
                                                     ELSE QuantityOf(DoneAt(o))
          /\ QuantityOf(HeldAt(o)') = QuantityOf(HeldAt(o))
      BY <3>1, <3>3, SameQuantity
    <3>6. \A l \in HeldAt(o)' : pc'[l[1]] = "done" \/ lock'[o] = l[1]
      BY <1>1, <1>2, <2>1, <2>4, <3>1, <3>2 DEF Accounts
    <3>7. committed'[o] = IF lock[o] = c THEN reserved[o] ELSE committed[o]
      BY <1>1
    <3> QED
      BY <1>1, <2>1, <2>2, <2>4, <3>4, <3>5, <3>6, <3>7 DEF Accounts
  <2> QED
    BY <2>3, <2>4
<1> QED
  BY <1>3, <1>4

-----------------------------------------------------------------------------
(* How far a call has come *)

LEMMA RouteLength ==
  ASSUME CInv, NEW c \in Calls
  PROVE  Len(Route(c)) \in Nat
BY CheckoutAssumption DEF CheckoutAssumption, CInv, Types, Route

LEMMA NextCandidateStands ==
  ASSUME AInv, NEW c \in Calls, pc[c] \in Choosing, cand[c] <= Len(Route(c)),
         NextCandidate(c), UNCHANGED <<item, line>>
  PROVE  Standing(c)'
<1>1. pc'[c] = "offer" /\ cand'[c] = cand[c] + 1
  BY DEF NextCandidate, AInv, CInv, Types
<1>2. Standing(c) /\ Len(Route(c)) \in Nat /\ Route(c)' = Route(c)
  BY RouteLength DEF AInv, Route
<1>3. cand'[c] \in Nat \ {0} /\ cand'[c] <= Len(Route(c)') + 1
  BY <1>1, <1>2 DEF Standing
<1>4. \A i \in Items(c) : line'[c][i] = NoLine \/ line'[c][i].status = "held"
  BY <1>2 DEF Standing
<1> QED
  BY <1>1, <1>3, <1>4 DEF Standing, Early

LEMMA SameCandidateStands ==
  ASSUME AInv, NEW c \in Calls, pc[c] \in Choosing, cand[c] <= Len(Route(c)),
         pc'[c] \in {"enough", "short", "hold"}, UNCHANGED <<item, cand, line>>
  PROVE  Standing(c)'
<1>1. Standing(c) /\ Len(Route(c)) \in Nat /\ Route(c)' = Route(c)
  BY RouteLength DEF AInv, Route
<1>2. \A i \in Items(c) : line'[c][i] = NoLine \/ line'[c][i].status = "held"
  BY <1>1 DEF Standing
<1>3. cand'[c] \in Nat \ {0} /\ cand'[c] <= Len(Route(c)') /\ cand'[c] <= Len(Route(c)') + 1
  BY <1>1 DEF Standing
<1> QED
  BY <1>2, <1>3 DEF Standing, Early

LEMMA HeldStands ==
  ASSUME AInv, NEW c \in Calls, pc[c] \in Choosing, Held(c), Keeps(c)
  PROVE  Standing(c)'
<1>1. Standing(c) /\ Types
  BY DEF AInv, CInv
<1>2. Len(Route(c)') \in Nat
  BY CheckoutAssumption DEF CheckoutAssumption, Keeps, Types, Route
<1>3. \A i \in Items(c) : line'[c][i] = NoLine \/ line'[c][i].status = "held"
  <2>1. \A i \in Items(c) : i # item[c] => line'[c][i] = line[c][i]
    BY <1>1 DEF Held, Types
  <2>2. line'[c][item[c]].status = "held"
    BY <1>1 DEF Held, Types
  <2> QED
    BY <1>1, <2>1, <2>2 DEF Standing
<1>4. \/ pc'[c] = "commit" /\ cand'[c] = cand[c]
      \/ pc'[c] = "offer" /\ cand'[c] = 1
  BY <1>1 DEF Held, NextItem, Types
<1>5. cand'[c] \in Nat \ {0} /\ (pc'[c] = "offer" => cand'[c] <= Len(Route(c)') + 1)
  BY <1>1, <1>2, <1>4 DEF Standing
<1> QED
  BY <1>3, <1>4, <1>5 DEF Standing, Early, Choosing

LEMMA UndoneStands ==
  ASSUME AInv, NEW c \in Calls, pc[c] = "undo", NEW status, Undone(c, status)
  PROVE  Standing(c)'
<1>1. Standing(c) /\ Types /\ item[c] \in Nat
  BY DEF AInv, CInv, Types
<1>2. pc'[c] = "undo" /\ cand'[c] = cand[c] /\ item'[c] = item[c] + 1
  BY <1>1 DEF Undone, Types
<1>3. \A i \in Items(c) : i \in Nat /\ (i # item[c] => line'[c][i] = line[c][i])
  BY <1>1 DEF Undone, Types, Items
<1>4. \A i \in Items(c) : i >= item'[c] => line'[c][i] = NoLine \/ line'[c][i].status = "held"
  BY <1>1, <1>2, <1>3 DEF Standing
<1> QED
  BY <1>1, <1>2, <1>4 DEF Standing, Early, Choosing

LEMMA EarlyStands ==
  ASSUME AInv, NEW c \in Calls, pc[c] \in Early, UNCHANGED <<item, cand, line>>,
         pc'[c] \in {"insert", "raced", "done", "offer"}
  PROVE  Standing(c)'
<1>1. Standing(c) /\ Len(Route(c)) \in Nat /\ Route(c)' = Route(c)
  BY RouteLength DEF AInv, Route
<1> QED
  BY <1>1 DEF Standing, Early, Choosing

LEMMA EndingStands ==
  ASSUME AInv, NEW c \in Calls, cand' = cand, pc'[c] = "commit" \/ pc'[c] = "done"
  PROVE  Standing(c)'
<1>1. cand'[c] \in Nat \ {0}
  BY DEF AInv, Standing
<1> QED
  BY <1>1 DEF Standing, Early, Choosing

LEMMA OwnStanding ==
  ASSUME AInv, NEW c \in Calls, Step(c) \/ Fail(c)
  PROVE  Standing(c)'
<1>1. CInv /\ Types /\ Keeps(c) /\ Standing(c)
  BY StepKeeps DEF AInv, CInv
<1>2. CASE Lookup(c) \/ Insert(c) \/ LookupAgain(c)
  <2>1. /\ pc[c] \in Early /\ UNCHANGED <<item, cand, line>>
        /\ pc'[c] \in {"insert", "raced", "done", "offer"}
    BY <1>1, <1>2 DEF Lookup, Insert, LookupAgain, AnswerByKey, Early, Types
  <2> QED
    BY <2>1, EarlyStands
<1>3. CASE CheckAvailability(c) \/ Observe(c)
  <2>1. /\ pc[c] \in Choosing /\ cand[c] <= Len(Route(c)) /\ UNCHANGED <<item, line>>
        /\ NextCandidate(c) \/ (pc'[c] \in {"enough", "short", "hold"} /\ cand' = cand)
    BY <1>1, <1>3 DEF CheckAvailability, Observe, AtCandidate, Choosing, Standing, Types
  <2> QED
    BY <2>1, NextCandidateStands, SameCandidateStands
<1>4. CASE HoldInternal(c)
  <2>1. pc[c] \in Choosing /\ cand[c] <= Len(Route(c))
    BY <1>4 DEF HoldInternal, AtCandidate, Choosing
  <2> QED
    BY <1>1, <1>4, <2>1, NextCandidateStands, HeldStands DEF HoldInternal
<1>5. CASE HoldExternal(c)
  <2>1. pc[c] \in Choosing /\ cand[c] <= Len(Route(c))
    BY <1>1, <1>5 DEF HoldExternal, CallsHold, AtCandidate, Choosing, Standing
  <2> QED
    BY <1>1, <1>5, <2>1, NextCandidateStands, HeldStands DEF HoldExternal
<1>6. CASE HoldUnknown(c) \/ Fail(c)
  <2>1. pc'[c] = "done" /\ cand' = cand
    BY <1>1, <1>6 DEF HoldUnknown, Fail, Rollback, Types
  <2> QED
    BY <2>1, EndingStands
<1>7. CASE GiveUp(c)
  <2>1. pc'[c] = "undo" /\ pc[c] \in Choosing /\ UNCHANGED <<cand, line>>
    BY <1>1, <1>7 DEF GiveUp, Choosing, Types
  <2>2. /\ cand'[c] \in Nat \ {0}
        /\ \A i \in Items(c) : line'[c][i] = NoLine \/ line'[c][i].status = "held"
    BY <1>1, <2>1 DEF Standing
  <2> QED
    BY <2>1, <2>2 DEF Standing, Early, Choosing
<1>8. CASE ReleaseInternal(c) \/ ReleaseExternal(c)
  BY <1>8, UndoneStands DEF ReleaseInternal, ReleaseExternal, Undoing
<1>9. CASE EndUndo(c) \/ Commit(c)
  <2>1. pc'[c] = "done" \/ pc'[c] = "commit"
    BY <1>1, <1>9 DEF EndUndo, Commit, Types
  <2>2. cand' = cand
    BY <1>9 DEF EndUndo, Commit
  <2> QED
    BY <2>1, <2>2, EndingStands
<1> QED
  BY <1>2, <1>3, <1>4, <1>5, <1>6, <1>7, <1>8, <1>9 DEF Step, Abort

LEMMA StepStands ==
  ASSUME AInv, NEW c \in Calls, Step(c) \/ Fail(c)
  PROVE  \A d \in Calls : Standing(d)'
<1>1. Keeps(c)
  BY StepKeeps DEF AInv
<1>2. ASSUME NEW d \in Calls \ {c} PROVE Standing(d)'
  <2>1. Standing(d)
    BY DEF AInv
  <2> QED
    BY <1>1, <2>1 DEF Standing, Keeps, LeavesOthers, Route
<1> QED
  BY <1>2, OwnStanding

-----------------------------------------------------------------------------
(* The accounts after every step *)

LEMMA CallAccounts ==
  ASSUME AInv, NEW c \in Calls, Keeps(c),
         \/ Lookup(c) \/ Insert(c) \/ LookupAgain(c)
         \/ CheckAvailability(c) \/ Observe(c) \/ GiveUp(c) \/ EndUndo(c)
  PROVE  RowTypes' /\ \A o \in Offers : Accounts(o)'
<1>1. Types
  BY DEF AInv, CInv
<1>2. CASE Lookup(c) \/ Insert(c) \/ LookupAgain(c)
  <2>1. pc[c] \in Early /\ UNCHANGED <<line, reserved, committed>> /\ lock' = lock
    BY <1>2 DEF Lookup, Insert, LookupAgain, Early
  <2> QED
    BY <2>1, QuietKeeps
<1>3. CASE CheckAvailability(c)
  <2>1. pc[c] = "offer" /\ UNCHANGED <<line, reserved, committed>> /\ lock' = lock
    BY <1>3 DEF CheckAvailability, AtCandidate
  <2>2. pc'[c] \in {"enough", "short", "hold", "offer"}
    BY <1>1, <1>3 DEF CheckAvailability, NextCandidate, Types
  <2> QED
    BY <2>1, <2>2, QuietKeeps DEF Open
<1>4. CASE Observe(c)
  <2>1. /\ pc[c] \in {"enough", "short"} /\ UNCHANGED <<line, reserved, committed>>
        /\ lock' = [lock EXCEPT ![Row(c)] = c]
    BY <1>4 DEF Observe
  <2>2. pc'[c] \in {"hold", "offer"}
    BY <1>1, <1>4 DEF Observe, NextCandidate, Types
  <2>3. Candidate(c) \notin Internal
    BY <2>1, CheckoutAssumption DEF CheckoutAssumption, AInv, CInv, Mine, Ahead, Internal
  <2> QED
    BY <2>1, <2>2, <2>3, QuietKeeps DEF Open
<1>5. CASE GiveUp(c) \/ EndUndo(c)
  <2>1. /\ pc[c] \in {"offer", "undo"} /\ UNCHANGED <<line, reserved, committed>>
        /\ lock' = lock
    BY <1>5 DEF GiveUp, EndUndo, Undoing
  <2>2. pc'[c] \in {"undo", "commit"}
    BY <1>1, <1>5 DEF GiveUp, EndUndo, Types
  <2> QED
    BY <2>1, <2>2, QuietKeeps DEF Open
<1> QED
  BY <1>2, <1>3, <1>4, <1>5

LEMMA HoldInternalAccounts ==
  ASSUME AInv, NEW c \in Calls, Keeps(c), HoldInternal(c)
  PROVE  RowTypes' /\ \A o \in Offers : Accounts(o)'
<1>1. Types /\ pc[c] = "offer" /\ committed' = committed
  BY DEF AInv, CInv, HoldInternal, AtCandidate
<1>2. CASE NextCandidate(c) /\ UNCHANGED <<item, line, reserved, lock>>
  <2>1. pc'[c] = "offer"
    BY <1>1, <1>2 DEF NextCandidate, Types
  <2> QED
    BY <1>1, <1>2, <2>1, QuietKeeps DEF Open
<1>3. CASE /\ Suffices(c) /\ RowFree(c, Row(c)) /\ Held(c)
           /\ reserved' = [reserved EXCEPT ![Row(c)] = @ + Quantity(c, item[c])]
           /\ lock' = [lock EXCEPT ![Row(c)] = c]
  BY <1>3, TakeKeeps
<1> QED
  BY <1>2, <1>3 DEF HoldInternal

\* What an external provider holds, or holds no more, is no account of the stock.
LEMMA ExternalAccounts ==
  ASSUME AInv, NEW c \in Calls, Keeps(c), HoldExternal(c) \/ ReleaseExternal(c)
  PROVE  RowTypes' /\ \A o \in Offers : Accounts(o)'
<1>1. Types /\ item[c] \in Items(c) /\ line[c] \in [Items(c) -> LineType]
  BY DEF AInv, CInv, Types
<1>2. CASE HoldExternal(c)
  <2>1. /\ pc[c] \in Choosing /\ pc[c] \in Open /\ Candidate(c) \in External
        /\ line[c][item[c]] = NoLine
    BY <1>2, AskedIsExternal, ChosenIsBlank DEF AInv, HoldExternal
  <2>2. UNCHANGED <<reserved, committed, lock>>
    BY <1>2 DEF HoldExternal
  <2>3. CASE Held(c)
    <3> DEFINE l == [provider |-> Candidate(c), status |-> "held"]
    <3>1. line' = [line EXCEPT ![c] = [line[c] EXCEPT ![item[c]] = l]]
      BY <2>3 DEF Held
    <3>2. pc'[c] \in Open
      BY <1>1, <2>3 DEF Held, NextItem, Types, Open
    <3>3. line[c][item[c]].provider \notin Internal /\ l.provider \notin Internal
      BY <2>1, CheckoutAssumption DEF CheckoutAssumption, NoLine, Internal
    <3> HIDE DEF l
    <3> QED
      BY <1>1, <2>1, <2>2, <3>1, <3>2, <3>3, OutsideKeeps
  <2>4. CASE NextCandidate(c) /\ line' = line
    <3>1. pc'[c] \in Open
      BY <1>1, <2>4 DEF NextCandidate, Types, Open
    <3> QED
      BY <2>1, <2>2, <2>4, <3>1, QuietKeeps
  <2> QED
    BY <1>2, <2>3, <2>4 DEF HoldExternal
<1>3. CASE ReleaseExternal(c)
  <2>1. /\ pc[c] = "undo" /\ line[c][item[c]].provider \in External
        /\ UNCHANGED <<reserved, committed, lock, pc>>
    BY <1>3 DEF ReleaseExternal, Undoing, Undone
  <2>2. PICK status : Undone(c, status)
    BY <1>3 DEF ReleaseExternal
  <2> DEFINE l == [line[c][item[c]] EXCEPT !.status = status]
  <2>3. line' = [line EXCEPT ![c] = [line[c] EXCEPT ![item[c]] = l]]
    BY <2>2 DEF Undone
  <2>4. l.provider = line[c][item[c]].provider
    BY <1>1 DEF LineType
  <2>5. line[c][item[c]].provider \notin Internal /\ l.provider \notin Internal
    BY <2>1, <2>4 DEF Internal
  <2> HIDE DEF l
  <2> QED
    BY <1>1, <2>1, <2>3, <2>5, OutsideKeeps DEF Open
<1> QED
  BY <1>2, <1>3

LEMMA StepAccounts ==
  ASSUME AInv, NEW c \in Calls, Step(c) \/ Fail(c)
  PROVE  RowTypes' /\ \A o \in Offers : Accounts(o)'
<1>1. CInv /\ Keeps(c)
  BY StepKeeps DEF AInv
<1>2. CASE \/ Lookup(c) \/ Insert(c) \/ LookupAgain(c)
           \/ CheckAvailability(c) \/ Observe(c) \/ GiveUp(c) \/ EndUndo(c)
  BY <1>1, <1>2, CallAccounts
<1>3. CASE HoldInternal(c)
  BY <1>1, <1>3, HoldInternalAccounts
<1>4. CASE HoldExternal(c) \/ ReleaseExternal(c)
  BY <1>1, <1>4, ExternalAccounts
<1>5. CASE ReleaseInternal(c)
  BY <1>1, <1>5, GiveBackKeeps
<1>6. CASE HoldUnknown(c) \/ Fail(c)
  <2>1. pc[c] \in Open /\ Rollback(c)
    BY <1>1, <1>6, AskedIsExternal, ChosenIsBlank DEF HoldUnknown, Fail
  <2> QED
    BY <1>1, <2>1, RollbackAccounts
<1>7. CASE Commit(c)
  BY <1>1, <1>7, CommitAccounts
<1> QED
  BY <1>2, <1>3, <1>4, <1>5, <1>6, <1>7 DEF Step, Abort

LEMMA InitAccounts == Init => AInv
<1> SUFFICES ASSUME Init PROVE AInv
  OBVIOUS
<1>1. CInv
  BY InitHolds
<1>2. RowTypes
  BY DEF Init, RowTypes
<1>3. ASSUME NEW c \in Calls PROVE Standing(c)
  BY DEF Init, Standing, Early, Choosing
<1>4. ASSUME NEW o \in Offers PROVE Accounts(o)
  <2>1. \A c \in Calls : \A i \in Items(c) : line[c][i].status = "none"
    BY DEF Init, NoLine
  <2>2. HeldAt(o) = {} /\ DoneAt(o) = {}
    <3>1. \A l \in HeldAt(o) : l[1] \in Calls /\ l[2] \in Items(l[1])
      BY HeldAtFacts, LineFacts
    <3>2. \A l \in HeldAt(o) : line[l[1]][l[2]].status = "held"
      BY DEF HeldAt
    <3> QED
      BY <2>1, <3>1, <3>2 DEF DoneAt
  <2>3. IsFiniteSet({}) /\ QuantityOf({}) = 0
    <3>1. IsFiniteSet({}) /\ {} \in SUBSET LineIds
      BY FS_EmptySet
    <3> QED
      BY <3>1, QuantityIsSum, SumEmpty
  <2>4. IsFiniteSet(HeldAt(o))
    BY <2>2, <2>3, Zenon
  <2>5. QuantityOf(HeldAt(o)) = 0 /\ QuantityOf(DoneAt(o)) = 0
    BY <2>2, <2>3, SameQuantity
  <2>6. Stock[o] \in Nat /\ lock[o] = NoCall /\ reserved[o] = 0 /\ committed[o] = 0
    BY CheckoutAssumption DEF CheckoutAssumption, Init
  <2> QED
    BY <2>2, <2>4, <2>5, <2>6 DEF Accounts
<1> QED
  BY <1>1, <1>2, <1>3, <1>4 DEF AInv

LEMMA NextAccounts == AInv /\ [Next]_vars => AInv'
<1> SUFFICES ASSUME AInv, [Next]_vars PROVE AInv'
  OBVIOUS
<1>1. CInv'
  BY NextKeeps DEF AInv
<1>2. ASSUME NEW c \in Calls, Step(c) \/ Fail(c) PROVE AInv'
  BY <1>1, <1>2, StepAccounts, StepStands DEF AInv
<1>3. CASE UNCHANGED vars
  <2>1. RowTypes'
    BY <1>3 DEF vars, AInv, RowTypes
  <2>2. \A c \in Calls : Standing(c)'
    BY <1>3 DEF vars, AInv, Standing, Route
  <2>3. ASSUME NEW o \in Offers PROVE Accounts(o)'
    <3>1. HeldAt(o)' = HeldAt(o) /\ DoneAt(o)' = DoneAt(o)
      BY <1>3 DEF vars, HeldAt, DoneAt
    <3>2. /\ QuantityOf(HeldAt(o)') = QuantityOf(HeldAt(o))
          /\ QuantityOf(DoneAt(o)') = QuantityOf(DoneAt(o))
      BY <3>1, SameQuantity
    <3>3. IsFiniteSet(HeldAt(o)) => IsFiniteSet(HeldAt(o)')
      BY <3>1, FS_Subset
    <3> QED
      BY <1>3, <3>1, <3>2, <3>3 DEF vars, AInv, Accounts
  <2> QED
    BY <1>1, <2>1, <2>2, <2>3 DEF AInv
<1> QED
  BY <1>2, <1>3 DEF Next

\* The inductive invariant of the accounts: CInv, the standing of every call, and that
\* every row is written by one transaction for the lines that hold it.
THEOREM AccountsInvariance == Spec => []AInv
<1>1. AInv /\ [Next]_vars => AInv'
  BY NextAccounts
<1> QED
  BY <1>1, InitAccounts, PTL DEF Spec

\* An internal offer is never reserved beyond its stock, and what is committed of it is
\* what the lines of the calls that are done hold: no order of waits, rollbacks, aborted
\* circles and compensations loses a unit or gives one away twice.
THEOREM StockStaysAccounted == Spec => []StockIsAccounted
<1>1. AInv => StockIsAccounted
  <2> SUFFICES ASSUME AInv, NEW o \in Offers, o[2] \in Internal
               PROVE  /\ reserved[o] <= Stock[o]
                      /\ committed[o] = QuantityOf({l \in HeldAt(o) : pc[l[1]] = "done"})
    BY DEF StockIsAccounted
  <2>1. Accounts(o)
    BY DEF AInv
  <2> QED
    BY <2>1 DEF Accounts, DoneAt
<1> QED
  BY <1>1, AccountsInvariance, PTL

\* The types, and that the reserved units of a row never fall below zero.
THEOREM TypesHold == Spec => []TypeOK
<1>1. AInv => TypeOK
  <2> SUFFICES ASSUME AInv PROVE TypeOK
    OBVIOUS
  <2>1. CInv /\ Types
    BY DEF AInv, CInv
  <2>2. pc \in [Calls -> Open \cup {"lookup", "insert", "raced", "done"}]
    BY <2>1 DEF Types, Early
  <2>3. ASSUME NEW c \in Calls
        PROVE  /\ item[c] \in Items(c)
               /\ cand[c] \in Nat \ {0}
               /\ pc[c] \in {"offer", "enough", "short", "hold"} => cand[c] <= Len(Route(c)) + 1
               /\ line[c] \in [Items(c) -> [provider : Providers \cup {NoProvider},
                                            status : {"none", "held", "released", "unknown"}]]
    BY <2>1 DEF AInv, Standing, Choosing, Types, LineType
  <2>4. reserved \in [Offers -> Nat] /\ committed \in [Offers -> Nat]
    <3>1. \A o \in Offers : reserved[o] \in Nat /\ committed[o] \in Nat
      BY AccountTypes DEF AInv
    <3> QED
      BY <3>1 DEF AInv, RowTypes
  <2>5. lock \in [Offers -> Calls \cup {NoCall}]
    BY DEF AInv, RowTypes
  <2>6. ASSUME NEW h \in remote
        PROVE  h[1] \in Calls /\ h[2] \in Items(h[1]) /\ h[3] \in External
    <3>1. h[1] \in Calls /\ h \in HoldsOf(h[1])
      BY <2>1 DEF Types, HoldsOf
    <3> QED
      BY <2>1, <3>1 DEF CInv, Mine, HoldsFit, Recorded
  <2> QED
    BY <2>1, <2>2, <2>3, <2>4, <2>5, <2>6 DEF TypeOK, Types
<1> QED
  BY <1>1, AccountsInvariance, PTL
=============================================================================
