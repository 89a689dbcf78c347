------------------------------ MODULE CreateOnce ------------------------------
(***************************************************************************)
(* What create promises of an idempotency key: the first call that comes   *)
(* through decides for good whether there is a reservation under the key,  *)
(* and every answer, however many calls race, is that decision.            *)
(***************************************************************************)
CONSTANTS
  Calls,    \* create calls, each with a reservation id of its own
  NoCall,
  KeyOf,    \* the user and idempotency key of each call
  PrintOf   \* the fingerprint of its items

Keys == {KeyOf[c] : c \in Calls}

VARIABLES
  decided,  \* per key, the call whose reservation is stored, and whether it holds stock
  answer    \* what each call was told, and of which call's reservation

Decisions == [by : Calls \cup {NoCall}, held : BOOLEAN]
Answers == [kind : {"none", "error", "conflict", "refused", "reservation"},
            of : Calls \cup {NoCall}]

Init ==
  /\ decided = [k \in Keys |-> [by |-> NoCall, held |-> FALSE]]
  /\ answer = [c \in Calls |-> [kind |-> "none", of |-> NoCall]]

\* What the decision d says to the call c.
Resolved(c, d) ==
  CASE PrintOf[c] # PrintOf[d.by] -> [kind |-> "conflict", of |-> d.by]
    [] PrintOf[c] = PrintOf[d.by] /\ ~d.held -> [kind |-> "refused", of |-> NoCall]
    [] OTHER -> [kind |-> "reservation", of |-> d.by]

Decide(c, held) ==
  /\ decided[KeyOf[c]].by = NoCall
  /\ answer[c].kind = "none"
  /\ decided' = [decided EXCEPT ![KeyOf[c]] = [by |-> c, held |-> held]]
  /\ answer' = [answer EXCEPT ![c] = Resolved(c, [by |-> c, held |-> held])]

Repeat(c) ==
  /\ decided[KeyOf[c]].by # NoCall
  /\ answer[c].kind = "none"
  /\ answer' = [answer EXCEPT ![c] = Resolved(c, decided[KeyOf[c]])]
  /\ UNCHANGED decided

\* A call may fail without a decision, and be made again as another call.
Err(c) ==
  /\ answer[c].kind = "none"
  /\ answer' = [answer EXCEPT ![c] = [kind |-> "error", of |-> NoCall]]
  /\ UNCHANGED decided

Next == \E c \in Calls : Decide(c, TRUE) \/ Decide(c, FALSE) \/ Repeat(c) \/ Err(c)

Spec == Init /\ [][Next]_<<decided, answer>>
=============================================================================
