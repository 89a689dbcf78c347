----------------------------- MODULE MCStockRows -----------------------------
(***************************************************************************)
(* Two offers of stock kept here and an observed one; reservations whose   *)
(* lines are in opposite orders.                                           *)
(***************************************************************************)
EXTENDS StockRows

CONSTANTS a, b, x, r1, r2, w1, w2, o1, o2

MCLine(o, n) == [offer |-> o, quantity |-> n]

MCLinesOf == (r1 :> <<MCLine(a, 1), MCLine(b, 1)>>) @@ (r2 :> <<MCLine(b, 1), MCLine(x, 1), MCLine(a, 1)>>)

MCSet(o, n) == [way |-> "set", offer |-> o, level |-> n]
MCRemove(o) == [way |-> "remove", offer |-> o]

MCRequestsOf ==
  (o1 :> {MCSet(b, 0), MCSet(a, 1), MCSet(x, 0)}) @@ (o2 :> {MCRemove(a), MCRemove(b), MCRemove(x)})

MCStock0 == (a :> 2) @@ (b :> 1) @@ (x :> 1)
=============================================================================
