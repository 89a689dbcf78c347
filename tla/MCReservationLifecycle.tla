---------------------- MODULE MCReservationLifecycle ----------------------
(* Small instances of ReservationLifecycle. *)
EXTENDS ReservationLifecycle, TLC

CONSTANTS r1, r2, r3, book, lamp, rug, own, market

Line(quantity, route) == [quantity |-> quantity, route |-> route]

\* Two reservations over one internal and one external provider: r1 takes two
\* lines from both, r2 prefers the internal stock and falls back on the other.
TwoLines ==
  r1 :> (book :> Line(1, <<own>>) @@ lamp :> Line(1, <<market>>)) @@
  r2 :> (book :> Line(2, <<own, market>>))

\* A reservation of one internal line, and one that prefers the same stock.
OneBook ==
  r1 :> (book :> Line(1, <<own>>)) @@
  r2 :> (book :> Line(2, <<own, market>>))

\* A reservation with two external holds, whose outcomes can mix, and another
\* with a claim on the stock of its internal line.
TwoHolds ==
  r1 :> (book :> Line(1, <<own>>) @@ lamp :> Line(1, <<market>>)
                                  @@ rug :> Line(1, <<market>>)) @@
  r2 :> (book :> Line(2, <<own>>))

\* Three reservations that compete for the same internal stock; r1 also needs a
\* line of the external provider and r2 may fall back on it.
ThreeClaims ==
  r1 :> (book :> Line(1, <<own>>) @@ lamp :> Line(1, <<market>>)) @@
  r2 :> (book :> Line(2, <<own, market>>)) @@
  r3 :> (book :> Line(1, <<own>>))

\* Three books, so that four claims compete and a level of two lowers the stock.
Stock == [o \in Offers |-> IF o[1] = book THEN 3 ELSE 2]
=============================================================================
