------------------------------ MODULE MCCheckout ------------------------------
(* Small instances of Checkout. *)
EXTENDS Checkout, TLC

CONSTANTS c1, c2, c3, c4, first, second, book, lamp, own, shop, mall

Item(product, selected) == [product |-> product, selected |-> selected, quantity |-> 1]

\* c2 repeats c1 with its items in the other order, c3 asks for the same under
\* another key, c4 uses the key of c1 for something else.
FourCalls ==
  c1 :> <<Item(book, own), Item(lamp, shop)>> @@
  c2 :> <<Item(lamp, shop), Item(book, own)>> @@
  c3 :> <<Item(lamp, shop), Item(book, own)>> @@
  c4 :> <<Item(book, own)>>

KeyOfFour == c1 :> first @@ c2 :> first @@ c3 :> second @@ c4 :> first

\* The shop stands in for the internal stock of books, the mall for the shop.
Routes == <<book, own>> :> <<own, shop>> @@ <<lamp, shop>> :> <<shop, mall>>

OneOfEach ==
  <<book, own>> :> 1 @@ <<book, shop>> :> 1 @@ <<lamp, shop>> :> 1 @@ <<lamp, mall>> :> 1
=============================================================================
