---------------------------- MODULE MCOrderSystem ----------------------------
(***************************************************************************)
(* Small shops.  Listing 1 has one code and listing 2 two.  The carts are  *)
(* chosen so that two requests want the same last code, one of them wants  *)
(* both listings, and a client may publish the same request twice.         *)
(***************************************************************************)
EXTENDS OrderSystem

CONSTANTS b1, b2, r1, r2, r3

Cart(m, n) == [l \in Listings |-> IF l = 1 THEN m ELSE n]

MCListingOf == [c \in Codes |-> IF c = 1 THEN 1 ELSE 2]
MCPrice == [l \in Listings |-> l]
MCBalance == [b \in Buyers |-> 3]

Both == [request |-> r1, buyer |-> b1, items |-> Cart(1, 1)]
Last == [request |-> r2, buyer |-> b1, items |-> Cart(1, 0)]
Two  == [request |-> r2, buyer |-> b2, items |-> Cart(0, 2)]
One  == [request |-> r2, buyer |-> b2, items |-> Cart(0, 1)]
Last1 == [Last EXCEPT !.request = r1]
More == [request |-> r3, buyer |-> b1, items |-> Cart(0, 1)]

(* Two requests of one buyer for the only code of listing 1.               *)
Contended == {Both, Last}
(* Two buyers; stock for both requests, or for one of them twice.          *)
Crossed == {Both, One}
(* Listing 1 not for sale; Two needs all of what More takes a part of.     *)
Refused == {Last1, Two, More}
(* Two buyers whose clients chose the same key.                            *)
SameKey == {Last, Two}
(* One buyer who can afford Both alone, or Last and More.                  *)
Rich == {Both, Last, More}
=============================================================================
