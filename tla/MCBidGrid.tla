------------------------------ MODULE MCBidGrid ------------------------------
(***************************************************************************)
(* A small instance of BidGrid for TLC: a plain unit, a unit "1.1" and a   *)
(* unit "1.10", which reads as 1.1; two roles, two items, and grids between*)
(* which units, roles, items and names come and go.                        *)
(***************************************************************************)
EXTENDS BidGrid, TLC

CONSTANTS u1, u2, u3, s1, s2, p1, p2, r1, r2, none, item1, item2

MCReadAs == u1 :> u1 @@ u2 :> u2 @@ u3 :> u2
MCSubPhaseOf == u1 :> s1 @@ u2 :> s2 @@ u3 :> s2
MCPhaseOf == s1 :> p1 @@ s2 :> p2
MCCategoryOf == 1 :> item1 @@ 2 :> item2

Unit(u, fields, rows) == u :> [basis |-> fields, named |-> u, rows |-> rows]
RowBid(bid, form) == [bid |-> bid, form |-> form]

\* Two units, one of them without roles.
start == Unit(u1, 1, r1 :> RowBid(1, "full")) @@ Unit(u2, 1, none :> RowBid(1, "full"))
\* A unit left, the other one gained a role and got another item.
narrow == Unit(u1, 2, r1 :> RowBid(2, "full") @@ r2 :> RowBid(1, "bare"))
\* Roles went from one unit to the other.
swapped == Unit(u1, 1, none :> RowBid(2, "odd")) @@ Unit(u2, 1, r1 :> RowBid(1, "full"))
\* 1.1 and 1.10 have one name, and 1.1 comes first.
twins == Unit(u1, 1, none :> RowBid(1, "bare")) @@ Unit(u2, 1, r1 :> RowBid(1, "full"))
         @@ u3 :> [basis |-> 2, named |-> u2, rows |-> r1 :> RowBid(2, "full")]
\* 1.10 by itself, with the fields that 1.1 has.
renumbered == Unit(u3, 1, r1 :> RowBid(1, "full"))

MCGrids == {start, narrow, swapped, twins, renumbered}
=============================================================================
