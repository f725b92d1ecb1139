--------------------------- MODULE MCReservations ---------------------------
EXTENDS Reservations, TLC

CONSTANTS n1, n2, r1, r2, b1, d1, d2

\* r1 asks for one dimension, r2 for both; the tight limit holds one of them, the wide one two.
Small     == d1 :> 1 @@ d2 :> 0
Both      == d1 :> 1 @@ d2 :> 1
MCAmounts == {Small, Both}
MCLimits  == {Both, d1 :> 3 @@ d2 :> 2}
Symmetry  == Permutations(Nonces)
MCAsk     == r1 :> Small @@ r2 :> Both
=============================================================================
