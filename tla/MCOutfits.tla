------------------------------- MODULE MCOutfits --------------------------------
EXTENDS Outfits, TLC

CONSTANTS tee, shirt, jeans, jacket

MCGarments == {tee, shirt, jeans, jacket}
Casual == {tee, jeans}
Smart == {shirt, jeans}
Layered == {tee, jeans, jacket}
MCSets == {Casual, Smart, Layered}
MCHash == Casual :> 3 @@ Smart :> 2 @@ Layered :> 1

\* The user comes to like what the scorer put second; at first the two differ
\* by less than the column keeps.
MCScore ==
  0 :> (Layered :> 47 @@ Smart :> 42 @@ Casual :> 20)
  @@ 1 :> (Layered :> 15 @@ Smart :> 35 @@ Casual :> 12)
================================================================================
