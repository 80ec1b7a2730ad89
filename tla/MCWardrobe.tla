------------------------------- MODULE MCWardrobe -------------------------------
(* A small wardrobe: two rows of one coat and a scarf that looks like it.  *)
EXTENDS Wardrobe, TLC

CONSTANTS coat1, coat2, scarf, coat, shawl, mon, tue

MCGarments == {coat1, coat2, scarf}
MCArticles == {coat, shawl}
MCShows == [g \in MCGarments |-> IF g = scarf THEN shawl ELSE coat]
MCDays == {mon, tue}
MCWorn == {<<coat1, mon>>, <<coat2, mon>>, <<scarf, tue>>}
Symmetry == Permutations(Clients)
================================================================================
