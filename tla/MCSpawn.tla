------------------------------ MODULE MCSpawn ------------------------------
EXTENDS Spawn, TLC

CONSTANTS r1, a1, a2

AreaRegions == (a1 :> r1) @@ (a2 :> r1)
Maxima == (r1 :> 2)
Symmetry == Permutations(Objects)
=============================================================================
