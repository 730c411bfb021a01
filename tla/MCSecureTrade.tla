--------------------------- MODULE MCSecureTrade ---------------------------
EXTENDS SecureTrade, TLC

Symmetry == Permutations(Players) \cup Permutations(Items) \cup Permutations(Windows)

\* `seen' only records: no action depends on it, and of the properties of the
\* run that uses this view none does.
Unrecorded == <<items, win, dead, clients>>
=============================================================================
