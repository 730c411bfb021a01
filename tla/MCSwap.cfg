\* Two players, two items, one trade at a time; items are lifted by both.
CONSTANTS
    Players = {p1, p2}
    Items = {x1, x2}
    Windows = {w1, w2}
    World = World
    Corpse = Corpse
    Gone = Gone
    NoItem = NoItem
    NoWindow = NoWindow
    Races = TRUE
SPECIFICATION Spec
SYMMETRY Symmetry
VIEW Unrecorded
INVARIANTS TypeOK BounceSafe
PROPERTIES ImplementsAtomicSwap
