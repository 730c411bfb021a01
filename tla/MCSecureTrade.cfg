\* Two players, two items, two trades at once; nobody lifts what is on a cursor.
CONSTANTS
    Players = {p1, p2}
    Items = {x1, x2}
    Windows = {w1, w2, w3, w4}
    World = World
    Corpse = Corpse
    Gone = Gone
    NoItem = NoItem
    NoWindow = NoWindow
    Races = FALSE
SPECIFICATION Spec
SYMMETRY Symmetry
INVARIANTS PairedWindows DeadDoNotTrade
PROPERTIES OwnerAgreed
