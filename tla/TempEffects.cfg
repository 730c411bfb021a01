CONSTANTS
    Chars = {a}
    Spells = {"clumsy", "agility"}
    Bonus = 1
    Powers = {3}
    Limit = 2
    Durations = {3}
    Period = 1
    Wrap = 5
    MaxStep = 2
    MaxTime = 12
    MaxFx = 2
    Depth = 1
    UnequipOnReequip = TRUE
SPECIFICATION Spec
INVARIANTS TypeOK Balanced FrozenHasCause NeverLate
