---------------------------- MODULE TempEffects ----------------------------
(***************************************************************************)
(* Temporary effects (src/tmpeff.cpp and the tempfx part of                *)
(* src/objects/cobject.cpp) with everything that reads or writes the same  *)
(* attribute: worn items, the statistics check, advancement, the world     *)
(* save and a restart, and the 32-bit millisecond clock they time out by.  *)
(*                                                                         *)
(* One attribute stands for the three; it is dexterity (dx, and dx3, its   *)
(* value without effects and items), whose code the other two repeat.      *)
(* A character owns one item with a bonus (dx2 of the item).               *)
(*                                                                         *)
(* All paths below are under src/branches/noxwizard/src.                   *)
(***************************************************************************)
EXTENDS Integers, FiniteSets

CONSTANTS
    Chars,
    Spells,      \* the effects on the attribute that are cast, of Kinds
    Bonus,       \* what the item adds to the attribute
    Powers,      \* the strengths an effect is asked for
    Limit,       \* the most an attribute may advance to
    Durations,   \* for how long effects are asked for
    Period,      \* 500 ms, the time between two looks at the effects
    Wrap,        \* 2^32, where the clock starts again
    MaxStep,     \* the longest turn of the main loop
    MaxTime,     \* bound: when the model's time stops
    MaxFx,       \* bound: the most effects listed at once
    Depth,       \* bound: how far below 0 a hex may meet the attribute
    UnequipOnReequip  \* a server option

Hexes == {"clumsy", "curse"}
Boons == {"agility", "bless"}
Kinds == Hexes \cup Boons
Places == {"worn", "taken", "lifted", "pack"}
None == [more |-> 0, expire |-> 0, due |-> -1]

ASSUME SpellsAssumption == Spells \subseteq Kinds
ASSUME NumbersAssumption ==
    /\ Bonus \in Nat /\ Powers \subseteq Nat /\ Limit \in Nat
    /\ Durations \subseteq Nat /\ Period \in Nat
    /\ Wrap \in Nat \ {0} /\ MaxStep \in Nat /\ MaxTime \in Nat /\ MaxFx \in Nat /\ Depth \in Nat
\* From one turn to the next, with a save between, the clock runs no full circle.
ASSUME CircleAssumption == 2 * MaxStep < Wrap
ASSUME OptionAssumption == UnequipOnReequip \in BOOLEAN

VARIABLES
    dx, base,     \* the attribute and its value without effects and items
    item,         \* where the character's item is: "worn", "taken" (off the body,
                  \* and dragged), "lifted" (from elsewhere, and dragged) or "pack"
                  \* (anywhere it is neither worn nor dragged, or nowhere)
    frozen,       \* flagPriv2Frozen
    fx,           \* the effects on the attribute listed for the character
    para,         \* the SPELL_PARALYZE effects listed for it
    drift,        \* (history) characters something left the books of wrong
    time,         \* real time since the server started, as it read it last
    lclock, overflow, checktempfx,
    saved,        \* bound: the world is saved once a turn at most
    disk          \* what the last world save kept

stats == <<dx, base, item, drift>>
timers == <<time, lclock, overflow, checktempfx, saved>>
vars == <<stats, frozen, fx, para, timers, disk>>

\* (Altered on purpose, a mutant: the sum is not cut to 32 bits.)
ClockBug(t) == t

\* uiCurrentTime: getclock() counts the milliseconds since the start in 32 bits.
Clock(t) == t % Wrap

Timeout(x, now, over) == x <= now \/ over

Lesser(a, b) == IF a < b THEN a ELSE b

\* What the listed effects and the worn item have added to the attribute.
Effects(f) == f["agility"].more + f["bless"].more - f["clumsy"].more - f["curse"].more
Worn(c) == IF item[c] = "worn" THEN Bonus ELSE 0

Listed(c) == {k \in Kinds : fx[c][k] # None}
Room == Cardinality(UNION {{c} \X Listed(c) : c \in Chars})
        + Cardinality(UNION {{c} \X para[c] : c \in Chars}) < MaxFx

-----------------------------------------------------------------------------
(* Effects.                                                                *)

\* (Altered on purpose, a mutant: a hex remembers what it was asked for.)
CastBug(c, k, m, d) ==
    /\ fx[c][k] = None /\ Room /\ dx[c] >= -Depth
    /\ LET took == IF k \in Hexes THEN Lesser(m, dx[c]) ELSE m IN
       /\ dx' = [dx EXCEPT ![c] = IF k \in Hexes THEN @ - took ELSE @ + took]
       /\ fx' = [fx EXCEPT ![c][k] =
                   [more |-> m, expire |-> Clock(time + d), due |-> time + d]]
    /\ UNCHANGED <<base, item, drift, frozen, para, timers, disk>>

\* addTempfx() of an effect that may be listed once: start() takes from the
\* attribute no more than there is, and remembers what it took.  (Where that
\* is less than nothing the hex adds, and takes when it ends: an attribute can
\* run away by repeating this, hence the bound.)
Cast(c, k, m, d) ==
    /\ fx[c][k] = None /\ Room /\ dx[c] >= -Depth
    /\ LET took == IF k \in Hexes THEN Lesser(m, dx[c]) ELSE m IN
       /\ dx' = [dx EXCEPT ![c] = IF k \in Hexes THEN @ - took ELSE @ + took]
       /\ fx' = [fx EXCEPT ![c][k] =
                   [more |-> took, expire |-> Clock(time + d), due |-> time + d]]
    /\ UNCHANGED <<base, item, drift, frozen, para, timers, disk>>

\* addTempfx() of SPELL_PARALYZE, which may be listed any number of times.  A
\* character that resists is not frozen, and the effect is listed all the same.
Paralyze(c, resists, d) ==
    /\ Room
    /\ frozen' = [frozen EXCEPT ![c] = @ \/ ~resists]
    /\ para' = [para EXCEPT ![c] = @ \cup {[expire |-> Clock(time + d), due |-> time + d]}]
    /\ UNCHANGED <<stats, fx, timers, disk>>

\* checkEquipement(), at the end of every expire code: whoever is too weak for
\* what it wears loses it to the ground, and its bonus with it.
Dropped(c, weak) == IF c \in weak THEN Worn(c) ELSE 0
Keeps(c, weak) == IF c \in weak /\ item[c] = "worn" THEN "pack" ELSE item[c]

\* delTempfx() with the expire code, of every effect on the attribute.
Dispel(c, weak) ==
    /\ Listed(c) # {}
    /\ weak \subseteq {c}
    /\ dx' = [dx EXCEPT ![c] = @ - Effects(fx[c]) - Dropped(c, weak)]
    /\ fx' = [fx EXCEPT ![c] = [k \in Kinds |-> None]]
    /\ item' = [item EXCEPT ![c] = Keeps(c, weak)]
    /\ UNCHANGED <<base, drift, frozen, para, timers, disk>>

\* (Altered on purpose, a mutant: the effects are left in the list.)
UnfreezeBug(c) ==
    /\ frozen[c] \/ para[c] # {}
    /\ para' = [para EXCEPT ![c] = {}]
    /\ UNCHANGED <<stats, frozen, fx, timers, disk>>

\* unfreeze(), by damage or poison: the effects go without their expire code.
Unfreeze(c) ==
    /\ frozen[c] \/ para[c] # {}
    /\ para' = [para EXCEPT ![c] = {}]
    /\ frozen' = [frozen EXCEPT ![c] = FALSE]
    /\ UNCHANGED <<stats, fx, timers, disk>>

-----------------------------------------------------------------------------
(* A turn of the main loop: checktimers(), the clock, checkauto().         *)

\* The next look at the effects: a conversion from floating point, which is
\* undefined when the sum does not fit (it wraps, is 0, or is the largest).
NextChecks(now) ==
    IF now + Period < Wrap THEN {now + Period}
    ELSE {(now + Period) % Wrap, 0, Wrap - 1}

\* (Altered on purpose, a mutant: no test for a clock that started again.)
OverflowedBug(last, now) == FALSE
Overflowed(last, now) == last > now

\* checkTempfx() of every character: what is due is undone and taken out.
ExpireAll(now, over, weak) ==
    LET out(c) == {k \in Listed(c) : Timeout(fx[c][k].expire, now, over)}
        left(c) == [k \in Kinds |-> IF k \in out(c) THEN None ELSE fx[c][k]]
        freed(c) == {p \in para[c] : Timeout(p.expire, now, over)}
    IN /\ \A c \in weak : out(c) # {} \/ freed(c) # {}
       /\ fx' = [c \in Chars |-> left(c)]
       /\ dx' = [c \in Chars |-> dx[c] - Effects(fx[c]) + Effects(left(c)) - Dropped(c, weak)]
       /\ item' = [c \in Chars |-> Keeps(c, weak)]
       /\ para' = [c \in Chars |-> para[c] \ freed(c)]
       /\ frozen' = [c \in Chars |-> frozen[c] /\ freed(c) = {}]
       /\ UNCHANGED <<base, drift>>

\* checktimers() compares the clock of this turn with the one of the turn
\* before, and only then is the clock read again.
Turn(d, weak) ==
    /\ time + d <= MaxTime
    /\ overflow' = Overflowed(lclock, Clock(time))
    /\ lclock' = Clock(time)
    /\ time' = time + d /\ saved' = FALSE
    /\ IF Timeout(checktempfx, Clock(time'), overflow')
       THEN /\ ExpireAll(Clock(time'), overflow', weak)
            /\ checktempfx' \in NextChecks(Clock(time'))
       ELSE UNCHANGED <<stats, frozen, fx, para, checktempfx>>
    /\ UNCHANGED disk

-----------------------------------------------------------------------------
(* Turning every effect off and on: tempeffectsoff(), tempeffectson().     *)

\* The flag is cleared and set again for as long as an effect is listed,
\* also for one who resisted it or whom an earlier effect has freed.
Off(c) == frozen[c] /\ para[c] = {}
On(c) == Off(c) \/ para[c] # {}

\* checkSafeStats(): effects and bonuses off, the attribute set to its base,
\* bonuses and effects on.  Those of everybody are switched.
SafeStats(c) ==
    /\ dx' = [dx EXCEPT ![c] = base[c] + Worn(c) + Effects(fx[c])]
    /\ drift' = drift \ {c}
    /\ frozen' = [x \in Chars |-> On(x)]

CheckSafeStats(c) ==
    /\ SafeStats(c)
    /\ UNCHANGED <<base, item, fx, para, timers, disk>>

\* saveNewWorld(): effects off, SaveChar() sets the attribute to its base and
\* writes it, effects on; the bonus of a worn item is lost on the way.  The
\* clock is read again at the end.
Save(d) ==
    /\ time + d <= MaxTime /\ ~saved
    /\ dx' = [c \in Chars |-> base[c] + Effects(fx[c])]
    /\ drift' = {c \in Chars : item[c] = "worn"}
    /\ disk' = [c \in Chars |-> [base |-> base[c], worn |-> item[c] = "worn", frozen |-> Off(c)]]
    /\ frozen' = [c \in Chars |-> On(c)]
    /\ time' = time + d /\ saved' = TRUE
    /\ UNCHANGED <<base, item, fx, para, lclock, overflow, checktempfx>>

\* The file cannot be opened: effects off and on, and nothing else.
SaveFails ==
    /\ frozen' = [c \in Chars |-> On(c)]
    /\ frozen' # frozen
    /\ UNCHANGED <<stats, fx, para, timers, disk>>

\* The server ends at any moment and starts from its last save.  Effects are
\* not saved; the attribute is read without the bonus of what is worn.
Restart ==
    /\ base' = [c \in Chars |-> disk[c].base]
    /\ dx' = base'
    /\ item' = [c \in Chars |-> IF disk[c].worn THEN "worn" ELSE "pack"]
    /\ drift' = {c \in Chars : disk[c].worn}
    /\ frozen' = [c \in Chars |-> disk[c].frozen]
    /\ fx' = [c \in Chars |-> [k \in Kinds |-> None]]
    /\ para' = [c \in Chars |-> {}]
    /\ time' = 0 /\ lclock' = 0 /\ overflow' = FALSE /\ checktempfx' = 0 /\ saved' = FALSE
    /\ UNCHANGED disk

-----------------------------------------------------------------------------
(* Worn items and advancement.                                             *)

\* Equip() by a double click: the bonus is added first; where the layer is
\* taken the item stays in the pack, and the bonus stays.  (Bound, here, in
\* WearItem and in Advance: a character's books are left wrong once, not twice in a row.)
UseItem(c, taken) ==
    /\ item[c] = "pack"
    /\ \/ /\ taken
          /\ c \notin drift
          /\ dx' = [dx EXCEPT ![c] = @ + Bonus]
          /\ drift' = drift \cup {c}
          /\ UNCHANGED <<item, frozen>>
       \/ /\ ~taken
          /\ item' = [item EXCEPT ![c] = "worn"]
          /\ dx' = [dx EXCEPT ![c] = base[c] + Bonus + Effects(fx[c])]
          /\ drift' = drift \ {c}
          /\ frozen' = [x \in Chars |-> On(x)]
    /\ UNCHANGED <<base, fx, para, timers, disk>>

\* wear_item(): Equip() with drag, which only adds the bonus; with the option
\* to take off what is in the way it is called a second time.
WearItem(c) ==
    /\ item[c] \in {"taken", "lifted"} /\ c \notin drift
    /\ item' = [item EXCEPT ![c] = "worn"]
    /\ dx' = [dx EXCEPT ![c] = @ + (IF UnequipOnReequip THEN 2 * Bonus ELSE Bonus)]
    /\ drift' = IF UnequipOnReequip THEN drift \cup {c} ELSE drift
    /\ UNCHANGED <<base, frozen, fx, para, timers, disk>>

\* get_item() of the item in the pack, or of the one that is worn: the bonus is
\* taken off before it is asked whether the item may be moved at all.
LiftItem(c) ==
    /\ \/ /\ item[c] = "pack"
          /\ item' = [item EXCEPT ![c] = "lifted"]
          /\ UNCHANGED <<dx, drift, frozen>>
       \/ /\ item[c] = "worn"
          /\ dx' = [dx EXCEPT ![c] = base[c] + Effects(fx[c])]
          /\ \/ item' = [item EXCEPT ![c] = "taken"] /\ drift' = drift \ {c}
             \/ drift' = drift \cup {c} /\ UNCHANGED item
          /\ frozen' = [x \in Chars |-> On(x)]
    /\ UNCHANGED <<base, fx, para, timers, disk>>

\* The item is dropped where it is not worn: pack_item(), dump_item().
PackItem(c) ==
    /\ item[c] \in {"taken", "lifted"}
    /\ item' = [item EXCEPT ![c] = "pack"]
    /\ UNCHANGED <<dx, base, drift, frozen, fx, para, timers, disk>>

\* A drop is refused: item_bounce3() and its copies put the item back where it
\* was.  What was worn is worn again, without its bonus: item_bounce3() looks
\* for the wearer in the old container after it has made it the container, and
\* setContSerial() has forgotten the old one by then.
BounceItem(c) ==
    /\ \/ /\ item[c] = "lifted"
          /\ item' = [item EXCEPT ![c] = "pack"] /\ UNCHANGED drift
       \/ /\ item[c] = "taken"
          /\ item' = [item EXCEPT ![c] = "worn"] /\ drift' = drift \cup {c}
    /\ UNCHANGED <<dx, base, frozen, fx, para, timers, disk>>

\* A blow that wears armour out, or death, takes a worn item: the bonus is
\* taken off, nothing is checked.
LoseItem(c) ==
    /\ item[c] = "worn"
    /\ item' = [item EXCEPT ![c] = "pack"]
    /\ dx' = [dx EXCEPT ![c] = @ - Bonus]
    /\ UNCHANGED <<base, drift, frozen, fx, para, timers, disk>>

\* A weapon or a shield that is worn out is deleted, a weapon struck from the
\* hand falls to the ground: the bonus stays.
LoseWeapon(c) ==
    /\ item[c] = "worn"
    /\ item' = [item EXCEPT ![c] = "pack"]
    /\ drift' = drift \cup {c}
    /\ UNCHANGED <<dx, base, frozen, fx, para, timers, disk>>

\* AdvanceOneStat(): both values go up; above the limit both are set to it,
\* whatever effects and items are at work.
Advance(c) ==
    /\ IF base[c] + 1 > Limit
       THEN /\ c \notin drift
            /\ base' = [base EXCEPT ![c] = Limit]
            /\ dx' = [dx EXCEPT ![c] = Limit]
            /\ drift' = drift \cup {c}
       ELSE /\ base' = [base EXCEPT ![c] = @ + 1]
            /\ dx' = [dx EXCEPT ![c] = @ + 1]
            /\ UNCHANGED drift
    /\ UNCHANGED <<item, frozen, fx, para, timers, disk>>

\* AdvanceStats() takes a point off another attribute.  Bound: not the last.
Decline(c) ==
    /\ base[c] > 1
    /\ base' = [base EXCEPT ![c] = @ - 1]
    /\ dx' = [dx EXCEPT ![c] = @ - 1]
    /\ UNCHANGED <<item, drift, frozen, fx, para, timers, disk>>

-----------------------------------------------------------------------------
Init ==
    /\ base \in [Chars -> {Limit}]
    /\ dx = base
    /\ item = [c \in Chars |-> "pack"]
    /\ drift = {}
    /\ frozen = [c \in Chars |-> FALSE]
    /\ fx = [c \in Chars |-> [k \in Kinds |-> None]]
    /\ para = [c \in Chars |-> {}]
    /\ time = 0 /\ lclock = 0 /\ overflow = FALSE /\ checktempfx = 0 /\ saved = FALSE
    /\ disk = [c \in Chars |-> [base |-> Limit, worn |-> FALSE, frozen |-> FALSE]]

Next ==
    \/ \E c \in Chars, d \in Durations :
         \/ \E k \in Spells, m \in Powers : Cast(c, k, m, d)
         \/ \E resists \in BOOLEAN : Paralyze(c, resists, d)
    \/ \E weak \in SUBSET Chars :
         \/ \E c \in Chars : Dispel(c, weak)
         \/ \E d \in 1 .. MaxStep : Turn(d, weak)
    \/ \E c \in Chars :
         \/ Unfreeze(c) \/ CheckSafeStats(c)
         \/ \E taken \in BOOLEAN : UseItem(c, taken)
         \/ WearItem(c) \/ LiftItem(c) \/ PackItem(c)
         \/ BounceItem(c) \/ LoseItem(c) \/ LoseWeapon(c)
         \/ Advance(c) \/ Decline(c)
    \/ \E d \in 1 .. MaxStep : Save(d)
    \/ SaveFails \/ Restart

Spec == Init /\ [][Next]_vars

-----------------------------------------------------------------------------
Fx == [more : Int, expire : 0 .. Wrap - 1, due : Int]

\* Type correctness.
TypeOK ==
    /\ dx \in [Chars -> Int] /\ base \in [Chars -> Int]
    /\ item \in [Chars -> Places]
    /\ drift \subseteq Chars
    /\ frozen \in [Chars -> BOOLEAN]
    /\ fx \in [Chars -> [Kinds -> Fx]]
    /\ para \in [Chars -> SUBSET [expire : 0 .. Wrap - 1, due : Int]]
    /\ time \in Nat /\ overflow \in BOOLEAN /\ saved \in BOOLEAN
    /\ lclock \in 0 .. Wrap - 1 /\ checktempfx \in 0 .. Wrap - 1
    /\ disk \in [Chars -> [base : Int, worn : BOOLEAN, frozen : BOOLEAN]]

\* The books balance: unless one of the seven actions known not to keep them
\* came last (a save or a restart with an item worn, an item put on twice or
\* not at all, a worn item whose lifting or whose drop is refused, a weapon or
\* shield lost in a fight, the limit of advancement), an attribute is its base,
\* the bonus of what is worn and what the listed effects took or gave, so that
\* every effect is undone once and by exactly what it did, and checkSafeStats()
\* puts right what the others left (src/tmpeff.cpp, src/objects/cchar.cpp
\* checkSafeStats; the exceptions: src/worldmain.cpp, Equip() of src/objects/
\* cchar.cpp, src/dragdrop.cpp, src/objects/cchar/combat.cpp, src/skills/skills.cpp).
Balanced ==
    \A c \in Chars \ drift : dx[c] = base[c] + Worn(c) + Effects(fx[c])

\* Nobody is frozen without an effect that will end it, after a save, a
\* restart, damage, an expiry or any order of these: only the end of a listed
\* SPELL_PARALYZE takes the flag away (src/tmpeff.cpp executeExpireCode).
FrozenHasCause == \A c \in Chars : frozen[c] => para[c] # {}

\* What was written to disk has nobody frozen: a restart loses the effects.
SavedSober == \A c \in Chars : ~disk[c].frozen

\* No effect stays listed for longer than it was asked for and the time to
\* the next look, across the end of the clock's range as well: the turn that
\* should have looked, the turn before which the clock started again, which
\* does not see that yet, and a save after it (src/timing.cpp checktimers and
\* checkauto, TIMEOUT in includes/inlines.h).
Slack == Period + 3 * MaxStep
NeverLate ==
    \A c \in Chars :
        /\ \A k \in Listed(c) : time <= fx[c][k].due + Slack
        /\ \A p \in para[c] : time <= p.due + Slack
=============================================================================
