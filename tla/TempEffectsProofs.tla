------------------------- MODULE TempEffectsProofs -------------------------
(***************************************************************************)
(* Every effect is undone by what it did and in time, and nobody stays     *)
(* frozen, for any number of characters and any strengths, durations and   *)
(* clock (the second part of the module is about time).  What the          *)
(* inductive invariant adds to the properties is what a restart brings     *)
(* back: a saved character is never frozen (SavedSober), which a save      *)
(* takes from FrozenHasCause, and a restart gives back to it.              *)
(***************************************************************************)
EXTENDS TempEffects, TLAPS

Inv == TypeOK /\ Balanced /\ FrozenHasCause /\ SavedSober

-----------------------------------------------------------------------------
\* The clock stays in its range.
LEMMA ClockRange == \A t \in Nat : Clock(t) \in 0 .. Wrap - 1
BY NumbersAssumption, Z3 DEF Clock

\* So does the time of the next look.
LEMMA NextChecksRange ==
    ASSUME NEW now \in 0 .. Wrap - 1, NEW n \in NextChecks(now)
    PROVE  n \in 0 .. Wrap - 1
<1>1. now + Period \in Nat
  BY NumbersAssumption
<1>2. (now + Period) % Wrap \in 0 .. Wrap - 1
  BY <1>1, ClockRange DEF Clock
<1> QED
  BY <1>1, <1>2, NumbersAssumption DEF NextChecks

\* What effects add up to is a number, and nothing for an empty list.
LEMMA EffectsTyped ==
    ASSUME NEW f \in [Kinds -> Fx]
    PROVE  Effects(f) \in Int
BY DEF Effects, Kinds, Hexes, Boons, Fx

\* Nobody is stronger or weaker by an empty list.
LEMMA NoEffects == Effects([k \in Kinds |-> None]) = 0
BY DEF Effects, Kinds, Hexes, Boons, None

\* A free place in the list is typed.
LEMMA NoneTyped == None \in Fx
BY NumbersAssumption DEF None, Fx

\* One more effect in the list adds what it remembers.
LEMMA EffectsOfOneMore ==
    ASSUME NEW f \in [Kinds -> Fx], NEW k \in Kinds, f[k] = None, NEW e \in Fx
    PROVE  Effects([f EXCEPT ![k] = e]) =
              IF k \in Hexes THEN Effects(f) - e.more ELSE Effects(f) + e.more
<1> DEFINE g == [f EXCEPT ![k] = e]
<1>1. /\ f["agility"].more \in Int /\ f["bless"].more \in Int
      /\ f["clumsy"].more \in Int /\ f["curse"].more \in Int /\ e.more \in Int
  BY DEF Kinds, Hexes, Boons, Fx
<1>2. f[k].more = 0
  BY DEF None
<1>3. \A x \in Kinds : g[x].more = IF x = k THEN e.more ELSE f[x].more
  OBVIOUS
<1>4. CASE k = "agility"
  BY <1>1, <1>2, <1>3, <1>4 DEF Effects, Kinds, Hexes, Boons
<1>5. CASE k = "bless"
  BY <1>1, <1>2, <1>3, <1>5 DEF Effects, Kinds, Hexes, Boons
<1>6. CASE k = "clumsy"
  BY <1>1, <1>2, <1>3, <1>6 DEF Effects, Kinds, Hexes, Boons
<1>7. CASE k = "curse"
  BY <1>1, <1>2, <1>3, <1>7 DEF Effects, Kinds, Hexes, Boons
<1> QED
  BY <1>4, <1>5, <1>6, <1>7 DEF Kinds, Hexes, Boons

-----------------------------------------------------------------------------
\* A step that leaves the attribute and the effects alone.
LEMMA SameBooks ==
    ASSUME Balanced, UNCHANGED <<dx, base, item, fx>>, drift \subseteq drift'
    PROVE  Balanced'
BY DEF Balanced, Worn

\* Turning effects off and on freezes whom an effect holds, and nobody else.
LEMMA OnHasCause ==
    ASSUME FrozenHasCause, UNCHANGED para, frozen' = [c \in Chars |-> On(c)]
    PROVE  FrozenHasCause'
BY DEF FrozenHasCause, On, Off

\* A spell takes off what its kind had done before, and adds its own.
LEMMA CastIsGood ==
    ASSUME Inv, NEW c \in Chars, NEW k \in Spells, NEW m \in Powers, NEW d \in Durations,
           Cast(c, k, m, d)
    PROVE  Inv'
<1> USE DEF Inv
<1> DEFINE took == IF k \in Hexes THEN Lesser(m, dx[c]) ELSE m
           e == [more |-> took, expire |-> Clock(time + d), due |-> time + d]
<1>1. took \in Int /\ k \in Kinds /\ dx[c] \in Int /\ fx[c] \in [Kinds -> Fx]
  BY NumbersAssumption, SpellsAssumption DEF TypeOK, Lesser
<1>2. time + d \in Nat
  BY NumbersAssumption DEF TypeOK
<1>3. e \in Fx
  BY <1>1, <1>2, ClockRange DEF Fx
<1>4. /\ dx' = [dx EXCEPT ![c] = IF k \in Hexes THEN @ - took ELSE @ + took]
      /\ fx' = [fx EXCEPT ![c] = [fx[c] EXCEPT ![k] = e]]
      /\ UNCHANGED <<base, item, drift, frozen, para, timers, disk>>
  BY DEF Cast
<1>5. TypeOK'
  BY <1>1, <1>3, <1>4 DEF TypeOK, timers
<1>6. Balanced'
  <2> SUFFICES ASSUME NEW x \in Chars \ drift'
               PROVE  dx'[x] = base'[x] + Worn(x)' + Effects(fx'[x])
    BY DEF Balanced
  <2>0. dx[x] = base[x] + Worn(x) + Effects(fx[x]) /\ Worn(x)' = Worn(x)
    BY <1>4 DEF Balanced, Worn
  <2>1. CASE x = c
    <3>1. Effects(fx'[x]) = IF k \in Hexes THEN Effects(fx[x]) - took
                                            ELSE Effects(fx[x]) + took
      <4>1. fx[c][k] = None /\ e.more = took
        BY DEF Cast
      <4>2. fx'[x] = [fx[c] EXCEPT ![k] = e]
        BY <2>1, <1>4 DEF TypeOK
      <4> HIDE DEF e, took
      <4> QED
        BY <2>1, <4>1, <4>2, <1>1, <1>3, EffectsOfOneMore
    <3>2. Effects(fx[x]) \in Int /\ base[x] \in Int /\ Worn(x) \in Int
      BY EffectsTyped, NumbersAssumption DEF TypeOK, Worn
    <3>3. dx'[x] = IF k \in Hexes THEN dx[x] - took ELSE dx[x] + took
      BY <2>1, <1>4 DEF TypeOK
    <3> QED
      BY <2>0, <3>1, <3>2, <3>3, <1>1, <1>4
  <2>2. CASE x # c
    BY <2>0, <2>2, <1>4 DEF TypeOK
  <2> QED
    BY <2>1, <2>2
<1> QED
  BY <1>4, <1>5, <1>6 DEF FrozenHasCause, SavedSober

\* What checkEquipement() takes off the attribute is what is no longer worn.
LEMMA DroppedTakesBonus ==
    ASSUME NEW c \in Chars, NEW weak
    PROVE  /\ Worn(c) \in Int /\ Dropped(c, weak) \in Int
           /\ item'[c] = Keeps(c, weak) => Worn(c)' = Worn(c) - Dropped(c, weak)
BY NumbersAssumption DEF Worn, Dropped, Keeps

\* A turn of the loop undoes what it removes.
LEMMA TurnIsGood ==
    ASSUME Inv, NEW d \in 1 .. MaxStep, NEW weak \in SUBSET Chars, Turn(d, weak)
    PROVE  Inv'
<1> USE DEF Inv
<1>1. time' \in Nat /\ time' = time + d
  BY NumbersAssumption DEF Turn, TypeOK
<1>2. /\ lclock' \in 0 .. Wrap - 1 /\ overflow' \in BOOLEAN /\ saved' \in BOOLEAN
      /\ Clock(time') \in 0 .. Wrap - 1
  <2>1. Clock(time) \in 0 .. Wrap - 1 /\ Clock(time') \in 0 .. Wrap - 1
    BY <1>1, ClockRange DEF TypeOK
  <2>2. overflow' \in BOOLEAN
    BY <2>1 DEF Turn, Overflowed
  <2> QED
    BY <2>1, <2>2 DEF Turn
<1>3. CASE ExpireAll(Clock(time'), overflow', weak) /\ checktempfx' \in NextChecks(Clock(time'))
  <2> DEFINE left(c) == [k \in Kinds |->
                           IF k \in {h \in Listed(c) :
                                Timeout(fx[c][h].expire, Clock(time'), overflow')}
                           THEN None ELSE fx[c][k]]
             freed(c) == {p \in para[c] : Timeout(p.expire, Clock(time'), overflow')}
  <2>1. /\ fx' = [c \in Chars |-> left(c)]
        /\ dx' = [c \in Chars |-> dx[c] - Effects(fx[c]) + Effects(left(c)) - Dropped(c, weak)]
        /\ item' = [c \in Chars |-> Keeps(c, weak)]
        /\ para' = [c \in Chars |-> para[c] \ freed(c)]
        /\ frozen' = [c \in Chars |-> frozen[c] /\ freed(c) = {}]
        /\ UNCHANGED <<base, drift, disk>>
    BY <1>3 DEF ExpireAll, Turn
  <2>2. checktempfx' \in 0 .. Wrap - 1
    BY <1>2, <1>3, NextChecksRange
  <2>3. \A c \in Chars : left(c) \in [Kinds -> Fx]
    BY NoneTyped DEF TypeOK
  <2> HIDE DEF left
  <2>4. \A c \in Chars : Effects(fx[c]) \in Int /\ Effects(left(c)) \in Int
    BY <2>3, EffectsTyped DEF TypeOK
  <2>5. /\ dx' \in [Chars -> Int] /\ fx' \in [Chars -> [Kinds -> Fx]]
        /\ item' \in [Chars -> Places]
    <3>1. \A c \in Chars : dx[c] \in Int /\ Dropped(c, weak) \in Int
      BY DroppedTakesBonus DEF TypeOK
    <3>2. item' \in [Chars -> Places]
      BY <2>1 DEF Keeps, TypeOK, Places
    <3> QED
      BY <2>1, <2>3, <2>4, <3>1, <3>2
  <2>6. TypeOK'
    BY <2>1, <2>2, <2>5, <1>1, <1>2 DEF TypeOK
  <2>7. Balanced'
    <3> SUFFICES ASSUME NEW c \in Chars \ drift'
                 PROVE  dx'[c] = base'[c] + Worn(c)' + Effects(fx'[c])
      BY DEF Balanced
    <3>1. dx[c] = base[c] + Worn(c) + Effects(fx[c])
      BY <2>1 DEF Balanced
    <3>2. /\ base[c] \in Int /\ Worn(c) \in Int /\ Dropped(c, weak) \in Int
          /\ Worn(c)' = Worn(c) - Dropped(c, weak)
      BY <2>1, DroppedTakesBonus DEF TypeOK
    <3>3. fx'[c] = left(c)
          /\ dx'[c] = dx[c] - Effects(fx[c]) + Effects(left(c)) - Dropped(c, weak)
      BY <2>1
    <3> QED
      BY <3>1, <3>2, <3>3, <2>1, <2>4
  <2>8. FrozenHasCause' /\ SavedSober'
    BY <2>1 DEF FrozenHasCause, SavedSober
  <2> QED
    BY <2>6, <2>7, <2>8
<1>4. CASE UNCHANGED <<stats, frozen, fx, para, checktempfx>>
  <2>1. TypeOK'
    BY <1>1, <1>2, <1>4 DEF TypeOK, stats, Turn
  <2>2. Balanced'
    BY <1>4, SameBooks DEF stats
  <2> QED
    BY <1>4, <2>1, <2>2 DEF Turn, FrozenHasCause, SavedSober
<1> QED
  BY <1>3, <1>4 DEF Turn

\* What is put on, taken off or lost changes item, attribute and flag of one
\* character, or the flags of all by switching the effects.
LEMMA ItemIsGood ==
    ASSUME Inv, NEW c \in Chars,
           \/ \E taken \in BOOLEAN : UseItem(c, taken)
           \/ WearItem(c) \/ LiftItem(c) \/ PackItem(c) \/ BounceItem(c)
           \/ LoseItem(c) \/ LoseWeapon(c)
    PROVE  Inv'
<1> USE DEF Inv
<1>1. /\ UNCHANGED <<base, fx, para, timers, disk>>
      /\ \/ UNCHANGED frozen
         \/ frozen' = [x \in Chars |-> On(x)]
  BY DEF UseItem, WearItem, LiftItem, PackItem, BounceItem, LoseItem, LoseWeapon
<1>2. FrozenHasCause' /\ SavedSober'
  BY <1>1, OnHasCause DEF FrozenHasCause, SavedSober
<1>3. frozen' \in [Chars -> BOOLEAN]
  BY <1>1 DEF TypeOK, On, Off
<1>4. \A x \in Chars : /\ dx[x] \in Int /\ base[x] \in Int /\ fx'[x] = fx[x]
                        /\ Effects(fx[x]) \in Int /\ base'[x] = base[x]
  BY <1>1, EffectsTyped DEF TypeOK
<1>5. \A x \in Chars \ drift : dx[x] = base[x] + Worn(x) + Effects(fx[x])
  BY DEF Balanced
<1>6. /\ \A x \in Chars : Worn(x) = IF item[x] = "worn" THEN Bonus ELSE 0
      /\ \A x \in Chars : Worn(x)' = IF item'[x] = "worn" THEN Bonus ELSE 0
      /\ Bonus \in Int
  BY NumbersAssumption DEF Worn
<1>7. ASSUME NEW there \in Places, NEW v \in Int,
             item' = [item EXCEPT ![c] = there],
             dx' = [dx EXCEPT ![c] = v],
             drift' \in {drift, drift \cup {c}, drift \ {c}},
             c \notin drift' =>
                 v = base[c] + (IF there = "worn" THEN Bonus ELSE 0) + Effects(fx[c])
      PROVE  Inv'
  <2>1. TypeOK'
    BY <1>1, <1>3, <1>7 DEF TypeOK, timers
  <2>2. Balanced'
    <3> SUFFICES ASSUME NEW x \in Chars \ drift'
                 PROVE  dx'[x] = base'[x] + Worn(x)' + Effects(fx'[x])
      BY DEF Balanced
    <3>1. CASE x = c
      BY <1>4, <1>6, <1>7, <3>1 DEF TypeOK
    <3>2. CASE x # c
      BY <1>4, <1>5, <1>6, <1>7, <3>2 DEF TypeOK
    <3> QED
      BY <3>1, <3>2
  <2> QED
    BY <2>1, <2>2, <1>2
<1>8. CASE \E taken \in BOOLEAN : UseItem(c, taken)
  <2>1. CASE /\ dx' = [dx EXCEPT ![c] = @ + Bonus] /\ drift' = drift \cup {c}
             /\ UNCHANGED item /\ item[c] = "pack"
    <3>1. item' = [item EXCEPT ![c] = "pack"] /\ dx[c] + Bonus \in Int
      BY <2>1, <1>4, <1>6 DEF TypeOK
    <3> QED
      BY <2>1, <3>1, <1>7 DEF Places
  <2>2. CASE /\ item' = [item EXCEPT ![c] = "worn"]
             /\ dx' = [dx EXCEPT ![c] = base[c] + Bonus + Effects(fx[c])]
             /\ drift' = drift \ {c}
    <3>1. base[c] + Bonus + Effects(fx[c]) \in Int
      BY <1>4, <1>6
    <3> QED
      BY <2>2, <3>1, <1>7 DEF Places
  <2> QED
    BY <1>8, <2>1, <2>2 DEF UseItem
<1>9. CASE WearItem(c)
  <2> DEFINE v == dx[c] + (IF UnequipOnReequip THEN 2 * Bonus ELSE Bonus)
  <2>1. v \in Int
    BY <1>4, <1>6
  <2>2. c \notin drift /\ ~UnequipOnReequip => v = base[c] + Bonus + Effects(fx[c])
    BY <1>4, <1>5, <1>6, <1>9 DEF WearItem
  <2>3. /\ item' = [item EXCEPT ![c] = "worn"] /\ dx' = [dx EXCEPT ![c] = v]
        /\ c \notin drift
        /\ drift' = IF UnequipOnReequip THEN drift \cup {c} ELSE drift
    BY <1>9 DEF WearItem
  <2> HIDE DEF v
  <2> QED
    BY <2>1, <2>2, <2>3, <1>7 DEF Places
<1>10. CASE LiftItem(c)
  <2>1. CASE item[c] = "pack"
    <3>1. dx' = [dx EXCEPT ![c] = dx[c]] /\ item' = [item EXCEPT ![c] = "lifted"]
      BY <1>10, <2>1 DEF LiftItem, TypeOK
    <3>2. c \notin drift => dx[c] = base[c] + 0 + Effects(fx[c])
      BY <2>1, <1>5, <1>6
    <3>3. drift' = drift /\ dx[c] \in Int
      BY <1>10, <2>1, <1>4 DEF LiftItem
    <3> QED
      BY <3>1, <3>2, <3>3, <1>7 DEF Places
  <2>2. CASE item[c] = "worn"
    <3>1. /\ dx' = [dx EXCEPT ![c] = base[c] + Effects(fx[c])]
          /\ \/ item' = [item EXCEPT ![c] = "taken"] /\ drift' = drift \ {c}
             \/ drift' = drift \cup {c} /\ item' = [item EXCEPT ![c] = "worn"]
      BY <1>10, <2>2 DEF LiftItem, TypeOK
    <3>2. /\ base[c] + Effects(fx[c]) \in Int
          /\ base[c] + Effects(fx[c]) = base[c] + 0 + Effects(fx[c])
      BY <1>4
    <3>3. CASE item' = [item EXCEPT ![c] = "taken"] /\ drift' = drift \ {c}
      BY <3>1, <3>2, <3>3, <1>7 DEF Places
    <3>4. CASE drift' = drift \cup {c} /\ item' = [item EXCEPT ![c] = "worn"]
      BY <3>1, <3>2, <3>4, <1>7 DEF Places
    <3> QED
      BY <3>1, <3>3, <3>4
  <2> QED
    BY <1>10, <2>1, <2>2 DEF LiftItem
<1>11. CASE PackItem(c)
  <2>1. /\ dx' = [dx EXCEPT ![c] = dx[c]] /\ item' = [item EXCEPT ![c] = "pack"]
        /\ drift' = drift /\ dx[c] \in Int
    BY <1>11, <1>4 DEF PackItem, TypeOK
  <2>2. c \notin drift => dx[c] = base[c] + 0 + Effects(fx[c])
    BY <1>11, <1>5, <1>6 DEF PackItem
  <2> QED
    BY <2>1, <2>2, <1>7 DEF Places
<1>12. CASE LoseItem(c)
  <2>1. /\ dx' = [dx EXCEPT ![c] = dx[c] - Bonus] /\ item' = [item EXCEPT ![c] = "pack"]
        /\ drift' = drift /\ dx[c] - Bonus \in Int
    BY <1>12, <1>4, <1>6 DEF LoseItem
  <2>2. c \notin drift => dx[c] - Bonus = base[c] + 0 + Effects(fx[c])
    BY <1>12, <1>4, <1>5, <1>6 DEF LoseItem
  <2> QED
    BY <2>1, <2>2, <1>7 DEF Places
<1>13. CASE BounceItem(c)
  <2>1. /\ dx' = [dx EXCEPT ![c] = dx[c]] /\ dx[c] \in Int
        /\ \/ /\ item[c] = "lifted" /\ item' = [item EXCEPT ![c] = "pack"]
              /\ drift' = drift
           \/ /\ item' = [item EXCEPT ![c] = "worn"]
              /\ drift' = drift \cup {c}
    BY <1>13, <1>4 DEF BounceItem, TypeOK
  <2>2. item[c] = "lifted" /\ c \notin drift => dx[c] = base[c] + 0 + Effects(fx[c])
    BY <1>5, <1>6
  <2> QED
    BY <2>1, <2>2, <1>7 DEF Places
<1>14. CASE LoseWeapon(c)
  <2>1. /\ dx' = [dx EXCEPT ![c] = dx[c]] /\ item' = [item EXCEPT ![c] = "pack"]
        /\ drift' = drift \cup {c} /\ dx[c] \in Int
    BY <1>14, <1>4 DEF LoseWeapon, TypeOK
  <2> QED
    BY <2>1, <1>7 DEF Places
<1> QED
  BY <1>8, <1>9, <1>10, <1>11, <1>12, <1>13, <1>14

\* Advancement moves an attribute and its base together.
LEMMA StatIsGood ==
    ASSUME Inv, NEW c \in Chars, Advance(c) \/ Decline(c)
    PROVE  Inv'
<1> USE DEF Inv
<1>1. UNCHANGED <<item, frozen, fx, para, timers, disk>>
  BY DEF Advance, Decline
<1>2. \A x \in Chars : /\ dx[x] \in Int /\ base[x] \in Int /\ Worn(x) \in Int
                        /\ Effects(fx[x]) \in Int /\ Worn(x)' = Worn(x)
  BY <1>1, EffectsTyped, NumbersAssumption DEF TypeOK, Worn
<1>3. \A x \in Chars \ drift : dx[x] = base[x] + Worn(x) + Effects(fx[x])
  BY DEF Balanced
<1>4. ASSUME NEW n \in {1, -1},
             base' = [base EXCEPT ![c] = @ + n], dx' = [dx EXCEPT ![c] = @ + n],
             UNCHANGED drift
      PROVE  TypeOK' /\ Balanced'
  <2>1. TypeOK'
    BY <1>1, <1>4 DEF TypeOK, timers
  <2>2. \A x \in Chars : \/ base'[x] = base[x] /\ dx'[x] = dx[x]
                         \/ base'[x] = base[x] + n /\ dx'[x] = dx[x] + n
    <3> TAKE x \in Chars
    <3>1. CASE x = c
      <4>1. base'[c] = base[c] + n
        BY <1>4 DEF TypeOK
      <4>2. dx'[c] = dx[c] + n
        BY <1>4 DEF TypeOK
      <4> QED
        BY <3>1, <4>1, <4>2
    <3>2. CASE x # c
      BY <1>4, <3>2 DEF TypeOK
    <3> QED
      BY <3>1, <3>2
  <2>3. Balanced'
    <3> SUFFICES ASSUME NEW x \in Chars \ drift'
                 PROVE  dx'[x] = base'[x] + Worn(x)' + Effects(fx'[x])
      BY DEF Balanced
    <3>1. dx[x] = base[x] + Worn(x) + Effects(fx[x]) /\ fx' = fx
      BY <1>1, <1>3, <1>4
    <3> QED
      BY <1>2, <2>2, <3>1, <1>4
  <2> QED
    BY <2>1, <2>3
<1>5. ASSUME /\ base' = [base EXCEPT ![c] = Limit] /\ dx' = [dx EXCEPT ![c] = Limit]
             /\ drift' = drift \cup {c}
      PROVE  TypeOK' /\ Balanced'
  <2>1. TypeOK'
    BY <1>1, <1>5, NumbersAssumption DEF TypeOK, timers
  <2>2. Balanced'
    BY <1>1, <1>2, <1>3, <1>5 DEF Balanced, TypeOK
  <2> QED
    BY <2>1, <2>2
<1>6. TypeOK' /\ Balanced'
  <2>1. CASE Decline(c)
    <3>1. base' = [base EXCEPT ![c] = @ + (-1)] /\ dx' = [dx EXCEPT ![c] = @ + (-1)]
      BY <2>1, <1>2 DEF Decline
    <3> QED
      BY <2>1, <3>1, <1>4 DEF Decline
  <2>2. CASE Advance(c)
    BY <2>2, <1>4, <1>5 DEF Advance
  <2> QED
    BY <2>1, <2>2
<1>7. FrozenHasCause' /\ SavedSober'
  BY <1>1 DEF FrozenHasCause, SavedSober
<1> QED
  BY <1>6, <1>7

\* A save, done or failed, and the restart from it.
LEMMA SaveIsGood ==
    ASSUME Inv, NEW d \in 1 .. MaxStep, Save(d)
    PROVE  Inv'
<1> USE DEF Inv
<1>1. \A c \in Chars : Off(c) = FALSE
  BY DEF Off, FrozenHasCause, TypeOK
<1>2. FrozenHasCause' /\ SavedSober'
  BY <1>1, OnHasCause DEF Save, SavedSober
<1>3. \A c \in Chars : base[c] \in Int /\ Effects(fx[c]) \in Int /\ base[c] + Effects(fx[c]) \in Int
  BY EffectsTyped DEF TypeOK
<1>4. Balanced'
  <2> SUFFICES ASSUME NEW c \in Chars \ drift'
               PROVE  dx'[c] = base'[c] + Worn(c)' + Effects(fx'[c])
    BY DEF Balanced
  <2>1. Worn(c)' = 0
    BY DEF Save, Worn
  <2> QED
    BY <2>1, <1>3 DEF Save
<1>5. TypeOK'
  <2>1. dx' \in [Chars -> Int] /\ frozen' \in [Chars -> BOOLEAN]
    BY <1>3 DEF Save, On, Off, TypeOK
  <2>2. disk' \in [Chars -> [base : Int, worn : BOOLEAN, frozen : BOOLEAN]]
    BY <1>1, <1>3 DEF Save
  <2>3. time' \in Nat
    BY DEF Save, TypeOK
  <2> QED
    BY <2>1, <2>2, <2>3 DEF Save, TypeOK
<1> QED
  BY <1>2, <1>4, <1>5

\* The saved world is sober, so nothing has to be undone.
LEMMA RestartIsGood ==
    ASSUME Inv, Restart
    PROVE  Inv'
<1> USE DEF Inv
<1>1. \A c \in Chars : disk[c].base \in Int /\ disk[c].frozen = FALSE
  BY DEF TypeOK, SavedSober
<1>2. [k \in Kinds |-> None] \in [Kinds -> Fx]
  BY NoneTyped
<1>3. TypeOK'
  <2>1. /\ dx' \in [Chars -> Int] /\ base' \in [Chars -> Int]
        /\ item' \in [Chars -> Places]
        /\ drift' \subseteq Chars /\ frozen' \in [Chars -> BOOLEAN]
    BY <1>1 DEF Restart, Places
  <2>2. /\ fx' \in [Chars -> [Kinds -> Fx]]
        /\ para' \in [Chars -> SUBSET [expire : 0 .. Wrap - 1, due : Int]]
    BY <1>2 DEF Restart
  <2>3. 0 \in 0 .. Wrap - 1
    BY NumbersAssumption
  <2> QED
    BY <2>1, <2>2, <2>3 DEF Restart, TypeOK
<1>4. Balanced'
  <2> SUFFICES ASSUME NEW c \in Chars \ drift'
               PROVE  dx'[c] = base'[c] + Worn(c)' + Effects(fx'[c])
    BY DEF Balanced
  <2>1. Worn(c)' = 0 /\ fx'[c] = [k \in Kinds |-> None] /\ dx'[c] = base'[c]
    BY DEF Restart, Worn
  <2>2. base'[c] \in Int
    BY <1>1 DEF Restart
  <2> QED
    BY <2>1, <2>2, NoEffects
<1>5. FrozenHasCause' /\ SavedSober'
  BY <1>1 DEF Restart, FrozenHasCause, SavedSober
<1> QED
  BY <1>3, <1>4, <1>5

-----------------------------------------------------------------------------
\* Every step keeps the invariant.
LEMMA StepIsGood ==
    ASSUME Inv, [Next]_vars
    PROVE  Inv'
<1> USE DEF Inv
<1>1. ASSUME NEW c \in Chars, NEW d \in Durations, NEW resists \in BOOLEAN,
             Paralyze(c, resists, d)
      PROVE  Inv'
  <2>1. [expire |-> Clock(time + d), due |-> time + d] \in [expire : 0 .. Wrap - 1, due : Int]
    <3>1. time + d \in Nat
      BY NumbersAssumption DEF TypeOK
    <3> QED
      BY <3>1, ClockRange
  <2>2. TypeOK'
    BY <1>1, <2>1 DEF Paralyze, TypeOK, stats, timers
  <2>3. FrozenHasCause' /\ SavedSober'
    BY <1>1 DEF Paralyze, FrozenHasCause, SavedSober, TypeOK
  <2> QED
    BY <1>1, <2>2, <2>3, SameBooks DEF Paralyze, stats
<1>2. ASSUME NEW weak \in SUBSET Chars, NEW c \in Chars, Dispel(c, weak)
      PROVE  Inv'
  <2>1. [k \in Kinds |-> None] \in [Kinds -> Fx] /\ Effects(fx[c]) \in Int
    BY NoneTyped, EffectsTyped DEF TypeOK
  <2>2. TypeOK'
    <3>1. dx[c] \in Int /\ Dropped(c, weak) \in Int
      BY DroppedTakesBonus DEF TypeOK
    <3>2. item' \in [Chars -> Places]
      BY <1>2 DEF Dispel, Keeps, TypeOK, Places
    <3> QED
      BY <1>2, <2>1, <3>1, <3>2 DEF Dispel, TypeOK, timers
  <2>3. Balanced'
    <3> SUFFICES ASSUME NEW x \in Chars \ drift'
                 PROVE  dx'[x] = base'[x] + Worn(x)' + Effects(fx'[x])
      BY DEF Balanced
    <3>1. /\ dx[x] = base[x] + Worn(x) + Effects(fx[x])
          /\ base'[x] = base[x] /\ base[x] \in Int /\ Worn(x) \in Int
      BY <1>2, NumbersAssumption DEF Balanced, Dispel, Worn, TypeOK
    <3>2. CASE x = c
      <4>1. /\ dx'[c] = dx[c] - Effects(fx[c]) - Dropped(c, weak)
            /\ fx'[c] = [k \in Kinds |-> None] /\ item'[c] = Keeps(c, weak)
        BY <1>2 DEF Dispel, TypeOK
      <4>2. Dropped(c, weak) \in Int /\ Worn(c)' = Worn(c) - Dropped(c, weak)
        BY <4>1, DroppedTakesBonus
      <4> QED
        BY <2>1, <3>1, <3>2, <4>1, <4>2, NoEffects
    <3>3. CASE x # c
      <4>1. dx'[x] = dx[x] /\ fx'[x] = fx[x] /\ item'[x] = item[x]
        BY <1>2, <3>3 DEF Dispel, TypeOK
      <4> QED
        BY <3>1, <4>1 DEF Worn
    <3> QED
      BY <3>2, <3>3
  <2> QED
    BY <1>2, <2>2, <2>3 DEF Dispel, FrozenHasCause, SavedSober
<1>3. ASSUME NEW c \in Chars, Unfreeze(c)
      PROVE  Inv'
  <2>1. TypeOK'
    BY <1>3 DEF Unfreeze, TypeOK, stats, timers
  <2>2. FrozenHasCause' /\ SavedSober'
    BY <1>3 DEF Unfreeze, FrozenHasCause, SavedSober, TypeOK
  <2> QED
    BY <1>3, <2>1, <2>2, SameBooks DEF Unfreeze, stats
<1>4. ASSUME NEW c \in Chars, CheckSafeStats(c)
      PROVE  Inv'
  <2>1. /\ base[c] + Worn(c) + Effects(fx[c]) \in Int
        /\ \A x \in Chars : Worn(x)' = Worn(x)
    BY <1>4, EffectsTyped, NumbersAssumption DEF CheckSafeStats, TypeOK, Worn
  <2>2. TypeOK'
    BY <1>4, <2>1 DEF CheckSafeStats, SafeStats, TypeOK, On, Off, timers
  <2>3. Balanced'
    BY <1>4, <2>1 DEF CheckSafeStats, SafeStats, Balanced, TypeOK
  <2> QED
    BY <1>4, <2>2, <2>3, OnHasCause DEF CheckSafeStats, SafeStats, SavedSober
<1>5. CASE SaveFails
  <2>1. TypeOK'
    BY <1>5 DEF SaveFails, TypeOK, On, Off, stats, timers
  <2> QED
    BY <1>5, <2>1, SameBooks, OnHasCause DEF SaveFails, stats, SavedSober
<1>6. CASE UNCHANGED vars
  <2>1. TypeOK'
    BY <1>6 DEF TypeOK, vars, stats, timers
  <2> QED
    BY <1>6, <2>1, SameBooks DEF vars, stats, FrozenHasCause, SavedSober
<1> QED
  BY <1>1, <1>2, <1>3, <1>4, <1>5, <1>6, CastIsGood, TurnIsGood, SaveIsGood,
     ItemIsGood, StatIsGood, RestartIsGood DEF Next

\* The invariant holds in every reachable state.
THEOREM Invariance == Spec => []Inv
<1>1. Init => Inv
  <2> SUFFICES ASSUME Init
               PROVE  Inv
    OBVIOUS
  <2>1. TypeOK
    <3>1. [k \in Kinds |-> None] \in [Kinds -> Fx]
      BY NoneTyped
    <3>2. fx \in [Chars -> [Kinds -> Fx]] /\ para \in [Chars -> SUBSET [expire : 0 .. Wrap - 1, due : Int]]
      BY <3>1 DEF Init
    <3>3. Limit \in Int /\ 0 \in 0 .. Wrap - 1
      BY NumbersAssumption
    <3>4. dx \in [Chars -> Int] /\ base \in [Chars -> Int]
      BY <3>3 DEF Init
    <3> QED
      BY <3>2, <3>3, <3>4 DEF Init, TypeOK, Places
  <2>2. Balanced
    BY NoEffects, NumbersAssumption DEF Init, Balanced, Worn
  <2> QED
    BY <2>1, <2>2 DEF Init, Inv, FrozenHasCause, SavedSober
<1>2. Inv /\ [Next]_vars => Inv'
  BY StepIsGood
<1> QED
  BY <1>1, <1>2, PTL DEF Spec

\* Every variable keeps its type, the clocks their 32 bits (src/timing.cpp).
THEOREM EffectsTypeCorrect == Spec => []TypeOK
<1>1. Inv => TypeOK
  BY DEF Inv
<1> QED
  BY <1>1, Invariance, PTL

\* An attribute is its base, what is worn and what the listed effects did
\* (src/tmpeff.cpp, src/objects/cchar.cpp checkSafeStats).
THEOREM BooksBalance == Spec => []Balanced
<1>1. Inv => Balanced
  BY DEF Inv
<1> QED
  BY <1>1, Invariance, PTL

\* Nobody is frozen without an effect that will end it, restarts included.
THEOREM NobodyStaysFrozen == Spec => []FrozenHasCause
<1>1. Inv => FrozenHasCause
  BY DEF Inv
<1> QED
  BY <1>1, Invariance, PTL

-----------------------------------------------------------------------------
(***************************************************************************)
(* No effect is late.  The clock is read modulo Wrap, so what it shows is  *)
(* not enough to say how late an effect is.  The invariant names three     *)
(* moments of real time that no variable keeps: o, at which the clock last *)
(* started again before the last turn; p, at which that turn compared the  *)
(* clocks; and q, at which it looked at the effects.  As long as the clock *)
(* has not started again since o, what is listed was asked for since o     *)
(* too, and the next look comes at most Period after it is due.  Once it   *)
(* has, the next turn sees it and ends every effect.                       *)
(***************************************************************************)

\* The clock started again, for the k-th time, at o.
Round(k, o) == o = k * Wrap

\* The beginnings of two rounds of the clock are a wrap apart.
LEMMA NextRound ==
    ASSUME NEW k \in Nat, NEW o \in Nat, Round(k, o)
    PROVE  Round(k + 1, o + Wrap)
<1>1. Wrap \in Nat
  BY NumbersAssumption
<1> QED
  BY <1>1 DEF Round

\* From then on it shows the time since.
LEMMA ClockShows ==
    ASSUME NEW k \in Nat, NEW o \in Nat, Round(k, o), NEW t \in Nat, o <= t, t < o + Wrap
    PROVE  Clock(t) = t - o
<1> DEFINE a == t \div Wrap
           b == t % Wrap
<1>1. Wrap \in Nat \ {0}
  BY NumbersAssumption
<1>2. a \in Int /\ b \in 0 .. Wrap - 1 /\ t = Wrap * a + b
  BY <1>1, Z3
<1> HIDE DEF a, b
<1>3. o = Wrap * k
  BY <1>1 DEF Round
<1>4. Wrap * (a - k) = t - o - b /\ Wrap * (a - k + 1) = Wrap * (a - k) + Wrap
      /\ Wrap * (a - k - 1) = Wrap * (a - k) - Wrap
  BY <1>1, <1>2, <1>3
<1>5. a - k < 1
  <2>1. SUFFICES ASSUME a - k >= 1
                 PROVE  FALSE
    BY <1>2
  <2>2. Wrap * (a - k - 1) >= 0
    BY <1>1, <1>2, <2>1
  <2> QED
    BY <1>1, <1>2, <1>4, <2>2
<1>6. a - k > -1
  <2>1. SUFFICES ASSUME a - k + 1 <= 0
                 PROVE  FALSE
    BY <1>2
  <2>2. Wrap * (a - k + 1) <= 0
    BY <1>1, <1>2, <2>1
  <2> QED
    BY <1>1, <1>2, <1>4, <2>2
<1>7. a = k
  BY <1>2, <1>5, <1>6
<1> QED
  BY <1>1, <1>2, <1>3, <1>7 DEF Clock, b

\* An entry of either list, x, is a timer: it ends by the clock when it is due.
Timer(x) == x.due \in Nat /\ x.expire = Clock(x.due)

InTime(x, o, q) ==
    /\ Timer(x) /\ o <= x.due
    /\ q < o + Wrap => checktempfx <= x.due - o + Period /\ q <= x.due + Period
    /\ q <= x.due + Period + 2 * MaxStep

Moments(k, o, p, q) ==
    /\ Round(k, o)
    /\ o <= p /\ p < o + Wrap /\ lclock = p - o
    /\ p <= q /\ q <= p + MaxStep
    /\ q <= time /\ time <= q + (IF saved THEN MaxStep ELSE 0)
    /\ q < o + Wrap => checktempfx <= q - o + Period

AllInTime(o, q) ==
    \A c \in Chars : /\ \A h \in Listed(c) : InTime(fx[c][h], o, q)
                     /\ \A x \in para[c] : InTime(x, o, q)

TimeInv ==
    \E k \in Nat, o \in Nat, p \in Nat, q \in Nat : Moments(k, o, p, q) /\ AllInTime(o, q)

\* A new timer is in time.
LEMMA NewTimer ==
    ASSUME TypeOK, NEW k \in Nat, NEW o \in Nat, NEW p \in Nat, NEW q \in Nat,
           Moments(k, o, p, q), NEW d \in Durations, NEW x, x.due = time + d,
           x.expire = Clock(time + d)
    PROVE  InTime(x, o, q)
<1>1. d \in Nat /\ Period \in Nat /\ MaxStep \in Nat /\ Wrap \in Nat
      /\ time \in Nat /\ checktempfx \in Int
  BY NumbersAssumption DEF TypeOK
<1> QED
  BY <1>1 DEF InTime, Timer, Moments

\* Any step but a turn, a save or a restart lists what was listed, or what is new.
LEMMA OtherIsInTime ==
    ASSUME TypeOK, TimeInv, UNCHANGED timers,
           \A c \in Chars : \A h \in Listed(c)' :
              \/ h \in Listed(c) /\ fx'[c][h] = fx[c][h]
              \/ \E d \in Durations : /\ fx'[c][h].due = time + d
                                       /\ fx'[c][h].expire = Clock(time + d),
           \A c \in Chars : \A x \in para'[c] :
              \/ x \in para[c]
              \/ \E d \in Durations : x.due = time + d /\ x.expire = Clock(time + d)
    PROVE  TimeInv'
<1>1. PICK k \in Nat, o \in Nat, p \in Nat, q \in Nat : Moments(k, o, p, q) /\ AllInTime(o, q)
  BY DEF TimeInv
<1>2. Moments(k, o, p, q)'
  BY <1>1 DEF Moments, timers
<1>3. \A x : InTime(x, o, q) => InTime(x, o, q)'
  BY DEF InTime, timers, Timer
<1>4. AllInTime(o, q)'
  BY <1>1, <1>3, NewTimer DEF AllInTime
<1> QED
  BY <1>2, <1>4 DEF TimeInv

\* A save takes time, once between two turns.
LEMMA SaveIsInTime ==
    ASSUME TypeOK, TimeInv, NEW d \in 1 .. MaxStep, Save(d)
    PROVE  TimeInv'
<1>1. PICK k \in Nat, o \in Nat, p \in Nat, q \in Nat : Moments(k, o, p, q) /\ AllInTime(o, q)
  BY DEF TimeInv
<1>2. Moments(k, o, p, q)'
  BY <1>1, NumbersAssumption DEF Moments, Save, TypeOK
<1>3. AllInTime(o, q)'
  BY <1>1 DEF AllInTime, InTime, Timer, Save, Listed
<1> QED
  BY <1>2, <1>3 DEF TimeInv

\* Where nothing is listed, the moments are all there is to say.
LEMMA EmptyIsInTime ==
    ASSUME \A c \in Chars : Listed(c) = {} /\ para[c] = {}
    PROVE  \A o, q : AllInTime(o, q)
BY DEF AllInTime

\* After a start nothing is listed.
LEMMA RestartIsInTime ==
    ASSUME Restart
    PROVE  TimeInv'
<1>1. Moments(0, 0, 0, 0)'
  BY NumbersAssumption DEF Restart, Moments, Round
<1>2. AllInTime(0, 0)'
  BY DEF Restart, AllInTime, Listed
<1> QED
  BY <1>1, <1>2 DEF TimeInv

\* The next look is at most Period away, whatever the conversion made of it.
LEMMA NextLook ==
    ASSUME NEW now \in 0 .. Wrap - 1, NEW n \in NextChecks(now)
    PROVE  n <= now + Period
<1>1. n \in 0 .. Wrap - 1 /\ Period \in Nat /\ Wrap \in Nat
  BY NextChecksRange, NumbersAssumption
<1> QED
  BY <1>1 DEF NextChecks

\* A turn keeps the invariant: it finds the clock started again and ends
\* everything, or looks and leaves what is not due, or it is not yet time.
LEMMA TurnIsInTime ==
    ASSUME TypeOK, TimeInv, NEW d \in 1 .. MaxStep, NEW weak, Turn(d, weak)
    PROVE  TimeInv'
<1>1. PICK k \in Nat, o \in Nat, p \in Nat, q \in Nat : Moments(k, o, p, q) /\ AllInTime(o, q)
  BY DEF TimeInv
<1>2. /\ d \in Nat /\ Period \in Nat /\ MaxStep \in Nat /\ Wrap \in Nat /\ d <= MaxStep
      /\ time \in Nat /\ checktempfx \in Int /\ 2 * MaxStep < Wrap
  BY NumbersAssumption, CircleAssumption DEF TypeOK
<1>3. PICK t \in Nat, r \in Nat : t = time /\ r = time + d
  BY <1>2
<1>4. /\ time' = r /\ saved' = FALSE /\ lclock' = Clock(t)
      /\ overflow' <=> lclock > Clock(t)
  BY <1>3 DEF Turn, Overflowed
<1>5. Clock(r) \in 0 .. Wrap - 1
  BY <1>4, <1>3, ClockRange
<1>6. ASSUME Timeout(checktempfx, Clock(r), overflow')
      PROVE  /\ checktempfx' \in Int /\ checktempfx' <= Clock(r) + Period
             /\ \A c \in Chars : \A h \in Listed(c)' :
                   /\ h \in Listed(c) /\ fx'[c][h] = fx[c][h]
                   /\ ~Timeout(fx[c][h].expire, Clock(r), overflow')
             /\ \A c \in Chars : \A x \in para'[c] :
                   x \in para[c] /\ ~Timeout(x.expire, Clock(r), overflow')
  <2>1. ExpireAll(Clock(r), overflow', weak) /\ checktempfx' \in NextChecks(Clock(r))
    BY <1>4, <1>3, <1>6 DEF Turn
  <2>2. checktempfx' \in Int /\ checktempfx' <= Clock(r) + Period
    BY <2>1, <1>5, NextLook, NextChecksRange
  <2>3. \A c \in Chars : \A h \in Listed(c)' :
                   /\ h \in Listed(c) /\ fx'[c][h] = fx[c][h]
                   /\ ~Timeout(fx[c][h].expire, Clock(r), overflow')
    BY <2>1 DEF ExpireAll, Listed
  <2>4. \A c \in Chars : \A x \in para'[c] :
                   x \in para[c] /\ ~Timeout(x.expire, Clock(r), overflow')
    BY <2>1 DEF ExpireAll
  <2> QED
    BY <2>2, <2>3, <2>4
<1>7. ASSUME ~Timeout(checktempfx, Clock(r), overflow')
      PROVE  UNCHANGED <<fx, para, checktempfx>>
  BY <1>4, <1>3, <1>7 DEF Turn, stats
<1>8. CASE time >= o + Wrap
  <2> DEFINE o2 == o + Wrap
  <2>1. /\ k + 1 \in Nat /\ o2 \in Nat /\ Round(k + 1, o2)
        /\ o2 <= time /\ time < o2 + Wrap /\ time <= p + 2 * MaxStep
    BY <1>1, <1>2, <1>8, NextRound DEF Moments
  <2>2. Clock(t) = time - o2
    BY <1>2, <1>3, <2>1, ClockShows
  <2>3. overflow'
    BY <1>1, <1>2, <1>4, <1>3, <2>1, <2>2 DEF Moments
  <2>4. Timeout(checktempfx, Clock(r), overflow')
    BY <2>3 DEF Timeout
  <2>5. (\A c \in Chars : Listed(c) = {} /\ para[c] = {})'
    BY <1>6, <2>3, <2>4 DEF Timeout
  <2>6. AllInTime(o2, r)'
    BY <2>5 DEF AllInTime
  <2>7. Moments(k + 1, o2, t, r)'
    <3>1. r < o2 + Wrap => Clock(r) = r - o2
      BY <1>2, <1>4, <1>3, <2>1, ClockShows
    <3> QED
      BY <1>2, <1>4, <1>3, <1>6, <2>1, <2>2, <2>4, <3>1, <1>3 DEF Moments
  <2> QED
    BY <1>2, <1>4, <1>3, <2>1, <2>6, <2>7 DEF TimeInv
<1>9. CASE time < o + Wrap
  <2>1. o <= time /\ q < o + Wrap /\ r = time + d /\ q <= time /\ time <= q + MaxStep
    BY <1>1, <1>2, <1>3, <1>9 DEF Moments
  <2>2. Clock(t) = time - o
    BY <1>1, <1>2, <1>3, <1>9, <2>1, ClockShows DEF Moments
  <2>3. ~overflow'
    BY <1>1, <1>2, <1>4, <1>3, <2>1, <2>2 DEF Moments
  <2>4. r < o + Wrap => Clock(r) = r - o
    BY <1>1, <1>2, <1>4, <1>3, <2>1, ClockShows DEF Moments
  <2>5. Moments(k, o, t, r)'
    <3>1. r < o + Wrap => checktempfx' <= r - o + Period
      <4>1. CASE Timeout(checktempfx, Clock(r), overflow')
        BY <1>6, <2>4, <4>1
      <4>2. CASE ~Timeout(checktempfx, Clock(r), overflow')
        BY <1>1, <1>2, <1>4, <1>3, <1>7, <2>1, <4>2 DEF Moments
      <4> QED
        BY <4>1, <4>2
    <3> QED
      BY <1>1, <1>2, <1>4, <1>3, <1>9, <2>1, <2>2, <3>1 DEF Moments
  <2>6. ASSUME NEW x, InTime(x, o, q),
               \/ /\ Timeout(checktempfx, Clock(r), overflow')
                  /\ ~Timeout(x.expire, Clock(r), overflow')
               \/ ~Timeout(checktempfx, Clock(r), overflow')
        PROVE  InTime(x, o, r)'
    <3>1. /\ x.due \in Nat /\ x.expire = Clock(x.due) /\ o <= x.due
          /\ checktempfx <= x.due - o + Period /\ q <= x.due + Period
      BY <2>1, <2>6 DEF InTime, Timer
    <3>2. r <= x.due + Period + 2 * MaxStep
      BY <1>2, <2>1, <3>1
    <3>3. ASSUME r < o + Wrap, Timeout(checktempfx, Clock(r), overflow')
          PROVE  checktempfx' <= x.due - o + Period /\ r <= x.due + Period
      <4>1. x.expire \in 0 .. Wrap - 1 /\ ~(x.expire <= r - o)
        BY <2>4, <2>6, <3>1, <3>3, ClockRange DEF Timeout
      <4>2. x.due > r
        <5>1. CASE x.due < o + Wrap
          <6>1. x.expire = x.due - o
            BY <1>1, <3>1, <5>1, ClockShows DEF Moments
          <6> QED
            BY <1>4, <1>3, <3>1, <4>1, <6>1
        <5>2. CASE x.due >= o + Wrap
          BY <1>2, <1>4, <1>3, <3>1, <3>3, <5>2
        <5> QED
          BY <1>2, <3>1, <5>1, <5>2
      <4>3. checktempfx' \in Int /\ checktempfx' <= r - o + Period
        BY <1>6, <2>4, <3>3
      <4> QED
        BY <1>2, <1>4, <1>3, <3>1, <4>2, <4>3
    <3>4. ASSUME r < o + Wrap, ~Timeout(checktempfx, Clock(r), overflow')
          PROVE  checktempfx' <= x.due - o + Period /\ r <= x.due + Period
      <4>1. checktempfx' = checktempfx /\ ~(checktempfx <= r - o)
        BY <1>7, <2>4, <3>4 DEF Timeout
      <4> QED
        BY <1>2, <1>4, <1>3, <3>1, <4>1
    <3> QED
      BY <3>1, <3>2, <3>3, <3>4 DEF InTime, Timer
  <2>7. AllInTime(o, r)'
    <3>1. CASE Timeout(checktempfx, Clock(r), overflow')
      BY <1>1, <1>6, <2>6, <3>1 DEF AllInTime
    <3>2. CASE ~Timeout(checktempfx, Clock(r), overflow')
      BY <1>1, <1>7, <2>6, <3>2 DEF AllInTime, Listed
    <3> QED
      BY <3>1, <3>2
  <2> QED
    BY <1>2, <1>4, <1>3, <2>5, <2>7 DEF TimeInv
<1> QED
  BY <1>1, <1>2, <1>8, <1>9 DEF Moments

\* Every step keeps the invariant.
LEMMA StepIsInTime ==
    ASSUME TypeOK, TimeInv, [Next]_vars
    PROVE  TimeInv'
<1>1. ASSUME NEW c \in Chars, NEW k \in Spells, NEW m \in Powers, NEW d \in Durations,
             Cast(c, k, m, d)
      PROVE  TimeInv'
  <2>1. UNCHANGED <<timers, para>> /\ k \in Kinds
    BY <1>1, SpellsAssumption DEF Cast
  <2>2. \A x \in Chars : \A h \in Kinds :
           \/ fx'[x][h] = fx[x][h]
           \/ fx'[x][h].due = time + d /\ fx'[x][h].expire = Clock(time + d)
    BY <1>1, <2>1 DEF Cast, TypeOK
  <2> QED
    BY <2>1, <2>2, OtherIsInTime DEF Listed
<1>2. ASSUME NEW c \in Chars, NEW resists \in BOOLEAN, NEW d \in Durations,
             Paralyze(c, resists, d)
      PROVE  TimeInv'
  <2>1. UNCHANGED <<timers, fx>>
    BY <1>2 DEF Paralyze
  <2>2. \A y \in Chars : \A x \in para'[y] :
           \/ x \in para[y]
           \/ x.due = time + d /\ x.expire = Clock(time + d)
    BY <1>2 DEF Paralyze, TypeOK
  <2> QED
    BY <2>1, <2>2, OtherIsInTime DEF Listed
<1>3. ASSUME NEW weak \in SUBSET Chars, NEW c \in Chars, Dispel(c, weak)
      PROVE  TimeInv'
  <2>1. UNCHANGED <<timers, para>>
    BY <1>3 DEF Dispel
  <2>2. \A x \in Chars : \A h \in Kinds : fx'[x][h] = fx[x][h] \/ fx'[x][h] = None
    BY <1>3 DEF Dispel, TypeOK
  <2> QED
    BY <2>1, <2>2, OtherIsInTime DEF Listed
<1>4. ASSUME NEW c \in Chars, Unfreeze(c)
      PROVE  TimeInv'
  <2>1. UNCHANGED <<timers, fx>>
    BY <1>4 DEF Unfreeze
  <2>2. \A y \in Chars : para'[y] \subseteq para[y]
    BY <1>4 DEF Unfreeze, TypeOK
  <2> QED
    BY <2>1, <2>2, OtherIsInTime DEF Listed
<1>5. ASSUME UNCHANGED <<timers, fx, para>>
      PROVE  TimeInv'
  BY <1>5, OtherIsInTime DEF Listed
<1>6. ASSUME NEW c \in Chars,
             \/ CheckSafeStats(c) \/ WearItem(c) \/ LiftItem(c) \/ PackItem(c)
             \/ BounceItem(c) \/ LoseItem(c) \/ LoseWeapon(c)
             \/ Advance(c) \/ Decline(c) \/ \E taken \in BOOLEAN : UseItem(c, taken)
      PROVE  UNCHANGED <<timers, fx, para>>
  BY <1>6 DEF CheckSafeStats, WearItem, LiftItem, PackItem, BounceItem, LoseItem,
                LoseWeapon, Advance, Decline, UseItem
<1>7. SaveFails \/ UNCHANGED vars => UNCHANGED <<timers, fx, para>>
  BY DEF SaveFails, vars
<1> QED
  BY <1>1, <1>2, <1>3, <1>4, <1>5, <1>6, <1>7, TurnIsInTime, SaveIsInTime, RestartIsInTime
     DEF Next

\* No effect stays listed for longer than it was asked for and Slack, as long
\* as two turns and a save take less than a round of the clock
\* (src/timing.cpp checktimers and checkauto).
THEOREM EffectsEndInTime == Spec => []NeverLate
<1>1. Init => TimeInv
  <2> SUFFICES ASSUME Init
               PROVE  TimeInv
    OBVIOUS
  <2>1. Moments(0, 0, 0, 0)
    BY NumbersAssumption DEF Init, Moments, Round
  <2>2. AllInTime(0, 0)
    BY DEF Init, AllInTime, Listed
  <2> QED
    BY <2>1, <2>2 DEF TimeInv
<1>2. TypeOK /\ TimeInv /\ [Next]_vars => TimeInv'
  BY StepIsInTime
<1>3. TypeOK /\ TimeInv => NeverLate
  <2> SUFFICES ASSUME TypeOK, TimeInv
               PROVE  NeverLate
    OBVIOUS
  <2>1. PICK k \in Nat, o \in Nat, p \in Nat, q \in Nat : Moments(k, o, p, q) /\ AllInTime(o, q)
    BY DEF TimeInv
  <2>2. time \in Nat /\ Period \in Nat /\ MaxStep \in Nat /\ time <= q + MaxStep
    BY <2>1, NumbersAssumption DEF Moments, TypeOK
  <2>3. \A x : InTime(x, o, q) => time <= x.due + Slack
    BY <2>2 DEF InTime, Timer, Slack
  <2> QED
    BY <2>1, <2>3 DEF AllInTime, NeverLate
<1> QED
  BY <1>1, <1>2, <1>3, EffectsTypeCorrect, PTL DEF Spec
=============================================================================
