------------------------------- MODULE Spawn -------------------------------
(***************************************************************************)
(* Spawning in NoX-Wizard (src/spawn.cpp): the scripted areas, which are   *)
(* loaded once from spawn.xss, and the spawners that game masters place as *)
(* items.  Each of them is a place that makes creatures and things, keeps  *)
(* the serials of what it made in a set with a count beside it, and makes  *)
(* no more while the count is at its limit.  What it made carries its      *)
(* serial as a tag (spawnregion or spawnserial), is not saved, and is      *)
(* taken out of the set when it is deleted.                                *)
(*                                                                         *)
(* One pass over the places (cSpawns::doSpawn or doSpawnAll) is a sequence *)
(* of visits; the server does nothing else until `todo' is empty.  The     *)
(* random draws (where, what, the next time) are nondeterministic, and a   *)
(* timer is the fact that it has passed (`due').  All spawner types are    *)
(* one: what a visit makes is chosen freely.                               *)
(***************************************************************************)
EXTENDS Integers, FiniteSets

CONSTANTS
    Areas,      \* the elements of `singles' of all scripted spawns
    Regions,    \* the scripted spawns
    RegionOf,   \* the scripted spawn an area belongs to
    Max,        \* MAX of a scripted spawn
    Objects,    \* serials; the spawners among them have a map entry each
    Amount,     \* amount of a spawner item
    NoRegion, NoObject      \* INVALID

ASSUME SpawnAssumption ==
    /\ IsFiniteSet(Objects)
    /\ Areas \cap Objects = {}
    /\ RegionOf \in [Areas -> Regions]
    /\ Max \in [Regions -> Nat]
    /\ Amount \in Nat
    /\ NoRegion \notin Regions /\ NoObject \notin Objects

VARIABLES
    kind,           \* what the object with a serial is, or "none"
    spawnregion,    \* its tag, when a scripted area made it
    spawnserial,    \* its tag, when a spawner made it
    current,        \* the count of a place
    spawned,        \* items_spawned and npcs_spawned of a place
    disabled,       \* areas that found nothing to spawn
    dinamic,        \* the spawners in the map
    due,            \* places whose nextspawn is past
    todo,           \* places the pass under way has still to visit
    all,            \* that pass is a doSpawnAll
    saved           \* what the last world save wrote

objectVars == <<kind, spawnregion, spawnserial>>
countVars  == <<current, spawned>>
passVars   == <<todo, all>>
vars == <<objectVars, countVars, disabled, dinamic, due, passVars, saved>>

Kinds  == {"char", "item", "spawner"}
Places == Areas \cup Objects

Limit(p) == IF p \in Areas THEN Max[RegionOf[p]] ELSE Amount

Alive(o)  == kind[o] # "none"
Tagged(o) == spawnregion[o] # NoRegion \/ spawnserial[o] # NoObject

\* archive::item::New and character::New count upwards: a new serial is one
\* that nothing refers to.
Fresh(o) ==
    /\ ~Alive(o) /\ o \notin dinamic
    /\ \A p \in Places : o \notin spawned[p]
    /\ \A x \in Objects : spawnserial[x] # o

\* (Altered on purpose, a mutant: one more than the maximum may live.)
FullBug(p) == current[p] > Limit(p)

Full(p) == current[p] >= Limit(p)

-----------------------------------------------------------------------------
(* Passes and visits *)

\* checktimers: cSpawns::doSpawn visits the places whose time has come.
Check ==
    /\ todo = {}
    /\ todo' = due \cap ({a \in Areas : Limit(a) > 0} \cup dinamic)
    /\ all' = FALSE
    /\ UNCHANGED <<objectVars, countVars, disabled, dinamic, due, saved>>

\* The command that fills one scripted spawn: cSpawns::doSpawnAll( spawn ).
RegSpawnMax(r) ==
    /\ todo = {}
    /\ todo' = {a \in Areas : RegionOf[a] = r /\ ~Full(a)}
    /\ all' = TRUE
    /\ UNCHANGED <<objectVars, countVars, disabled, dinamic, due, saved>>

\* A visit to p is over, unless doSpawnAll's loop over current < max goes on.
Leave(p) == todo' = todo \ {p}
LeaveOrAgain(p) == Leave(p) \/ (all /\ p \in Areas /\ UNCHANGED todo)

\* cSpawnScripted::doSpawn( area ): the area is disabled or holds its maximum.
SkipArea(a) ==
    /\ a \in todo
    /\ disabled[a] \/ Full(a)
    /\ due' = due \ {a}
    /\ Leave(a)
    /\ UNCHANGED <<objectVars, countVars, disabled, dinamic, all, saved>>

\* None of the lists gave anything: the area is disabled for good.
NothingToSpawn(a) ==
    /\ a \in todo /\ ~disabled[a] /\ ~Full(a)
    /\ disabled' = [disabled EXCEPT ![a] = TRUE]
    /\ due' = IF all THEN due \ {a} ELSE due
    /\ Leave(a)
    /\ UNCHANGED <<objectVars, countVars, dinamic, all, saved>>

\* safeCreate finds no place for what was made, and deletes it again.
NoLocation(a) ==
    /\ a \in todo /\ ~disabled[a] /\ ~Full(a)
    /\ LeaveOrAgain(a)
    /\ UNCHANGED <<objectVars, countVars, disabled, dinamic, due, all, saved>>

\* Something new is made at p: counted, put into the set, tagged.
Make(p, o, k, r, s) ==
    /\ Fresh(o)
    /\ kind' = [kind EXCEPT ![o] = k]
    /\ spawnregion' = [spawnregion EXCEPT ![o] = r]
    /\ spawnserial' = [spawnserial EXCEPT ![o] = s]
    /\ current' = [current EXCEPT ![p] = @ + 1]
    /\ spawned' = [spawned EXCEPT ![p] = @ \cup {o}]
    /\ due' = due \ {p}
    /\ UNCHANGED <<disabled, dinamic, all, saved>>

\* An area makes an object; doSpawnAll goes on until the area is full.
SafeCreate(a, o, k) ==
    /\ a \in todo /\ ~disabled[a] /\ ~Full(a)
    /\ Make(a, o, k, RegionOf[a], NoObject)
    /\ IF all /\ current[a] + 1 < Limit(a) THEN UNCHANGED todo ELSE Leave(a)

\* cSpawnDinamic::doSpawn: a spawner makes an object.
DoSpawn(s, o, k) ==
    /\ s \in todo /\ kind[s] = "spawner" /\ ~Full(s)
    /\ Make(s, o, k, NoRegion, s)
    /\ Leave(s)

\* The spawner is gone, full, in a container, of a type that makes nothing or
\* names nothing (its time stays past), or its script fails.
Idle(s) ==
    /\ s \in todo \cap Objects
    /\ Leave(s)
    /\ \/ UNCHANGED due
       \/ kind[s] = "spawner" /\ ~Full(s) /\ due' = due \ {s}
    /\ UNCHANGED <<objectVars, countVars, disabled, dinamic, all, saved>>

\* nextspawn of a place passes.
Tick(p) ==
    /\ todo = {} /\ p \in Areas \cup dinamic /\ p \notin due
    /\ due' = due \cup {p}
    /\ UNCHANGED <<objectVars, countVars, disabled, dinamic, passVars, saved>>

-----------------------------------------------------------------------------
(* Objects *)

Less(n) == IF n > 0 THEN n - 1 ELSE 0

\* The map entry of o goes with it: removeSpawnDinamic( P_ITEM ).
Dropped(o) ==
    IF kind[o] = "spawner" \/ spawnserial[o] # NoObject THEN dinamic \cap {o} ELSE {}

\* (Altered on purpose, a mutant: of what was spawned, only what
\* is no spawner now is taken out.)
ListedByBug(o) ==
    {a \in Areas : RegionOf[a] = spawnregion[o] /\ o \in spawned[a]}
        \cup {s \in dinamic : spawnserial[o] = s
                                 /\ o \in spawned[s] /\ kind[o] # "spawner"}

\* (Altered on purpose, a mutant: the count goes down before the set is searched.)
UnfoundBug(o) ==
    {a \in Areas : RegionOf[a] = spawnregion[o]}
        \cup {s \in dinamic : spawnserial[o] = s /\ o \notin dinamic}

\* The places that take o out of their set: cSpawnScripted::removeObject takes
\* it out of the first area of its region that has it (Accounted: there is one
\* at most), cSpawnDinamic::remove out of its spawner, unless o had an entry.
ListedBy(o) ==
    {a \in Areas : RegionOf[a] = spawnregion[o] /\ o \in spawned[a]}
        \cup {s \in dinamic : spawnserial[o] = s
                                 /\ o \in spawned[s] /\ o \notin dinamic}

\* archive::deleteItem and archive::character::Delete: death, decay, theft by a
\* pile it is merged with, a game master's command.
Delete(o) ==
    /\ todo = {} /\ Alive(o)
    /\ kind' = [kind EXCEPT ![o] = "none"]
    /\ spawnregion' = [spawnregion EXCEPT ![o] = NoRegion]
    /\ spawnserial' = [spawnserial EXCEPT ![o] = NoObject]
    /\ dinamic' = dinamic \ Dropped(o)
    /\ due' = due \ Dropped(o)
    /\ spawned' = [p \in Places |-> IF p \in Dropped(o) THEN {}
                                    ELSE IF p \in ListedBy(o) THEN spawned[p] \ {o}
                                    ELSE spawned[p]]
    /\ current' = [p \in Places |-> IF p \in Dropped(o) THEN 0
                                    ELSE IF p \in ListedBy(o) THEN Less(current[p])
                                    ELSE current[p]]
    /\ UNCHANGED <<disabled, passVars, saved>>

\* A script makes a spawner (a game master's command is one), or a spawner is
\* copied, without its tags.
Place(o) ==
    /\ todo = {} /\ Fresh(o)
    /\ kind' = [kind EXCEPT ![o] = "spawner"]
    /\ UNCHANGED <<spawnregion, spawnserial, countVars, disabled, dinamic, due,
                   passVars, saved>>

\* A script sets the type of an item.
Retype(o) ==
    /\ todo = {} /\ kind[o] \in {"item", "spawner"}
    /\ kind' = [kind EXCEPT ![o] = IF @ = "item" THEN "spawner" ELSE "item"]
    /\ UNCHANGED <<spawnregion, spawnserial, countVars, disabled, dinamic, due,
                   passVars, saved>>

-----------------------------------------------------------------------------
(* Save and restart *)

\* What has a tag is not saved.
Written == [o \in Objects |-> IF Tagged(o) THEN "none" ELSE kind[o]]

\* loadFromItem for every spawner of a world, and the doSpawnAll of the start.
Entries(w) == {o \in Objects : w[o] = "spawner"}
FirstRound(w) == {a \in Areas : Limit(a) > 0} \cup Entries(w)

\* (Altered on purpose, a mutant: what was counted for a former spawner stays.)
ReloadBug ==
    /\ todo = {}
    /\ dinamic' = Entries(kind)
    /\ UNCHANGED countVars
    /\ due' = due \cap Areas
    /\ saved' = Written
    /\ UNCHANGED <<objectVars, disabled, passVars>>

\* (Altered on purpose, a mutant: the scripted areas are made anew as well.)
SaveBug ==
    /\ todo = {}
    /\ dinamic' = Entries(kind)
    /\ current' = [p \in Places |-> 0]
    /\ spawned' = [p \in Places |-> {}]
    /\ due' = due \cap Areas
    /\ saved' = Written
    /\ UNCHANGED <<objectVars, disabled, passVars>>

\* CWorldMain::realworldsave: the map of the spawners is made anew on the way.
Save ==
    /\ todo = {}
    /\ dinamic' = Entries(kind)
    /\ current' = [p \in Places |-> IF p \in Areas THEN current[p] ELSE 0]
    /\ spawned' = [p \in Places |-> IF p \in Areas THEN spawned[p] ELSE {}]
    /\ due' = due \cap Areas
    /\ saved' = Written
    /\ UNCHANGED <<objectVars, disabled, passVars>>

\* The server comes up with the world that was saved, in which nothing has a
\* tag, and with the scripted areas as spawn.xss has them.
Init ==
    /\ saved \in [Objects -> {"none", "spawner"}]
    /\ kind = saved
    /\ spawnregion = [o \in Objects |-> NoRegion]
    /\ spawnserial = [o \in Objects |-> NoObject]
    /\ current = [p \in Places |-> 0]
    /\ spawned = [p \in Places |-> {}]
    /\ disabled = [a \in Areas |-> FALSE]
    /\ dinamic = Entries(saved)
    /\ due = Areas
    /\ todo = FirstRound(saved)
    /\ all = TRUE

\* The server ends, in a crash or not, and comes up again.
Restart ==
    /\ kind' = saved
    /\ spawnregion' = [o \in Objects |-> NoRegion]
    /\ spawnserial' = [o \in Objects |-> NoObject]
    /\ current' = [p \in Places |-> 0]
    /\ spawned' = [p \in Places |-> {}]
    /\ disabled' = [a \in Areas |-> FALSE]
    /\ dinamic' = Entries(saved)
    /\ due' = Areas
    /\ todo' = FirstRound(saved)
    /\ all' = TRUE
    /\ UNCHANGED saved

Next ==
    \/ Check
    \/ \E r \in Regions : RegSpawnMax(r)
    \/ \E a \in Areas : SkipArea(a) \/ NothingToSpawn(a) \/ NoLocation(a)
    \/ \E a \in Areas, o \in Objects, k \in Kinds : SafeCreate(a, o, k)
    \/ \E s, o \in Objects, k \in Kinds : DoSpawn(s, o, k)
    \/ \E s \in Objects : Idle(s)
    \/ \E p \in Places : Tick(p)
    \/ \E o \in Objects : Delete(o) \/ Place(o) \/ Retype(o)
    \/ Save
    \/ Restart

Spec == Init /\ [][Next]_vars

-----------------------------------------------------------------------------
(* Properties *)

\* Every variable has its type, and a spawner without a map entry has no count.
TypeOK ==
    /\ kind \in [Objects -> Kinds \cup {"none"}]
    /\ spawnregion \in [Objects -> Regions \cup {NoRegion}]
    /\ spawnserial \in [Objects -> Objects \cup {NoObject}]
    /\ current \in [Places -> Nat]
    /\ spawned \in [Places -> SUBSET Objects]
    /\ disabled \in [Areas -> BOOLEAN]
    /\ dinamic \subseteq Objects
    /\ due \subseteq Areas \cup dinamic
    /\ todo \subseteq Areas \cup dinamic
    /\ all \in BOOLEAN
    /\ saved \in [Objects -> Kinds \cup {"none"}]
    /\ \A o \in Objects \ dinamic : current[o] = 0 /\ spawned[o] = {}

\* The count of a place is the number of serials in its set, whatever was
\* made, deleted, saved or loaded in between: the guard current > 0 of the
\* remove functions never hides a difference.
CountsAgree == \A p \in Places : current[p] = Cardinality(spawned[p])

\* No place counts more than its limit, also when doSpawnAll fills it.
AtMostLimit == \A p \in Places : current[p] <= Limit(p)

\* What a place has in its set is alive and tagged with it: a dead object
\* never takes up room.  A spawner that was itself spawned would be left
\* behind in the set of its maker by removeSpawnDinamic, if the two were ever
\* in the map together.
Accounted ==
    /\ \A a \in Areas : \A o \in spawned[a] :
          Alive(o) /\ spawnregion[o] = RegionOf[a]
    /\ \A s \in dinamic : \A o \in spawned[s] :
          Alive(o) /\ spawnserial[o] = s /\ o \notin dinamic

\* Whatever carries the tag of a scripted spawn is in the set of one of its
\* areas, and in no other: as long as it lives nothing is made in its place.
EachCounted ==
    \A o \in Objects : spawnregion[o] # NoRegion =>
        \E a \in Areas :
            /\ RegionOf[a] = spawnregion[o] /\ o \in spawned[a]
            /\ \A b \in Areas : o \in spawned[b] => b = a
=============================================================================
