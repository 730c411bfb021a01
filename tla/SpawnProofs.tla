---------------------------- MODULE SpawnProofs ----------------------------
(***************************************************************************)
(* The counts of spawning agree with the living, for any number of areas,  *)
(* spawners and objects.  The invariant is inductive as it stands: that a  *)
(* count equals the size of its set needs that a deleted object is in no   *)
(* other set than the one its tag leads to (Accounted), and that needs the *)
(* types.                                                                  *)
(***************************************************************************)
EXTENDS Spawn, FiniteSetTheorems, TLAPS

Inv == TypeOK /\ CountsAgree /\ AtMostLimit /\ Accounted /\ EachCounted

\* Sets of serials are finite.
LEMMA FiniteSpawned ==
    ASSUME TypeOK
    PROVE  \A p \in Places : IsFiniteSet(spawned[p])
BY FS_Subset, SpawnAssumption DEF TypeOK

\* A limit is a number.
LEMMA LimitIsNat == \A p \in Places : Limit(p) \in Nat
BY SpawnAssumption DEF Limit, Places

Started ==
    /\ saved \in [Objects -> Kinds \cup {"none"}]
    /\ kind = saved
    /\ spawnregion = [o \in Objects |-> NoRegion]
    /\ spawnserial = [o \in Objects |-> NoObject]
    /\ current = [p \in Places |-> 0]
    /\ spawned = [p \in Places |-> {}]
    /\ disabled = [a \in Areas |-> FALSE]
    /\ dinamic = Entries(saved)
    /\ due = Areas
    /\ todo = FirstRound(saved)
    /\ all = TRUE

\* A server that comes up has counted nothing and tagged nothing.
LEMMA StartIsGood == Started => Inv
<1> SUFFICES ASSUME Started
             PROVE  Inv
  OBVIOUS
<1> USE DEF Started
<1>1. TypeOK
  BY DEF TypeOK, Entries, FirstRound, Places
<1>2. CountsAgree
  BY FS_EmptySet DEF CountsAgree
<1>3. AtMostLimit
  BY LimitIsNat DEF AtMostLimit
<1>4. Accounted
  BY DEF Accounted, Entries, Places
<1>5. EachCounted
  BY DEF EachCounted
<1> QED
  BY <1>1, <1>2, <1>3, <1>4, <1>5 DEF Inv

\* Making an object at a place that is not full.
LEMMA MakeIsGood ==
    ASSUME Inv,
           NEW p \in Places, NEW o \in Objects, NEW k \in Kinds,
           NEW r \in Regions \cup {NoRegion}, NEW s \in Objects \cup {NoObject},
           \/ p \in Areas /\ r = RegionOf[p] /\ s = NoObject
           \/ p \in dinamic /\ r = NoRegion /\ s = p,
           ~Full(p),
           Make(p, o, k, r, s),
           todo' \subseteq todo
    PROVE  Inv'
<1> USE DEF Inv
<1>1. TypeOK'
  <2>1. o \notin spawned[p] /\ o \notin dinamic /\ ~Alive(o)
    BY DEF Make, Fresh
  <2>2. current' \in [Places -> Nat] /\ spawned' \in [Places -> SUBSET Objects]
    BY DEF Make, TypeOK
  <2>3. \A x \in Objects \ dinamic' : current'[x] = 0 /\ spawned'[x] = {}
    <3>1. p \notin Objects \ dinamic
      BY SpawnAssumption
    <3> QED
      BY <3>1 DEF Make, TypeOK, Places
  <2> QED
    BY <2>2, <2>3 DEF Make, TypeOK
<1>2. CountsAgree'
  <2> SUFFICES ASSUME NEW q \in Places
               PROVE  current'[q] = Cardinality(spawned'[q])
    BY DEF CountsAgree
  <2>1. CASE q = p
    <3>1. o \notin spawned[p] /\ IsFiniteSet(spawned[p])
      BY FiniteSpawned DEF Make, Fresh
    <3>2. Cardinality(spawned[p] \cup {o}) = Cardinality(spawned[p]) + 1
      BY <3>1, FS_AddElement
    <3>3. current'[p] = current[p] + 1 /\ spawned'[p] = spawned[p] \cup {o}
      BY DEF Make, TypeOK
    <3> QED
      BY <2>1, <3>2, <3>3 DEF CountsAgree
  <2>2. CASE q # p
    BY <2>2 DEF Make, TypeOK, CountsAgree
  <2> QED
    BY <2>1, <2>2
<1>3. AtMostLimit'
  BY LimitIsNat DEF AtMostLimit, Make, Full, TypeOK, Limit
<1>4. Accounted'
  <2>1. /\ \A q \in Places : o \notin spawned[q]
        /\ o \notin dinamic
        /\ \A q \in Places : spawned'[q] = IF q = p THEN spawned[q] \cup {o} ELSE spawned[q]
    BY DEF Make, Fresh, TypeOK
  <2>2. \A x \in Objects \ {o} : /\ kind'[x] = kind[x]
                                 /\ spawnregion'[x] = spawnregion[x]
                                 /\ spawnserial'[x] = spawnserial[x]
    BY DEF Make, TypeOK
  <2>3. kind'[o] = k /\ k # "none" /\ spawnregion'[o] = r /\ spawnserial'[o] = s
    BY DEF Make, TypeOK, Kinds
  <2>4. ASSUME NEW a \in Areas, NEW x \in spawned'[a]
        PROVE  Alive(x)' /\ spawnregion'[x] = RegionOf[a]
    <3>1. CASE x = o
      <4>1. a = p
        BY <2>1, <2>4, <3>1 DEF Places
      <4>2. r = RegionOf[a]
        BY <4>1, SpawnAssumption DEF TypeOK
      <4> QED
        BY <2>3, <3>1, <4>2 DEF Alive
    <3>2. CASE x # o
      <4>1. x \in spawned[a] /\ x \in Objects
        BY <2>1, <2>4, <3>2 DEF Places, TypeOK
      <4> QED
        BY <4>1, <2>2, <3>2 DEF Alive, Accounted
    <3> QED
      BY <3>1, <3>2
  <2>5. ASSUME NEW d \in dinamic', NEW x \in spawned'[d]
        PROVE  Alive(x)' /\ spawnserial'[x] = d /\ x \notin dinamic'
    <3>0. dinamic' = dinamic /\ d \in Places /\ d \notin Areas
      BY SpawnAssumption DEF Make, TypeOK, Places
    <3>1. CASE x = o
      <4>1. d = p
        BY <2>1, <2>5, <3>0, <3>1
      <4>2. s = d
        BY <4>1, <3>0
      <4> QED
        BY <2>1, <2>3, <3>0, <3>1, <4>2 DEF Alive
    <3>2. CASE x # o
      <4>1. x \in spawned[d] /\ x \in Objects
        BY <2>1, <2>5, <3>0, <3>2 DEF TypeOK
      <4> QED
        BY <4>1, <2>2, <3>0, <3>2 DEF Alive, Accounted
    <3> QED
      BY <3>1, <3>2
  <2> QED
    BY <2>4, <2>5 DEF Accounted
<1>5. EachCounted'
  <2> SUFFICES ASSUME NEW x \in Objects, spawnregion'[x] # NoRegion
               PROVE  \E a \in Areas :
                         /\ RegionOf[a] = spawnregion'[x] /\ x \in spawned'[a]
                         /\ \A b \in Areas : x \in spawned'[b] => b = a
    BY DEF EachCounted
  <2>1. \A q \in Areas : /\ o \notin spawned[q]
                         /\ spawned'[q] = IF q = p THEN spawned[q] \cup {o} ELSE spawned[q]
    BY DEF Make, Fresh, TypeOK, Places
  <2>2. CASE x = o
    <3>1. spawnregion'[o] = r
      BY DEF Make, TypeOK
    <3>2. p \in Areas /\ RegionOf[p] = r
      BY <2>2, <3>1
    <3> QED
      BY <2>1, <2>2, <3>1, <3>2
  <2>3. CASE x # o
    <3>1. spawnregion'[x] = spawnregion[x]
      BY <2>3 DEF Make, TypeOK
    <3>2. \A b \in Areas : x \in spawned'[b] <=> x \in spawned[b]
      BY <2>1, <2>3
    <3> QED
      BY <3>1, <3>2 DEF EachCounted
  <2> QED
    BY <2>2, <2>3
<1> QED
  BY <1>1, <1>2, <1>3, <1>4, <1>5

\* Deleting an object: it is taken out of every set it is in.
LEMMA DeleteIsGood ==
    ASSUME Inv, NEW o \in Objects, Delete(o)
    PROVE  Inv'
<1> USE DEF Inv
<1> DEFINE gone == Dropped(o)
           from == ListedBy(o)
<1>1. gone \subseteq dinamic \cap {o} /\ gone \subseteq Objects
  BY DEF Dropped, TypeOK
<1>2. from \subseteq Places /\ \A p \in from : o \in spawned[p]
  BY DEF ListedBy, Places, TypeOK
<1>3. \A p \in Places : o \in spawned[p] => p \in from
  <2> SUFFICES ASSUME NEW p \in Places, o \in spawned[p]
               PROVE  p \in from
    OBVIOUS
  <2>1. CASE p \in Areas
    BY <2>1 DEF ListedBy, Accounted
  <2>2. CASE p \notin Areas
    <3>1. p \in dinamic
      BY <2>2 DEF TypeOK, Places
    <3> QED
      BY <3>1 DEF ListedBy, Accounted
  <2> QED
    BY <2>1, <2>2
<1>4. \A p \in Places :
         /\ spawned'[p] = IF p \in gone THEN {}
                          ELSE IF p \in from THEN spawned[p] \ {o} ELSE spawned[p]
         /\ current'[p] = IF p \in gone THEN 0
                          ELSE IF p \in from THEN Less(current[p]) ELSE current[p]
  BY DEF Delete
<1>5. \A p \in Places : o \notin spawned'[p] /\ spawned'[p] \subseteq spawned[p]
  BY <1>3, <1>4
<1>6. \A x \in Objects \ {o} : /\ kind'[x] = kind[x]
                               /\ spawnregion'[x] = spawnregion[x]
                               /\ spawnserial'[x] = spawnserial[x]
  BY DEF Delete, TypeOK
<1>7. dinamic' = dinamic \ gone
  BY DEF Delete
<1>8. TypeOK'
  <2>1. current' \in [Places -> Nat]
    <3>1. \A p \in Places : current[p] \in Nat /\ Less(current[p]) \in Nat
      BY DEF Less, TypeOK
    <3> QED
      BY <3>1 DEF Delete
  <2>2. spawned' \in [Places -> SUBSET Objects]
    BY <1>5 DEF Delete, TypeOK
  <2>3. \A x \in Objects \ dinamic' : current'[x] = 0 /\ spawned'[x] = {}
    <3> SUFFICES ASSUME NEW x \in Objects \ dinamic'
                 PROVE  current'[x] = 0 /\ spawned'[x] = {}
      OBVIOUS
    <3>1. CASE x \in gone
      BY <3>1, <1>4 DEF Places
    <3>2. CASE x \notin gone
      <4>1. current[x] = 0 /\ spawned[x] = {} /\ x \in Places
        BY <3>2, <1>7 DEF TypeOK, Places
      <4> QED
        BY <4>1, <3>2, <1>2, <1>4
    <3> QED
      BY <3>1, <3>2
  <2>4. due' \subseteq Areas \cup dinamic' /\ todo' \subseteq Areas \cup dinamic'
    BY <1>7 DEF Delete, TypeOK, passVars
  <2> QED
    BY <2>1, <2>2, <2>3, <2>4, <1>7 DEF Delete, TypeOK, passVars
<1>9. CountsAgree'
  <2> SUFFICES ASSUME NEW p \in Places
               PROVE  current'[p] = Cardinality(spawned'[p])
    BY DEF CountsAgree
  <2>1. CASE p \in gone
    BY <2>1, <1>4, FS_EmptySet
  <2>2. CASE p \notin gone /\ p \in from
    <3>1. IsFiniteSet(spawned[p]) /\ o \in spawned[p]
      BY <2>2, <1>2, FiniteSpawned
    <3>2. Cardinality(spawned[p] \ {o}) = Cardinality(spawned[p]) - 1
      BY <3>1, FS_RemoveElement
    <3>3. Cardinality(spawned[p]) # 0
      BY <3>1, FS_EmptySet
    <3>4. current[p] \in Nat /\ current[p] # 0
      BY <3>3 DEF CountsAgree, TypeOK
    <3> QED
      BY <2>2, <1>4, <3>2, <3>4 DEF CountsAgree, Less
  <2>3. CASE p \notin gone /\ p \notin from
    BY <2>3, <1>4 DEF CountsAgree
  <2> QED
    BY <2>1, <2>2, <2>3
<1>10. AtMostLimit'
  <2> SUFFICES ASSUME NEW p \in Places
               PROVE  current'[p] <= Limit(p)
    BY DEF AtMostLimit, Limit
  <2>1. current[p] \in Nat /\ Limit(p) \in Nat /\ current[p] <= Limit(p)
    BY LimitIsNat DEF TypeOK, AtMostLimit
  <2>2. Less(current[p]) <= Limit(p) /\ 0 <= Limit(p)
    BY <2>1 DEF Less
  <2> QED
    BY <2>1, <2>2, <1>4
<1>11. Accounted'
  <2>1. ASSUME NEW p \in Places, NEW x \in spawned'[p]
        PROVE  x \in spawned[p] /\ x \in Objects \ {o} /\ Alive(x)' = Alive(x)
    <3>1. x \in spawned[p] /\ x \in Objects \ {o}
      BY <1>5 DEF TypeOK
    <3> QED
      BY <3>1, <1>6 DEF Alive
  <2>2. ASSUME NEW a \in Areas, NEW x \in spawned'[a]
        PROVE  Alive(x)' /\ spawnregion'[x] = RegionOf[a]
    <3>1. x \in spawned[a] /\ x \in Objects \ {o} /\ Alive(x)' = Alive(x)
      BY <2>1, <2>2 DEF Places
    <3> QED
      BY <3>1, <1>6 DEF Accounted
  <2>3. ASSUME NEW d \in dinamic', NEW x \in spawned'[d]
        PROVE  Alive(x)' /\ spawnserial'[x] = d /\ x \notin dinamic'
    <3>1. d \in dinamic /\ d \in Places
      BY <1>7 DEF TypeOK, Places
    <3>2. x \in spawned[d] /\ x \in Objects \ {o} /\ Alive(x)' = Alive(x)
      BY <3>1, <2>1, <2>3
    <3> QED
      BY <3>1, <3>2, <1>6, <1>7 DEF Accounted
  <2> QED
    BY <2>2, <2>3 DEF Accounted
<1>12. EachCounted'
  <2> SUFFICES ASSUME NEW x \in Objects, spawnregion'[x] # NoRegion
               PROVE  \E a \in Areas :
                         /\ RegionOf[a] = spawnregion'[x] /\ x \in spawned'[a]
                         /\ \A b \in Areas : x \in spawned'[b] => b = a
    BY DEF EachCounted
  <2>1. x # o
    BY DEF Delete, TypeOK
  <2>2. \A b \in Areas : x \in spawned'[b] <=> x \in spawned[b]
    BY <2>1, <1>1, <1>4, SpawnAssumption DEF Places
  <2>3. spawnregion'[x] = spawnregion[x]
    BY <2>1, <1>6
  <2> QED
    BY <2>2, <2>3 DEF EachCounted
<1> QED
  BY <1>8, <1>9, <1>10, <1>11, <1>12

\* Counts and sets stay, and no tag changes: nothing to count.
LEMMA SameCounts ==
    ASSUME Inv, TypeOK', UNCHANGED <<spawnregion, spawnserial, countVars, dinamic>>,
           \A x \in Objects : Alive(x) => Alive(x)'
    PROVE  Inv'
<1>1. CountsAgree' /\ AtMostLimit' /\ EachCounted'
  BY DEF Inv, CountsAgree, AtMostLimit, EachCounted, countVars, Limit
<1>2. Accounted'
  <2>1. \A p \in Places : spawned[p] \subseteq Objects
    BY DEF Inv, TypeOK
  <2>2. \A a \in Areas : \A x \in spawned[a] : x \in Objects
    BY <2>1 DEF Places
  <2>3. \A d \in dinamic : \A x \in spawned[d] : x \in Objects
    BY <2>1 DEF Places, Inv, TypeOK
  <2> QED
    BY <2>2, <2>3 DEF Inv, Accounted, countVars
<1> QED
  BY <1>1, <1>2 DEF Inv

\* The world save: only the counts of the spawners are reset.
LEMMA SaveIsGood ==
    ASSUME Inv, Save
    PROVE  Inv'
<1> USE DEF Inv
<1>1. /\ dinamic' \subseteq Objects
      /\ \A a \in Areas : current'[a] = current[a] /\ spawned'[a] = spawned[a]
      /\ \A d \in Objects : current'[d] = 0 /\ spawned'[d] = {}
  BY SpawnAssumption DEF Save, Entries, Places
<1>2. TypeOK'
  <2>1. Written \in [Objects -> Kinds \cup {"none"}]
    BY DEF Written, TypeOK
  <2>2. current' \in [Places -> Nat] /\ spawned' \in [Places -> SUBSET Objects]
    BY DEF Save, TypeOK
  <2>3. due' \subseteq Areas /\ todo' = {}
    BY DEF Save, passVars
  <2> QED
    BY <1>1, <2>1, <2>2, <2>3 DEF Save, TypeOK, objectVars, passVars
<1>3. CountsAgree' /\ AtMostLimit'
  <2>1. \A p \in Places : p \in Areas \/ p \in Objects
    BY DEF Places
  <2>2. CountsAgree'
    BY <1>1, <2>1, FS_EmptySet DEF CountsAgree, Places
  <2>3. AtMostLimit'
    BY <1>1, <2>1, LimitIsNat DEF AtMostLimit, Limit, Places
  <2> QED
    BY <2>2, <2>3
<1>4. Accounted'
  BY <1>1 DEF Accounted, Save, objectVars, Alive
<1>5. EachCounted'
  BY <1>1 DEF EachCounted, Save, objectVars
<1> QED
  BY <1>2, <1>3, <1>4, <1>5

-----------------------------------------------------------------------------
\* Every step keeps the invariant.
LEMMA StepIsGood ==
    ASSUME Inv, [Next]_vars
    PROVE  Inv'
<1> USE DEF Inv
<1>1. CASE Check
  <2>1. TypeOK'
    BY <1>1 DEF Check, TypeOK, objectVars, countVars
  <2> QED
    BY <1>1, <2>1, SameCounts DEF Check, objectVars, Alive
<1>2. ASSUME NEW r \in Regions, RegSpawnMax(r)
      PROVE  Inv'
  <2>1. TypeOK'
    BY <1>2 DEF RegSpawnMax, TypeOK, objectVars, countVars
  <2> QED
    BY <1>2, <2>1, SameCounts DEF RegSpawnMax, objectVars, Alive
<1>3. ASSUME NEW a \in Areas, SkipArea(a) \/ NothingToSpawn(a) \/ NoLocation(a)
      PROVE  Inv'
  <2>1. TypeOK'
    BY <1>3 DEF SkipArea, NothingToSpawn, NoLocation, LeaveOrAgain, Leave, TypeOK,
                objectVars, countVars
  <2> QED
    BY <1>3, <2>1, SameCounts DEF SkipArea, NothingToSpawn, NoLocation, objectVars, Alive
<1>4. ASSUME NEW a \in Areas, NEW o \in Objects, NEW k \in Kinds, SafeCreate(a, o, k)
      PROVE  Inv'
  <2>1. RegionOf[a] \in Regions /\ a \in Places
    BY SpawnAssumption DEF Places
  <2>2. todo' \subseteq todo
    BY <1>4 DEF SafeCreate, Leave
  <2> QED
    BY <1>4, <2>1, <2>2, MakeIsGood DEF SafeCreate
<1>5. ASSUME NEW s \in Objects, NEW o \in Objects, NEW k \in Kinds, DoSpawn(s, o, k)
      PROVE  Inv'
  <2>1. s \in dinamic /\ s \in Places
    BY <1>5, SpawnAssumption DEF DoSpawn, TypeOK, Places
  <2>2. todo' \subseteq todo
    BY <1>5 DEF DoSpawn, Leave
  <2> QED
    BY <1>5, <2>1, <2>2, MakeIsGood DEF DoSpawn
<1>6. ASSUME NEW s \in Objects, Idle(s)
      PROVE  Inv'
  <2>1. TypeOK'
    BY <1>6 DEF Idle, Leave, TypeOK, objectVars, countVars
  <2> QED
    BY <1>6, <2>1, SameCounts DEF Idle, objectVars, Alive
<1>7. ASSUME NEW p \in Places, Tick(p)
      PROVE  Inv'
  <2>1. TypeOK'
    BY <1>7 DEF Tick, TypeOK, objectVars, countVars, passVars
  <2> QED
    BY <1>7, <2>1, SameCounts DEF Tick, objectVars, Alive
<1>8. ASSUME NEW o \in Objects, Place(o) \/ Retype(o)
      PROVE  Inv'
  <2>1. TypeOK'
    BY <1>8 DEF Place, Retype, TypeOK, Kinds, countVars, passVars
  <2>2. \A x \in Objects : Alive(x) => Alive(x)'
    BY <1>8 DEF Place, Retype, Alive, TypeOK
  <2> QED
    BY <1>8, <2>1, <2>2, SameCounts DEF Place, Retype
<1>9. CASE Restart
  <2>1. saved' \in [Objects -> Kinds \cup {"none"}]
    BY <1>9 DEF Restart, TypeOK
  <2>2. Started'
    BY <1>9, <2>1 DEF Restart, Started, Entries, FirstRound, Limit, Places
  <2>3. Started' => Inv'
    BY StartIsGood, PTL
  <2> QED
    BY <2>2, <2>3
<1>10. CASE UNCHANGED vars
  <2>1. TypeOK'
    BY <1>10 DEF TypeOK, vars, objectVars, countVars, passVars
  <2> QED
    BY <1>10, <2>1, SameCounts DEF vars, objectVars, Alive
<1> QED
  BY <1>1, <1>2, <1>3, <1>4, <1>5, <1>6, <1>7, <1>8, <1>9, <1>10,
     DeleteIsGood, SaveIsGood DEF Next

\* The invariant holds in every reachable state.
THEOREM Invariance == Spec => []Inv
<1>1. Init => Inv
  <2> SUFFICES ASSUME Init
               PROVE  Inv
    OBVIOUS
  <2>1. saved \in [Objects -> Kinds \cup {"none"}]
    BY DEF Init, Kinds
  <2> QED
    BY <2>1, StartIsGood DEF Init, Started
<1>2. Inv /\ [Next]_vars => Inv'
  BY StepIsGood
<1> QED
  BY <1>1, <1>2, PTL DEF Spec

\* Every variable keeps its type, and what has no entry in the map no count
\* (includes/spawn.h).
THEOREM SpawnTypeCorrect == Spec => []TypeOK
<1>1. Inv => TypeOK
  BY DEF Inv
<1> QED
  BY <1>1, Invariance, PTL

\* The count of a place is the size of its set (src/spawn.cpp, current).
THEOREM CountsAlwaysAgree == Spec => []CountsAgree
<1>1. Inv => CountsAgree
  BY DEF Inv
<1> QED
  BY <1>1, Invariance, PTL

\* No place ever counts more than its limit.
THEOREM NeverAboveLimit == Spec => []AtMostLimit
<1>1. Inv => AtMostLimit
  BY DEF Inv
<1> QED
  BY <1>1, Invariance, PTL

\* No dead object takes up room in a set.
THEOREM TheDeadAreNotCounted == Spec => []Accounted
<1>1. Inv => Accounted
  BY DEF Inv
<1> QED
  BY <1>1, Invariance, PTL

\* What a scripted spawn made is counted in one of its areas while it lives.
THEOREM TheLivingAreCounted == Spec => []EachCounted
<1>1. Inv => EachCounted
  BY DEF Inv
<1> QED
  BY <1>1, Invariance, PTL
=============================================================================
