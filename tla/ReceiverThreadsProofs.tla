----------------------- MODULE ReceiverThreadsProofs -----------------------
(***************************************************************************)
(* No receiver is deleted while its thread runs, and none that is deleted  *)
(* is in a set, in the killer's hands or ahead of a listener's destructor, *)
(* for any number of listeners and receivers.  The inductive invariant     *)
(* follows a receiver from the set of its listener (Placed, WalkInSet)     *)
(* through the queue of the killer, where it is once at most (HandedOnce), *)
(* to its deletion (KillerWaits).                                          *)
(***************************************************************************)
EXTENDS ReceiverThreads, SequenceTheorems, TLAPS

Queued == ToSet(deadSockets)

\* The receiver has been handed to the killer.
Handed(r) == r \in Queued \/ r = killing \/ r \in deleted

Placed ==
    \A r \in Receivers :
        /\ \A l \in Ls : r \in threads[l] =>
              l = of[r] /\ at[r] \in {"inserted", "running", "leaving", "erasing", "ended"}
        /\ at[r] = "erased" => r \notin threads[of[r]]
        /\ Handed(r) => at[r] \in {"returning", "ended"} /\ r \notin threads[of[r]]
        /\ r \in deleted => at[r] = "ended"

HandedOnce ==
    /\ \A i, j \in 1 .. Len(deadSockets) : deadSockets[i] = deadSockets[j] => i = j
    /\ killing \notin Queued
    /\ \A r \in deleted \cap Receivers : r \notin Queued /\ r # killing

KillerWaits ==
    /\ killer \in {"join", "delete"} => killing \in Receivers
    /\ killer = "delete" => at[killing] = "ended"

SomeToClose == main \in {"close", "join", "delete"} => closing # <<>>

\* What a destructor has before it is still in the set it walks.
WalkInSet == \A r \in walk : r \in threads[of[r]]

Hands == Placed /\ HandedOnce /\ KillerWaits
Inv == TypeOK /\ SomeToClose /\ WalkInSet /\ Hands

-----------------------------------------------------------------------------
\* Members of a sequence, of its tail and of it with one more.
LEMMA MembersTyped ==
    ASSUME NEW S, NEW s \in Seq(S)
    PROVE  ToSet(s) = {s[i] : i \in 1 .. Len(s)} /\ ToSet(s) \subseteq S
BY DEF ToSet

\* The members of a queue after a push.
LEMMA MembersOfAppend ==
    ASSUME NEW S, NEW s \in Seq(S), NEW e \in S
    PROVE  ToSet(Append(s, e)) = ToSet(s) \cup {e}
<1>1. Append(s, e) \in Seq(S) /\ Len(Append(s, e)) = Len(s) + 1
  OBVIOUS
<1>2. \A i \in 1 .. Len(s) + 1 : Append(s, e)[i] = IF i <= Len(s) THEN s[i] ELSE e
  OBVIOUS
<1>3. ToSet(Append(s, e)) = {Append(s, e)[i] : i \in 1 .. Len(s) + 1}
  BY <1>1, MembersTyped
<1>4. ToSet(s) = {s[i] : i \in 1 .. Len(s)} /\ Len(s) \in Nat
  BY MembersTyped
<1> QED
  BY <1>2, <1>3, <1>4

\* The members of a queue, each in it once, after a pop.
LEMMA MembersOfTail ==
    ASSUME NEW S, NEW s \in Seq(S), s # <<>>,
           \A i, j \in 1 .. Len(s) : s[i] = s[j] => i = j
    PROVE  /\ Head(s) \in ToSet(s) /\ Head(s) \notin ToSet(Tail(s))
           /\ ToSet(Tail(s)) \subseteq ToSet(s)
           /\ \A i, j \in 1 .. Len(Tail(s)) : Tail(s)[i] = Tail(s)[j] => i = j
<1>1. /\ Tail(s) \in Seq(S) /\ Len(Tail(s)) = Len(s) - 1 /\ Len(s) \in Nat \ {0}
      /\ Head(s) = s[1] /\ \A i \in 1 .. Len(s) - 1 : Tail(s)[i] = s[i + 1]
  BY HeadTailProperties
<1>2. /\ ToSet(s) = {s[i] : i \in 1 .. Len(s)}
      /\ ToSet(Tail(s)) = {Tail(s)[i] : i \in 1 .. Len(s) - 1}
  <2>1. \A t \in Seq(S) : ToSet(t) = {t[i] : i \in 1 .. Len(t)}
    BY MembersTyped
  <2> QED
    BY <1>1, <2>1
<1>3. \A i \in 1 .. Len(s) - 1 : i + 1 \in 1 .. Len(s) /\ i + 1 # 1
  BY <1>1
<1>4. Head(s) \in ToSet(s)
  BY <1>1, <1>2
<1>5. ASSUME NEW e \in ToSet(Tail(s))
      PROVE  e \in ToSet(s) /\ e # Head(s)
  <2>1. PICK i \in 1 .. Len(s) - 1 : e = Tail(s)[i]
    BY <1>2, <1>5
  <2>2. e = s[i + 1] /\ i + 1 \in 1 .. Len(s) /\ i + 1 # 1 /\ 1 \in 1 .. Len(s)
    BY <1>1, <1>3, <2>1
  <2> QED
    BY <1>1, <1>2, <2>2
<1>6. ASSUME NEW i \in 1 .. Len(Tail(s)), NEW j \in 1 .. Len(Tail(s)), Tail(s)[i] = Tail(s)[j]
      PROVE  i = j
  <2>1. s[i + 1] = s[j + 1] /\ i + 1 \in 1 .. Len(s) /\ j + 1 \in 1 .. Len(s)
    BY <1>1, <1>3, <1>6
  <2>2. i + 1 = j + 1
    BY <2>1
  <2> QED
    BY <1>1, <2>2
<1> QED
  BY <1>4, <1>5, <1>6

-----------------------------------------------------------------------------
\* A step of the thread of r that hands nothing over.
LEMMA MoveKeepsHands ==
    ASSUME Inv, NEW r \in Receivers, NEW there, Goto(r, there),
           <<at[r], there>> \in {<<"made", "inserting">>, <<"inserted", "running">>,
              <<"running", "ended">>, <<"running", "leaving">>,
              <<"leaving", "erasing">>, <<"returning", "ended">>},
           UNCHANGED <<threads, of, deadSockets, killing, killer, deleted>>
    PROVE  Hands'
<1> USE DEF Inv, Hands
<1>1. \A x \in Receivers : at'[x] = IF x = r THEN there ELSE at[x]
  BY DEF Goto, TypeOK
<1>2. at[r] # "ended" /\ there # "erased"
  OBVIOUS
<1>3. Placed'
  BY <1>1 DEF Placed, Handed, Queued
<1>4. HandedOnce'
  BY DEF HandedOnce, Queued
<1>5. KillerWaits'
  BY <1>1, <1>2 DEF KillerWaits
<1> QED
  BY <1>3, <1>4, <1>5

\* A step that moves no receiver.
LEMMA QuietKeepsHands ==
    ASSUME Inv, UNCHANGED <<threads, of, at, deadSockets, killing>>,
           killer' \in {killer, "ended"}, deleted' \cap Receivers = deleted \cap Receivers
    PROVE  Hands'
<1> USE DEF Inv, Hands
<1>1. \A r \in Receivers : r \in deleted' <=> r \in deleted
  OBVIOUS
<1>2. Placed'
  BY <1>1 DEF Placed, Handed, Queued
<1>3. HandedOnce'
  BY <1>1 DEF HandedOnce, Queued
<1>4. KillerWaits'
  BY DEF KillerWaits
<1> QED
  BY <1>2, <1>3, <1>4
-----------------------------------------------------------------------------
\* The steps that put a receiver into a set, take it out, or hand it over.
LEMMA AcceptKeepsHands ==
    ASSUME Inv, NEW l \in Ls, NEW r \in Receivers, Accept(l, r)
    PROVE  Hands'
<1> USE DEF Inv, Hands
<1>1. /\ at[r] = "unborn" /\ UNCHANGED <<threads, deadSockets, killing, killer, deleted>>
      /\ \A x \in Receivers : at'[x] = (IF x = r THEN "made" ELSE at[x])
      /\ \A x \in Receivers : of'[x] = IF x = r THEN l ELSE of[x]
  BY DEF Accept, Goto, TypeOK, reaper
<1>2. (\A k \in Ls : r \notin threads[k]) /\ ~Handed(r)
  BY <1>1 DEF Placed
<1>3. Placed'
  BY <1>1, <1>2 DEF Placed, Handed, Queued, TypeOK
<1>4. HandedOnce'
  BY <1>1 DEF HandedOnce, Queued
<1>5. KillerWaits'
  BY <1>1 DEF KillerWaits
<1> QED
  BY <1>3, <1>4, <1>5

\* The constructor of a receiver adds it to the set of its listener.
LEMMA InsertKeepsHands ==
    ASSUME Inv, NEW r \in Receivers, Insert(r)
    PROVE  Hands'
<1> USE DEF Inv, Hands
<1>1. /\ at[r] = "inserting" /\ UNCHANGED <<of, deadSockets, killing, killer, deleted>>
      /\ \A x \in Receivers : at'[x] = IF x = r THEN "inserted" ELSE at[x]
      /\ \A l \in Ls : threads'[l] = threads[l] \cup (IF l = of[r] THEN {r} ELSE {})
  BY DEF Insert, Goto, TypeOK, reaper
<1>2. ~Handed(r)
  BY <1>1 DEF Placed
<1>3. Placed'
  BY <1>1, <1>2 DEF Placed, Handed, Queued, TypeOK
<1>4. HandedOnce'
  BY <1>1 DEF HandedOnce, Queued
<1>5. KillerWaits'
  BY <1>1 DEF KillerWaits
<1> QED
  BY <1>3, <1>4, <1>5

\* A receiver at its end takes itself out of the set.
LEMMA EraseKeepsHands ==
    ASSUME Inv, NEW r \in Receivers, Erase(r)
    PROVE  Hands'
<1> USE DEF Inv, Hands
<1>1. /\ at[r] = "erasing" /\ UNCHANGED <<of, deadSockets, killing, killer, deleted>>
      /\ \A x \in Receivers : at'[x] = IF x = r THEN "erased" ELSE at[x]
      /\ \A l \in Ls : threads'[l] = threads[l] \ (IF l = of[r] THEN {r} ELSE {})
  BY DEF Erase, Goto, TypeOK, reaper
<1>2. ~Handed(r) /\ of[r] \in Ls /\ \A l \in Ls : r \in threads[l] => l = of[r]
  BY <1>1 DEF Placed, TypeOK
<1>3. Placed'
  BY <1>1, <1>2 DEF Placed, Handed, Queued, TypeOK
<1>4. HandedOnce'
  BY <1>1 DEF HandedOnce, Queued
<1>5. KillerWaits'
  BY <1>1 DEF KillerWaits
<1> QED
  BY <1>3, <1>4, <1>5

\* It hands itself to the killer once, because it is in no queue yet.
LEMMA PushKeepsHands ==
    ASSUME Inv, NEW r \in Receivers, Push(r)
    PROVE  Hands'
<1> USE DEF Inv, Hands
<1>1. /\ at[r] = "erased" /\ UNCHANGED <<threads, of, killing, killer, deleted>>
      /\ deadSockets' = Append(deadSockets, r)
      /\ \A x \in Receivers : at'[x] = IF x = r THEN "returning" ELSE at[x]
  BY DEF Push, Goto, TypeOK, listener
<1>2. ~Handed(r) /\ r \notin threads[of[r]] /\ \A l \in Ls : r \notin threads[l]
  BY <1>1 DEF Placed
<1>3. Queued' = Queued \cup {r}
  BY <1>1, MembersOfAppend DEF Queued, TypeOK
<1>4. Placed'
  BY <1>1, <1>2, <1>3 DEF Placed, Handed, TypeOK
<1>5. HandedOnce'
  <2>1. \A i \in 1 .. Len(deadSockets) : deadSockets[i] \in Queued /\ deadSockets[i] # r
    BY <1>2, MembersTyped DEF Handed, Queued, TypeOK
  <2>2. /\ Len(deadSockets') = Len(deadSockets) + 1 /\ Len(deadSockets) \in Nat
        /\ \A i \in 1 .. Len(deadSockets) + 1 :
              deadSockets'[i] = IF i <= Len(deadSockets) THEN deadSockets[i] ELSE r
    BY <1>1 DEF TypeOK
  <2>3. \A i, j \in 1 .. Len(deadSockets') : deadSockets'[i] = deadSockets'[j] => i = j
    BY <2>1, <2>2 DEF HandedOnce
  <2>4. killing' \notin Queued' /\ \A x \in deleted' \cap Receivers : x \notin Queued' /\ x # killing'
    BY <1>1, <1>2, <1>3 DEF HandedOnce, Handed
  <2> QED
    BY <2>3, <2>4 DEF HandedOnce
<1>6. KillerWaits'
  BY <1>1 DEF KillerWaits
<1> QED
  BY <1>4, <1>5, <1>6

\* The killer takes the first from the queue.
LEMMA PopKeepsHands ==
    ASSUME Inv, Pop
    PROVE  Hands'
<1> USE DEF Inv, Hands
<1>1. /\ deadSockets # <<>> /\ UNCHANGED <<threads, of, at, deleted>>
      /\ killing' = Head(deadSockets) /\ deadSockets' = Tail(deadSockets) /\ killer' = "join"
  BY DEF Pop, listener, receiver
<1>2. /\ Head(deadSockets) \in Queued /\ Head(deadSockets) \notin Queued'
      /\ Queued' \subseteq Queued
      /\ \A i, j \in 1 .. Len(Tail(deadSockets)) :
            Tail(deadSockets)[i] = Tail(deadSockets)[j] => i = j
  BY <1>1, MembersOfTail DEF HandedOnce, Queued, TypeOK
<1>3. Placed'
  BY <1>1, <1>2 DEF Placed, Handed
<1>4. HandedOnce'
  BY <1>1, <1>2 DEF HandedOnce
<1>5. KillerWaits'
  BY <1>1, <1>2, MembersTyped DEF KillerWaits, Queued, TypeOK
<1> QED
  BY <1>3, <1>4, <1>5

\* The killer has waited for the thread.
LEMMA JoinKeepsHands ==
    ASSUME Inv, Join
    PROVE  Hands'
<1> USE DEF Inv, Hands
<1>1. /\ UNCHANGED <<threads, of, at, deadSockets, killing, deleted>>
      /\ killer = "join" /\ at[killing] = "ended" /\ killer' = "delete"
  BY DEF Join, listener, receiver
<1>2. Placed'
  BY <1>1 DEF Placed, Handed, Queued
<1>3. HandedOnce'
  BY <1>1 DEF HandedOnce, Queued
<1>4. KillerWaits'
  BY <1>1 DEF KillerWaits
<1> QED
  BY <1>2, <1>3, <1>4

\* The receiver deleted was the one in the killer's hand, and nowhere else.
LEMMA DeleteKeepsHands ==
    ASSUME Inv, Delete
    PROVE  Hands'
<1> USE DEF Inv, Hands
<1>1. /\ UNCHANGED <<threads, of, at, deadSockets>> /\ killer = "delete"
      /\ deleted' = deleted \cup {killing} /\ killing' = NoReceiver /\ killer' = "pop"
  BY DEF Delete, listener, receiver
<1>2. killing \in Receivers /\ at[killing] = "ended"
  BY <1>1 DEF KillerWaits
<1>3. NoReceiver \notin Receivers /\ Queued \subseteq Receivers
  BY ReceiversAssumption, MembersTyped DEF Queued, TypeOK
<1>4. Placed'
  BY <1>1, <1>2, <1>3 DEF Placed, Handed, Queued
<1>5. HandedOnce'
  BY <1>1, <1>2, <1>3 DEF HandedOnce, Queued
<1>6. KillerWaits'
  BY <1>1 DEF KillerWaits
<1> QED
  BY <1>4, <1>5, <1>6
-----------------------------------------------------------------------------
\* Every step keeps the types of the variables it changes.
LEMMA TypesStep ==
    ASSUME Inv, [Next]_vars
    PROVE  TypeOK'
<1>1. ASSUME NEW l \in Ls, StopListening(l) PROVE TypeOK'
  BY <1>1 DEF Inv, TypeOK, StopListening, receiver, reaper, shutdown
<1>2. ASSUME NEW l \in Ls, NEW r \in Receivers, Accept(l, r) PROVE TypeOK'
  BY <1>2 DEF Inv, TypeOK, Accept, Goto, Places, reaper, shutdown
<1>3. ASSUME NEW r \in Receivers, Construct(r) PROVE TypeOK'
  <2>1. CASE LockToInsert(r)
    BY <2>1 DEF Inv, TypeOK, LockToInsert, Goto, Places, reaper, shutdown
  <2>2. CASE Insert(r)
    BY <2>2 DEF Inv, TypeOK, Insert, Goto, Places, reaper, shutdown
  <2>3. CASE Start(r)
    BY <2>3 DEF Inv, TypeOK, Start, Goto, Places, reaper, shutdown
  <2> QED
    BY <1>3, <2>1, <2>2, <2>3 DEF Construct
<1>4. ASSUME NEW r \in Receivers, Run(r) PROVE TypeOK'
  <2>1. CASE EndBlind(r)
    BY <2>1 DEF Inv, TypeOK, EndBlind, Goto, Places, listener, reaper, shutdown
  <2>2. CASE SeeClosed(r)
    BY <2>2 DEF Inv, TypeOK, SeeClosed, Goto, Places, listener, reaper, shutdown
  <2>3. CASE LockToErase(r)
    BY <2>3 DEF Inv, TypeOK, LockToErase, Goto, Places, reaper, shutdown
  <2>4. CASE Erase(r)
    BY <2>4 DEF Inv, TypeOK, Erase, Goto, Places, reaper, shutdown
  <2>5. CASE Push(r)
    BY <2>5 DEF Inv, TypeOK, Push, Goto, Places, listener, shutdown
  <2>6. CASE Return(r)
    BY <2>6 DEF Inv, TypeOK, Return, Goto, Places, listener, reaper, shutdown
  <2> QED
    BY <1>4, <2>1, <2>2, <2>3, <2>4, <2>5, <2>6 DEF Run
<1>5. CASE \E r \in Receivers : HangUp(r)
  BY <1>5 DEF Inv, TypeOK, HangUp, listener, reaper, shutdown
<1>6. CASE Kill
  <2>1. CASE Pop
    <3>1. Head(deadSockets) \in Receivers /\ Tail(deadSockets) \in Seq(Receivers)
      BY <2>1, HeadTailProperties DEF Inv, TypeOK, Pop
    <3> QED
      BY <2>1, <3>1 DEF Inv, TypeOK, Pop, listener, receiver, shutdown
  <2>2. CASE Join
    BY <2>2 DEF Inv, TypeOK, Join, listener, receiver, shutdown
  <2>3. CASE Delete
    BY <2>3, ReceiversAssumption DEF Inv, Hands, KillerWaits, TypeOK, Delete, listener, receiver, shutdown
  <2>4. CASE Cancelled
    BY <2>4 DEF Inv, TypeOK, Cancelled, listener, receiver, shutdown
  <2> QED
    BY <1>6, <2>1, <2>2, <2>3, <2>4 DEF Kill
<1>7. CASE Command
  BY <1>7, ListenersAssumption DEF Inv, TypeOK, Command, listener, receiver, reaper
<1>8. CASE ShutDown
  <2>1. main \in {"close", "join", "delete"} =>
          Head(closing) \in Ls /\ Tail(closing) \in Seq(Ls)
    BY HeadTailProperties DEF Inv, TypeOK, SomeToClose
  <2>2. CASE CloseServer
    BY <2>1, <2>2 DEF Inv, TypeOK, CloseServer, receiver, reaper
  <2>3. CASE JoinListener
    BY <2>1, <2>3 DEF Inv, TypeOK, JoinListener, First, listener, receiver, reaper
  <2>4. CASE CloseOne
    BY <2>4 DEF Inv, TypeOK, CloseOne, First, listener, reaper
  <2>5. CASE DeleteListener
    BY <2>1, <2>5 DEF Inv, TypeOK, DeleteListener, listener, receiver, reaper
  <2>6. CASE StopKiller
    BY <2>6 DEF Inv, TypeOK, StopKiller, listener, receiver, reaper
  <2>7. CASE DeleteKiller
    BY <2>7 DEF Inv, TypeOK, DeleteKiller, listener, receiver, reaper
  <2> QED
    BY <1>8, <2>2, <2>3, <2>4, <2>5, <2>6, <2>7 DEF ShutDown
<1>9. CASE UNCHANGED vars
  BY <1>9 DEF Inv, TypeOK, vars, listener, receiver, reaper, shutdown
<1> QED
  BY <1>1, <1>2, <1>3, <1>4, <1>5, <1>6, <1>7, <1>8, <1>9 DEF Next, Listen

\* While the shutdown is at a listener there is one.
LEMMA SomeToCloseStep ==
    ASSUME Inv, [Next]_vars
    PROVE  SomeToClose'
<1> USE DEF Inv, SomeToClose, listener, receiver, reaper, shutdown
<1>1. CASE UNCHANGED <<main, closing>>
  BY <1>1
<1>2. CASE Command
  BY <1>2, ListenersAssumption DEF Command
<1>3. CASE ShutDown
  BY <1>3 DEF ShutDown, CloseServer, JoinListener, CloseOne, DeleteListener, StopKiller, DeleteKiller
<1>4. (\E l \in Ls : Listen(l)) => UNCHANGED <<main, closing>>
  BY DEF Listen, StopListening, Accept
<1>5. (\E r \in Receivers : Construct(r) \/ Run(r) \/ HangUp(r)) => UNCHANGED <<main, closing>>
  BY DEF Construct, LockToInsert, Insert, Start, Run, EndBlind, SeeClosed, LockToErase,
         Erase, Push, Return, HangUp
<1>6. Kill => UNCHANGED <<main, closing>>
  BY DEF Kill, Pop, Join, Delete, Cancelled
<1>7. UNCHANGED vars => UNCHANGED <<main, closing>>
  BY DEF vars
<1> QED
  BY <1>1, <1>2, <1>3, <1>4, <1>5, <1>6, <1>7 DEF Next

\* A receiver that leaves the set leaves the walk, and nobody else moves.
LEMMA WalkInSetStep ==
    ASSUME Inv, [Next]_vars
    PROVE  WalkInSet'
<1> USE DEF Inv, listener, receiver, reaper, shutdown
<1>1. ASSUME UNCHANGED <<threads, of>>, walk' \subseteq walk PROVE WalkInSet'
  BY <1>1 DEF WalkInSet
<1>2. ASSUME NEW l \in Ls, Listen(l) PROVE WalkInSet'
  <2>1. CASE StopListening(l)
    BY <2>1, <1>1 DEF StopListening
  <2>2. ASSUME NEW r \in Receivers, Accept(l, r) PROVE WalkInSet'
    <3>1. r \notin walk
      BY <2>2 DEF Accept, WalkInSet, Hands, Placed, TypeOK
    <3>2. UNCHANGED <<threads, walk>> /\ \A x \in walk : of'[x] = of[x]
      BY <2>2, <3>1 DEF Accept, TypeOK
    <3> QED
      BY <3>2 DEF WalkInSet
  <2> QED
    BY <1>2, <2>1, <2>2 DEF Listen
<1>3. ASSUME NEW r \in Receivers, Construct(r) PROVE WalkInSet'
  <2>1. CASE Insert(r)
    BY <2>1 DEF Insert, WalkInSet, TypeOK
  <2> QED
    BY <1>1, <1>3, <2>1 DEF Construct, LockToInsert, Start
<1>4. ASSUME NEW r \in Receivers, Run(r) PROVE WalkInSet'
  <2>1. CASE Erase(r)
    BY <2>1 DEF Erase, WalkInSet, TypeOK
  <2> QED
    BY <1>1, <1>4, <2>1 DEF Run, EndBlind, SeeClosed, LockToErase, Push, Return
<1>5. ASSUME NEW r \in Receivers, HangUp(r) PROVE WalkInSet'
  BY <1>1, <1>5 DEF HangUp
<1>6. CASE Kill
  BY <1>1, <1>6 DEF Kill, Pop, Join, Delete, Cancelled
<1>7. CASE Command
  BY <1>1, <1>7 DEF Command
<1>8. CASE ShutDown
  <2>1. CASE JoinListener
    <3>1. Head(closing) \in Ls
      BY <2>1, HeadTailProperties DEF JoinListener, TypeOK, SomeToClose
    <3> QED
      BY <2>1, <3>1 DEF JoinListener, WalkInSet, Hands, Placed, TypeOK
  <2> QED
    BY <1>1, <1>8, <2>1 DEF ShutDown, CloseServer, CloseOne, DeleteListener, StopKiller, DeleteKiller
<1>9. CASE UNCHANGED vars
  BY <1>1, <1>9 DEF vars
<1> QED
  BY <1>2, <1>3, <1>4, <1>5, <1>6, <1>7, <1>8, <1>9 DEF Next

\* Every step keeps each receiver where it belongs.
LEMMA HandsStep ==
    ASSUME Inv, [Next]_vars
    PROVE  Hands'
<1> USE DEF listener, receiver, reaper, shutdown
<1>1. ASSUME NEW l \in Ls, Listen(l) PROVE Hands'
  <2>1. CASE StopListening(l)
    BY <2>1, QuietKeepsHands DEF StopListening
  <2> QED
    BY <1>1, <2>1, AcceptKeepsHands DEF Listen
<1>2. ASSUME NEW r \in Receivers, Construct(r) PROVE Hands'
  <2>1. CASE LockToInsert(r)
    BY <2>1, MoveKeepsHands DEF LockToInsert
  <2>2. CASE Start(r)
    BY <2>2, MoveKeepsHands DEF Start
  <2> QED
    BY <1>2, <2>1, <2>2, InsertKeepsHands DEF Construct
<1>3. ASSUME NEW r \in Receivers, Run(r) PROVE Hands'
  <2>1. CASE EndBlind(r)
    BY <2>1, MoveKeepsHands DEF EndBlind
  <2>2. CASE SeeClosed(r)
    BY <2>2, MoveKeepsHands DEF SeeClosed
  <2>3. CASE LockToErase(r)
    BY <2>3, MoveKeepsHands DEF LockToErase
  <2>4. CASE Return(r)
    BY <2>4, MoveKeepsHands DEF Return
  <2> QED
    BY <1>3, <2>1, <2>2, <2>3, <2>4, EraseKeepsHands, PushKeepsHands DEF Run
<1>4. ASSUME NEW r \in Receivers, HangUp(r) PROVE Hands'
  BY <1>4, QuietKeepsHands DEF HangUp
<1>5. CASE Kill
  <2>1. CASE Cancelled
    BY <2>1, QuietKeepsHands DEF Cancelled
  <2> QED
    BY <1>5, <2>1, PopKeepsHands, JoinKeepsHands, DeleteKeepsHands DEF Kill
<1>6. CASE Command
  BY <1>6, QuietKeepsHands DEF Command
<1>7. CASE ShutDown
  <2>1. CASE CloseServer
    BY <2>1, QuietKeepsHands DEF CloseServer
  <2>2. CASE JoinListener
    BY <2>2, QuietKeepsHands DEF JoinListener
  <2>3. CASE CloseOne
    BY <2>3, QuietKeepsHands DEF CloseOne
  <2>4. CASE DeleteListener
    <3>1. Head(closing) \notin Receivers
      BY <2>4, HeadTailProperties, ListenersAssumption DEF DeleteListener, Inv, TypeOK, SomeToClose
    <3>2. deleted' \cap Receivers = deleted \cap Receivers
      BY <2>4, <3>1 DEF DeleteListener
    <3> QED
      BY <2>4, <3>2, QuietKeepsHands DEF DeleteListener
  <2>5. CASE StopKiller
    BY <2>5, QuietKeepsHands DEF StopKiller
  <2>6. CASE DeleteKiller
    <3>1. deleted' \cap Receivers = deleted \cap Receivers
      BY <2>6, ReceiversAssumption DEF DeleteKiller
    <3> QED
      BY <2>6, <3>1, QuietKeepsHands DEF DeleteKiller
  <2> QED
    BY <1>7, <2>1, <2>2, <2>3, <2>4, <2>5, <2>6 DEF ShutDown
<1>8. CASE UNCHANGED vars
  BY <1>8, QuietKeepsHands DEF vars
<1> QED
  BY <1>1, <1>2, <1>3, <1>4, <1>5, <1>6, <1>7, <1>8 DEF Next

\* At the start no receiver exists.
LEMMA InitIsGood == Init => Inv
<1> SUFFICES ASSUME Init PROVE Inv
  OBVIOUS
<1>1. Listeners[1] \in Ls
  BY ListenersAssumption
<1>2. Queued = {}
  BY DEF Init, Queued, ToSet
<1>3. TypeOK
  BY <1>1, ReceiversAssumption DEF Init, TypeOK, Places
<1>4. Hands
  BY <1>1, <1>2, ReceiversAssumption DEF Init, Hands, Placed, HandedOnce, KillerWaits, Handed
<1> QED
  BY <1>3, <1>4 DEF Init, Inv, SomeToClose, WalkInSet

-----------------------------------------------------------------------------
\* The inductive invariant, over every run.
THEOREM Invariance == Spec => []Inv
<1>1. Inv /\ [Next]_vars => Inv'
  BY TypesStep, SomeToCloseStep, WalkInSetStep, HandsStep DEF Inv
<1> QED
  BY InitIsGood, <1>1, PTL DEF Spec

\* Type correctness.
THEOREM ThreadsTypeCorrect == Spec => []TypeOK
<1>1. Inv => TypeOK
  BY DEF Inv
<1> QED
  BY Invariance, <1>1, PTL

\* The killer never deletes an object whose thread still runs (tkiller.cpp).
THEOREM NeverDeletedAlive == Spec => []RunsAlive
<1>1. Inv => RunsAlive
  BY DEF Inv, Hands, Placed, RunsAlive
<1> QED
  BY Invariance, <1>1, PTL

\* No set of a listener, no destructor that walks one and not the killer comes
\* to a deleted receiver; what is not claimed is that the one a destructor is
\* at has not been deleted under it (tpllistener.cpp:59, tkiller.cpp).
THEOREM NeverDangling == Spec => []NoDangling
<1>1. Inv => NoDangling
  BY DEF Inv, Hands, Placed, HandedOnce, Handed, Queued, WalkInSet, TypeOK, NoDangling
<1> QED
  BY Invariance, <1>1, PTL
=============================================================================
