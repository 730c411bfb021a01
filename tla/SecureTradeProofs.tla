------------------------- MODULE SecureTradeProofs -------------------------
(***************************************************************************)
(* The theorems about SecureTrade, for any number of players, items and    *)
(* windows.                                                                *)
(*                                                                         *)
(* First, the windows of a trade stay paired, and the dead do not trade:   *)
(* the inductive invariant TradeInv is about `win' and `dead' only.  Where *)
(* the items are decides when a trade starts and ends, but never which     *)
(* windows exist.                                                          *)
(*                                                                         *)
(* Then, a secure trade is an atomic swap: SecureTrade implements          *)
(* AtomicSwap.  The mapping gives an item to the player in whose pack or   *)
(* window it is.  What could break it is a bounce, which moves an item     *)
(* from wherever it is to wherever it was: it must never take the item     *)
(* from one player and give it to another.  That is the invariant          *)
(* BounceSafe.                                                             *)
(***************************************************************************)
EXTENDS SecureTrade, TLAPS

TradeWindow == [owner : Players, peer : Windows, mark : BOOLEAN]

WinTyped ==
    /\ win \in [Windows -> TradeWindow \cup {Closed}]
    /\ dead \subseteq Players

\* The windows that name each other, and whose owners are alive.
TradeInv == WinTyped /\ PairedWindows /\ DeadDoNotTrade

\* A set of windows that holds the peer of each of its members.
WholePairs(W) == W \subseteq Windows /\ \A w \in W : Exists(w) => Peer(w) \in W

\* Windows keep their owners and peers; only check marks may change.
SameWindows ==
    \A w \in Windows : /\ Exists(w)' <=> Exists(w)
                       /\ win'[w].owner = win[w].owner
                       /\ win'[w].peer = win[w].peer

-----------------------------------------------------------------------------
\* A closed window can be told from one that exists: `Gone' is no player.
LEMMA ExistsTyped ==
    ASSUME WinTyped, NEW w \in Windows
    PROVE  /\ Exists(w) => win[w] \in TradeWindow
           /\ Exists(w) <=> win[w].owner \in Players
           /\ ~Exists(w) => win[w].owner = Gone
<1>1. Gone \notin Players
  BY SortAssumption
<1>2. win[w] \in TradeWindow \cup {Closed}
  BY DEF WinTyped
<1>3. CASE win[w] = Closed
  BY <1>1, <1>3 DEF Exists, Closed
<1>4. CASE win[w] \in TradeWindow
  <2>1. win[w].owner \in Players
    BY <1>4 DEF TradeWindow
  <2>2. win[w] # Closed
    BY <2>1, <1>1 DEF Closed
  <2> QED
    BY <1>4, <2>1, <2>2 DEF Exists
<1> QED
  BY <1>2, <1>3, <1>4

\* endtrade(), whoever calls it and for how many trades: deleting whole pairs
\* leaves whole pairs.
LEMMA DeletePairs ==
    ASSUME WinTyped, PairedWindows, NEW W, WholePairs(W), Delete(W),
           dead' \subseteq Players
    PROVE  WinTyped' /\ PairedWindows'
<1>1. WinTyped'
  BY DEF WinTyped, Delete
<1>2. ASSUME NEW w \in Windows, Exists(w)'
      PROVE  /\ Exists(Peer(w))' /\ (Peer(Peer(w)) = w)'
             /\ (win[w].owner # win[Peer(w)].owner)'
  <2>1. w \notin W /\ win'[w] = win[w]
    BY <1>2 DEF Delete, Exists
  <2>2. Exists(w)
    BY <1>2, <2>1 DEF Exists
  <2>3. /\ Peer(w) \in Windows /\ Exists(Peer(w)) /\ Peer(Peer(w)) = w
        /\ win[w].owner # win[Peer(w)].owner
    BY <2>2, ExistsTyped DEF PairedWindows, TradeWindow, Peer
  <2>4. Peer(w) \notin W
    BY <2>1, <2>3 DEF WholePairs
  <2>5. win'[Peer(w)] = win[Peer(w)]
    BY <2>3, <2>4 DEF Delete
  <2> QED
    BY <2>1, <2>3, <2>5 DEF Exists, Peer
<1> QED
  BY <1>1, <1>2 DEF PairedWindows

\* A pair is a whole pair.
LEMMA PairIsWhole ==
    ASSUME WinTyped, PairedWindows, NEW w \in Windows, Exists(w)
    PROVE  WholePairs(Pair(w))
BY ExistsTyped DEF PairedWindows, WholePairs, Pair, TradeWindow, Peer

\* The trades of one player are whole pairs.
LEMMA TradesOfAreWhole ==
    ASSUME WinTyped, PairedWindows, NEW p \in Players,
           NEW W, W = UNION {Pair(w) : w \in {v \in Windows : win[v].owner = p}}
    PROVE  /\ WholePairs(W)
           /\ \A w \in Windows \ W : win[w].owner # p
<1>1. ASSUME NEW w \in Windows, win[w].owner = p
      PROVE  WholePairs(Pair(w)) /\ w \in Pair(w)
  BY <1>1, ExistsTyped, PairIsWhole DEF Pair
<1>2. \A u \in W : \E w \in Windows : win[w].owner = p /\ u \in Pair(w)
  OBVIOUS
<1>3. \A w \in Windows : win[w].owner = p => Pair(w) \subseteq W
  OBVIOUS
<1>4. WholePairs(W)
  BY <1>1, <1>2, <1>3 DEF WholePairs
<1> QED
  BY <1>1, <1>3, <1>4

\* Marks change neither owners nor peers.
LEMMA MarksChange ==
    ASSUME TradeInv, dead' = dead, WinTyped', SameWindows
    PROVE  TradeInv'
<1>1. PairedWindows'
  <2>1. ASSUME NEW w \in Windows, Exists(w)
        PROVE  /\ Peer(w) \in Windows /\ Exists(Peer(w)) /\ Peer(Peer(w)) = w
               /\ win[w].owner # win[Peer(w)].owner
    BY <2>1, ExistsTyped DEF TradeInv, PairedWindows, TradeWindow, Peer
  <2> QED
    BY <2>1 DEF PairedWindows, Peer, SameWindows
<1>2. DeadDoNotTrade'
  BY DEF TradeInv, DeadDoNotTrade, SameWindows
<1> QED
  BY <1>1, <1>2 DEF TradeInv

-----------------------------------------------------------------------------
\* At the start there is no trade.
LEMMA TradeInvInit == Init => TradeInv
<1> SUFFICES ASSUME Init PROVE TradeInv
  OBVIOUS
<1>1. WinTyped
  BY DEF Init, WinTyped
<1>2. \A w \in Windows : ~Exists(w)
  BY DEF Init, Exists
<1>3. DeadDoNotTrade
  BY DEF Init, DeadDoNotTrade
<1> QED
  BY <1>1, <1>2, <1>3 DEF TradeInv, PairedWindows

\* A mark is set or reset in a window that exists.
LEMMA SetMarkKeepsWindows ==
    ASSUME TradeInv, NEW p \in Players, NEW w \in Windows, NEW m \in BOOLEAN,
           SetMark(p, w, m)
    PROVE  WinTyped' /\ SameWindows
<1>1. Exists(w) /\ win[w] \in TradeWindow
  BY ExistsTyped DEF SetMark, MayClick, TradeInv
<1>2. win' = [win EXCEPT ![w].mark = m] /\ dead' = dead
  BY DEF SetMark
<1>3. win'[w] \in TradeWindow /\ win'[w].owner = win[w].owner /\ win'[w].peer = win[w].peer
  BY <1>1, <1>2 DEF TradeWindow, TradeInv, WinTyped
<1>4. WinTyped'
  BY <1>2, <1>3 DEF WinTyped, TradeInv
<1>5. Exists(w)'
  <2>1. win'[w].owner \in Players
    BY <1>3 DEF TradeWindow
  <2> QED
    BY <2>1, SortAssumption DEF Exists, Closed
<1>6. SameWindows
  BY <1>1, <1>2, <1>3, <1>5 DEF Exists, SameWindows
<1> QED
  BY <1>4, <1>6

\* A drop into a window resets the marks of the pair.
LEMMA DropInWindowKeepsWindows ==
    ASSUME TradeInv, NEW p \in Players, NEW w \in Windows, DropInWindow(p, w)
    PROVE  WinTyped' /\ SameWindows
<1>1. win[w].owner \in Players /\ Unmark(w) /\ dead' = dead
  BY DEF DropInWindow
<1>2. Exists(w) /\ Exists(Peer(w)) /\ Peer(w) \in Windows
  BY <1>1, ExistsTyped DEF TradeInv, PairedWindows, TradeWindow, Peer
<1>3. ASSUME NEW v \in Windows
      PROVE  /\ win'[v] \in TradeWindow \cup {Closed}
             /\ Exists(v)' <=> Exists(v)
             /\ win'[v].owner = win[v].owner
             /\ win'[v].peer = win[v].peer
  <2>1. CASE v \notin Pair(w)
    BY <2>1, <1>1 DEF Unmark, Exists, TradeInv, WinTyped
  <2>2. CASE v \in Pair(w)
    <3>1. win[v] \in TradeWindow /\ Exists(v)
      BY <2>2, <1>2, ExistsTyped DEF Pair, TradeInv
    <3>2. win'[v] = [win[v] EXCEPT !.mark = FALSE]
      BY <2>2, <1>1 DEF Unmark
    <3>3. /\ win'[v] \in TradeWindow
          /\ win'[v].owner = win[v].owner /\ win'[v].peer = win[v].peer
      BY <3>1, <3>2 DEF TradeWindow
    <3>4. win'[v].owner \in Players
      BY <3>1, <3>3 DEF TradeWindow
    <3>5. Exists(v)'
      BY <3>4, SortAssumption DEF Exists, Closed
    <3> QED
      BY <3>1, <3>3, <3>5
  <2> QED
    BY <2>1, <2>2
<1>4. WinTyped'
  <2>1. win' = [v \in Windows |-> win'[v]]
    BY <1>1 DEF Unmark
  <2>2. dead' \subseteq Players
    BY <1>1 DEF TradeInv, WinTyped
  <2> QED
    BY <2>1, <2>2, <1>3 DEF WinTyped
<1> QED
  BY <1>3, <1>4 DEF SameWindows

\* A trade starts: two fresh windows of two players that are alive.
LEMMA StartTradeStep ==
    ASSUME TradeInv, NEW p \in Players, NEW q \in Players, StartTrade(p, q)
    PROVE  TradeInv'
<1>1. PICK w \in Windows, v \in Windows :
        /\ MayTrade(p, q) /\ w # v /\ Fresh(w) /\ Fresh(v)
        /\ win' = [win EXCEPT ![w] = [owner |-> p, peer |-> v, mark |-> FALSE],
                              ![v] = [owner |-> q, peer |-> w, mark |-> FALSE]]
        /\ dead' = dead
  BY DEF StartTrade
<1>2. /\ win'[w] = [owner |-> p, peer |-> v, mark |-> FALSE]
      /\ win'[v] = [owner |-> q, peer |-> w, mark |-> FALSE]
      /\ \A u \in Windows \ {w, v} : win'[u] = win[u]
  BY <1>1 DEF TradeInv, WinTyped
<1>3. WinTyped'
  BY <1>1 DEF TradeInv, WinTyped, TradeWindow
<1>4. Exists(w)' /\ Exists(v)'
  <2>1. win'[w].owner = p /\ win'[v].owner = q
    BY <1>2
  <2> QED
    BY <2>1, SortAssumption DEF Exists, Closed
<1>5. p # q /\ {p, q} \cap dead = {}
  BY <1>1 DEF MayTrade
<1>6. ASSUME NEW u \in Windows, Exists(u)'
      PROVE  /\ Exists(Peer(u))' /\ (Peer(Peer(u)) = u)'
             /\ (win[u].owner # win[Peer(u)].owner)'
  <2>1. CASE u \in {w, v}
    BY <2>1, <1>2, <1>4, <1>5 DEF Peer
  <2>2. CASE u \notin {w, v}
    <3>1. Exists(u) /\ win'[u] = win[u]
      BY <2>2, <1>2, <1>6 DEF Exists
    <3>2. /\ Peer(u) \in Windows /\ Exists(Peer(u)) /\ Peer(Peer(u)) = u
          /\ win[u].owner # win[Peer(u)].owner
      BY <3>1, ExistsTyped DEF TradeInv, PairedWindows, TradeWindow, Peer
    <3>3. Peer(u) \notin {w, v}
      BY <3>2, <1>1 DEF Fresh
    <3>4. win'[Peer(u)] = win[Peer(u)]
      BY <3>2, <3>3, <1>2
    <3> QED
      BY <3>1, <3>2, <3>4 DEF Exists, Peer
  <2> QED
    BY <2>1, <2>2
<1>7. DeadDoNotTrade'
  <2>1. win'[w].owner = p /\ win'[v].owner = q
    BY <1>2
  <2>2. \A u \in Windows \ {w, v} : win'[u].owner = win[u].owner
    BY <1>2
  <2> QED
    BY <2>1, <2>2, <1>1, <1>5 DEF TradeInv, DeadDoNotTrade
<1> QED
  BY <1>3, <1>6, <1>7 DEF TradeInv, PairedWindows

\* A trade is concluded or called off.
LEMMA EndTradeStep ==
    ASSUME TradeInv, NEW w \in Windows, Exists(w), Delete(Pair(w)), dead' = dead
    PROVE  TradeInv'
<1>1. WinTyped' /\ PairedWindows'
  <2>1. dead' \subseteq Players
    BY DEF TradeInv, WinTyped
  <2> QED
    BY <2>1, PairIsWhole, DeletePairs DEF TradeInv
<1>2. \A v \in Windows : win'[v].owner \in {win[v].owner, Gone}
  BY DEF Delete, Closed
<1>3. Gone \notin dead
  BY SortAssumption DEF TradeInv, WinTyped
<1>4. DeadDoNotTrade'
  BY <1>2, <1>3 DEF TradeInv, DeadDoNotTrade
<1> QED
  BY <1>1, <1>4 DEF TradeInv

\* Death: the trades of p end, and with them p owns no window any more.
LEMMA KillStep ==
    ASSUME TradeInv, NEW p \in Players, Kill(p)
    PROVE  TradeInv'
<1> DEFINE W == UNION {Pair(w) : w \in {v \in Windows : win[v].owner = p}}
<1>1. Delete(W) /\ dead' = dead \cup {p}
  BY DEF Kill
<1>2. dead' \subseteq Players
  BY <1>1 DEF TradeInv, WinTyped
<1>3. WholePairs(W) /\ \A w \in Windows \ W : win[w].owner # p
  BY TradesOfAreWhole DEF TradeInv
<1> HIDE DEF W
<1>4. WinTyped' /\ PairedWindows'
  BY <1>1, <1>2, <1>3, DeletePairs DEF TradeInv
<1>5. ASSUME NEW w \in Windows
      PROVE  win'[w].owner \notin dead'
  <2>1. CASE w \in W
    <3>1. win'[w].owner = Gone
      BY <2>1, <1>1 DEF Delete, Closed
    <3> QED
      BY <3>1, <1>2, SortAssumption
  <2>2. CASE w \notin W
    <3>1. win'[w] = win[w]
      BY <2>2, <1>1 DEF Delete
    <3> QED
      BY <3>1, <2>2, <1>1, <1>3 DEF TradeInv, DeadDoNotTrade
  <2> QED
    BY <2>1, <2>2
<1> QED
  BY <1>4, <1>5 DEF TradeInv, DeadDoNotTrade

\* Everything else leaves the windows alone, and nobody dies of it.
LEMMA OtherStep ==
    ASSUME TradeInv, win' = win, dead' \subseteq dead
    PROVE  TradeInv'
BY DEF TradeInv, WinTyped, PairedWindows, DeadDoNotTrade, Exists, Peer

\* Every step keeps the windows typed, paired and owned by the living.
LEMMA TradeInvStep == TradeInv /\ [Next]_vars => TradeInv'
<1> SUFFICES ASSUME TradeInv, [Next]_vars PROVE TradeInv'
  OBVIOUS
<1>1. ASSUME NEW p \in Players, NEW x \in Items, Get(p, x) \/ GetRefused(p, x)
      PROVE  TradeInv'
  BY <1>1, OtherStep DEF Get, GetRefused
<1>2. ASSUME NEW x \in Items, Decay(x) PROVE TradeInv'
  BY <1>2, OtherStep DEF Decay
<1>3. ASSUME NEW S \in SUBSET Items, CorpseDecays(S) PROVE TradeInv'
  BY <1>3, OtherStep DEF CorpseDecays
<1>4. ASSUME NEW p \in Players,
             \/ DropDeleted(p) \/ DropTwice(p) \/ DropRefused(p)
             \/ DropInPack(p) \/ DropOnGround(p)
             \/ Connect(p) \/ Disconnect(p) \/ Resurrect(p)
      PROVE  TradeInv'
  <2>1. win' = win /\ dead' \subseteq dead
    BY <1>4 DEF DropDeleted, DropTwice, DropRefused, DropInPack, DropOnGround,
                Connect, Disconnect, Resurrect
  <2> QED
    BY <2>1, OtherStep
<1>5. ASSUME NEW p \in Players, Kill(p) PROVE TradeInv'
  BY <1>5, KillStep
<1>6. ASSUME NEW p \in Players, NEW q \in Players, StartTrade(p, q) PROVE TradeInv'
  BY <1>6, StartTradeStep
<1>7. ASSUME NEW p \in Players, NEW q \in Players, NoTrade(p, q) PROVE TradeInv'
  BY <1>7, OtherStep DEF NoTrade
<1>8. ASSUME NEW p \in Players, NEW w \in Windows, DropInWindow(p, w) PROVE TradeInv'
  BY <1>8, DropInWindowKeepsWindows, MarksChange DEF DropInWindow
<1>9. ASSUME NEW p \in Players, NEW w \in Windows,
             DropInNoWindow(p, w) \/ CloseWindow(p, w)
      PROVE  TradeInv'
  BY <1>9, OtherStep DEF DropInNoWindow, CloseWindow
<1>10. ASSUME NEW p \in Players, NEW w \in Windows, NEW m \in BOOLEAN, SetMark(p, w, m)
       PROVE  TradeInv'
  BY <1>10, SetMarkKeepsWindows, MarksChange DEF SetMark
<1>11. ASSUME NEW p \in Players, NEW w \in Windows, Conclude(p, w) \/ CancelTrade(p, w)
       PROVE  TradeInv'
  BY <1>11, EndTradeStep DEF Conclude, CancelTrade, MayClick
<1>12. CASE Restart
  BY <1>12, OtherStep DEF Restart
<1>13. CASE UNCHANGED vars
  BY <1>13, OtherStep DEF vars
<1> QED
  BY <1>1, <1>2, <1>3, <1>4, <1>5, <1>6, <1>7, <1>8, <1>9, <1>10, <1>11, <1>12, <1>13
  DEF Next

\* However trades start and end, by check marks, by a cancel or by a death, in
\* any order and in any number, both windows of a trade exist or none.
THEOREM WindowsStayPaired == Spec => []PairedWindows
<1>1. TradeInv => PairedWindows
  BY DEF TradeInv
<1> QED
  BY TradeInvInit, TradeInvStep, <1>1, PTL DEF Spec

\* Nobody who is dead owns a trade window, whatever is in it.
THEOREM NoTradesOfTheDead == Spec => []DeadDoNotTrade
<1>1. TradeInv => DeadDoNotTrade
  BY DEF TradeInv
<1> QED
  BY TradeInvInit, TradeInvStep, <1>1, PTL DEF Spec
-----------------------------------------------------------------------------
(* An atomic swap.                                                         *)

OwnerOf(c) == IF c \in Players THEN c
              ELSE IF c \in Windows /\ Exists(c) THEN win[c].owner
              ELSE Gone

DealAt(c) == IF c \in Windows /\ Exists(c) THEN Pair(c) ELSE {}

ItemsTyped ==
    /\ cont \in [Items -> Containers]
    /\ oldcont \in [Items -> Containers]

SwapInv == TradeInv /\ ItemsTyped /\ BounceSafe

-----------------------------------------------------------------------------
\* The abstract owner and deal of an item are those of its container.
LEMMA OwnIsOwner ==
    ASSUME NEW x \in Items
    PROVE  Own(x) = OwnerOf(cont[x]) /\ DealOf(x) = DealAt(cont[x])
BY DEF Own, OwnerOf, DealOf, DealAt

\* Containers are what they were when the windows are.
LEMMA SameContainers ==
    ASSUME SameWindows, NEW c
    PROVE  /\ Owning(c)' <=> Owning(c)
           /\ OwnerOf(c)' = OwnerOf(c)
           /\ DealAt(c)' = DealAt(c)
BY DEF SameWindows, Owning, OwnerOf, DealAt, Pair, Peer

\* A container that nobody owns gives its items no owner and no deal.
LEMMA OwnerlessContainer ==
    ASSUME NEW c, ~Owning(c)
    PROVE  OwnerOf(c) = Gone /\ DealAt(c) = {}
BY DEF Owning, OwnerOf, DealAt

\* Who owns a container is a player, and its deal a deal.
LEMMA OwnersArePlayers ==
    ASSUME TradeInv, NEW c, Owning(c)
    PROVE  OwnerOf(c) \in Players /\ DealAt(c) \in Deals \cup {{}}
<1>1. CASE c \in Players
  BY <1>1, SortAssumption DEF OwnerOf, DealAt
<1>2. CASE c \notin Players
  <2>1. c \in Windows /\ Exists(c) /\ Peer(c) \in Windows
    BY <1>2, ExistsTyped DEF Owning, TradeInv, TradeWindow, Peer
  <2> QED
    BY <1>2, <2>1, ExistsTyped DEF OwnerOf, DealAt, Deals, Pair, TradeInv
<1> QED
  BY <1>1, <1>2

\* What no item notices the abstract specification does not see.
LEMMA Unnoticed ==
    ASSUME \A x \in Items : Own(x)' = Own(x) /\ DealOf(x)' = DealOf(x)
    PROVE  UNCHANGED Promise!swapVars
BY DEF Promise!swapVars

\* At the start every item is in the world.
LEMMA SwapInvInit == Init => SwapInv
<1> SUFFICES ASSUME Init PROVE SwapInv
  OBVIOUS
<1>1. TradeInv
  BY TradeInvInit
<1>2. ItemsTyped
  BY DEF Init, ItemsTyped, Containers
<1>3. BounceSafe
  BY SortAssumption DEF Init, BounceSafe, Owning
<1> QED
  BY <1>1, <1>2, <1>3 DEF SwapInv

\* The initial states are initial states of AtomicSwap.
LEMMA PromiseInit == Init => Promise!SwapInit
<1> SUFFICES ASSUME Init PROVE Promise!SwapInit
  OBVIOUS
<1>1. \A x \in Items : Own(x) \in Players \cup {Gone} /\ DealOf(x) = {}
  BY DEF Init, Own, DealOf, Exists
<1> QED
  BY <1>1 DEF Promise!SwapInit

-----------------------------------------------------------------------------
(* Steps that move one item between containers that stay what they are.    *)

\* One item moves, from a place nobody owns or within one.
LEMMA OneItemInv ==
    ASSUME SwapInv, TradeInv', SameWindows, NEW x \in Items, NEW c \in Containers,
           cont' = [cont EXCEPT ![x] = c],
           NEW o \in Containers, oldcont' = [oldcont EXCEPT ![x] = o],
           Owning(c) => o = c \/ ~Owning(o)
    PROVE  SwapInv'
<1>1. ItemsTyped'
  BY DEF SwapInv, ItemsTyped
<1>2. ASSUME NEW y \in Items, Owning(cont[y])'
      PROVE  (oldcont[y] = cont[y] \/ ~Owning(oldcont[y]))'
  <2>1. \A d : Owning(d)' <=> Owning(d)
    BY SameContainers
  <2>2. CASE y = x
    BY <2>1, <2>2, <1>2 DEF SwapInv, ItemsTyped, Owning
  <2>3. CASE y # x
    BY <2>1, <2>3, <1>2 DEF SwapInv, ItemsTyped, BounceSafe, Owning
  <2> QED
    BY <2>2, <2>3
<1> QED
  BY <1>1, <1>2 DEF SwapInv, BounceSafe

\* What such a move is to AtomicSwap: nobody loses to another player.
LEMMA OneItemStep ==
    ASSUME SwapInv, SameWindows, NEW x \in Items, NEW c \in Containers,
           cont' = [cont EXCEPT ![x] = c],
           Owning(cont[x]) => c = cont[x] \/ ~Owning(c)
    PROVE  [Promise!SwapNext]_(Promise!swapVars)
<1>1. cont'[x] = c /\ \A y \in Items \ {x} : cont'[y] = cont[y]
  BY DEF SwapInv, ItemsTyped
<1>2. ASSUME NEW y \in Items
      PROVE  Own(y)' = OwnerOf(cont'[y]) /\ DealOf(y)' = DealAt(cont'[y])
  BY SameContainers DEF Own, DealOf, OwnerOf, DealAt, SameWindows, Pair, Peer
<1>3. ASSUME NEW y \in Items \ {x}
      PROVE  Own(y)' = Own(y) /\ DealOf(y)' = DealOf(y)
  BY <1>1, <1>2, OwnIsOwner
<1>4. /\ Own(x) = OwnerOf(cont[x]) /\ DealOf(x) = DealAt(cont[x])
      /\ Own(x)' = OwnerOf(c) /\ DealOf(x)' = DealAt(c)
  BY <1>1, <1>2, OwnIsOwner
<1>5. CASE c = cont[x]
  BY <1>3, <1>4, <1>5, Unnoticed
<1>6. CASE ~Owning(cont[x]) /\ ~Owning(c)
  BY <1>3, <1>4, <1>6, OwnerlessContainer, Unnoticed
<1>7. CASE Owning(cont[x]) /\ ~Owning(c)
  <2>1. Own(x)' = Gone /\ DealOf(x)' = {}
    BY <1>4, <1>7, OwnerlessContainer
  <2>2. Promise!CallOff({}, {x})
    BY <2>1, <1>3 DEF Promise!CallOff
  <2> QED
    BY <2>2 DEF Promise!SwapNext
<1>8. CASE ~Owning(cont[x]) /\ Owning(c)
  <2>1. Own(x) = Gone
    BY <1>4, <1>8, OwnerlessContainer
  <2>2. Own(x)' \in Players /\ DealOf(x)' \in Deals \cup {{}}
    BY <1>4, <1>8, OwnersArePlayers DEF SwapInv
  <2>3. Promise!Acquire(Own(x)', x, DealOf(x)')
    BY <2>1, <1>3 DEF Promise!Acquire
  <2> QED
    BY <2>2, <2>3 DEF Promise!SwapNext
<1> QED
  BY <1>5, <1>6, <1>7, <1>8

\* One item moves and the windows stay what they are: lifting, dropping into a
\* container, bouncing and decaying.
LEMMA OneItem ==
    ASSUME SwapInv, TradeInv', SameWindows, NEW x \in Items,
           NEW c \in Containers, cont' = [cont EXCEPT ![x] = c],
           NEW o \in Containers, oldcont' = [oldcont EXCEPT ![x] = o],
           \/ ~Owning(c) \/ ~Owning(o) \/ o = c,
           Owning(cont[x]) => c = cont[x] \/ ~Owning(c)
    PROVE  SwapInv' /\ [Promise!SwapNext]_(Promise!swapVars)
BY OneItemInv, OneItemStep

\* An item from a cursor is put somewhere.
LEMMA PutStep ==
    ASSUME SwapInv, TradeInv', SameWindows, NEW x \in Items, cont[x] = World,
           NEW c \in Containers, Put(x, c)
    PROVE  SwapInv' /\ [Promise!SwapNext]_(Promise!swapVars)
<1>1. World \in Containers /\ ~Owning(World)
  BY SortAssumption DEF Containers, Owning
<1>2. /\ cont' = [cont EXCEPT ![x] = c]
      /\ oldcont' = [oldcont EXCEPT ![x] = World]
  BY DEF Put
<1> QED
  BY <1>1, <1>2, OneItem

\* A refused drop: the item goes back to where it was taken from.
LEMMA BounceStep ==
    ASSUME SwapInv, TradeInv', SameWindows, NEW x \in Items, Bounce(x)
    PROVE  SwapInv' /\ [Promise!SwapNext]_(Promise!swapVars)
<1>1. cont[x] \in Containers /\ oldcont[x] \in Containers
  BY DEF SwapInv, ItemsTyped
<1>2. Owning(cont[x]) => oldcont[x] = cont[x] \/ ~Owning(oldcont[x])
  BY DEF SwapInv, BounceSafe
<1>3. /\ cont' = [cont EXCEPT ![x] = oldcont[x]]
      /\ oldcont' = [oldcont EXCEPT ![x] = cont[x]]
  BY DEF Bounce
<1> QED
  BY <1>1, <1>2, <1>3, OneItem

\* Lifting an item (get_item).
LEMMA GetStep ==
    ASSUME SwapInv, TradeInv', NEW p \in Players, NEW x \in Items, Get(p, x)
    PROVE  SwapInv' /\ [Promise!SwapNext]_(Promise!swapVars)
<1>1. World \in Containers /\ ~Owning(World)
  BY SortAssumption DEF Containers, Owning
<1>2. cont[x] \in Containers
  BY DEF SwapInv, ItemsTyped
<1>3. /\ cont' = [cont EXCEPT ![x] = World]
      /\ oldcont' = [oldcont EXCEPT ![x] = cont[x]]
      /\ SameWindows
  BY DEF Get, SameWindows, Exists
<1> QED
  BY <1>1, <1>2, <1>3, OneItem

\* Lifting what may not be lifted.
LEMMA GetRefusedStep ==
    ASSUME SwapInv, TradeInv', NEW p \in Players, NEW x \in Items, GetRefused(p, x)
    PROVE  SwapInv' /\ [Promise!SwapNext]_(Promise!swapVars)
<1>1. cont[x] \in Containers
  BY DEF SwapInv, ItemsTyped
<1>2. /\ cont' = [cont EXCEPT ![x] = cont[x]]
      /\ oldcont' = [oldcont EXCEPT ![x] = cont[x]]
      /\ SameWindows
  BY DEF GetRefused, SameWindows, Exists, SwapInv, ItemsTyped
<1> QED
  BY <1>1, <1>2, OneItem

\* An item decays.
LEMMA DecayStep ==
    ASSUME SwapInv, TradeInv', NEW x \in Items, Decay(x)
    PROVE  SwapInv' /\ [Promise!SwapNext]_(Promise!swapVars)
<1>1. /\ Gone \in Containers /\ ~Owning(Gone)
      /\ World \in Containers /\ ~Owning(World)
  BY SortAssumption DEF Containers, Owning
<1>2. /\ cont' = [cont EXCEPT ![x] = Gone]
      /\ oldcont' = [oldcont EXCEPT ![x] = World]
      /\ SameWindows
  BY DEF Decay, SameWindows, Exists
<1> QED
  BY <1>1, <1>2, OneItem

\* The containers are the old ones, or nobody's before and after.
LEMMA OwnerlessStep ==
    ASSUME SwapInv, TradeInv', SameWindows, ItemsTyped',
           \A x \in Items :
              \/ cont'[x] = cont[x] /\ oldcont'[x] = oldcont[x]
              \/ cont'[x] = cont[x] /\ ~Owning(oldcont'[x])
              \/ ~Owning(cont[x]) /\ ~Owning(cont'[x])
    PROVE  SwapInv' /\ [Promise!SwapNext]_(Promise!swapVars)
<1>1. \A d : Owning(d)' <=> Owning(d)
  BY SameContainers
<1>2. BounceSafe'
  BY <1>1 DEF SwapInv, BounceSafe, Owning
<1>3. ASSUME NEW x \in Items
      PROVE  Own(x)' = Own(x) /\ DealOf(x)' = DealOf(x)
  <2>1. Own(x)' = OwnerOf(cont'[x]) /\ DealOf(x)' = DealAt(cont'[x])
    BY SameContainers DEF Own, DealOf, OwnerOf, DealAt, SameWindows, Pair, Peer
  <2>2. CASE cont'[x] = cont[x]
    BY <2>1, <2>2, OwnIsOwner
  <2>3. CASE ~Owning(cont[x]) /\ ~Owning(cont'[x])
    BY <2>1, <2>3, OwnIsOwner, OwnerlessContainer
  <2> QED
    BY <2>2, <2>3
<1> QED
  BY <1>2, <1>3, Unnoticed DEF SwapInv

-----------------------------------------------------------------------------
(* Drops into a window, and the start of a trade.                          *)

\* A drop into a trade window.
LEMMA DropInWindowSwap ==
    ASSUME SwapInv, TradeInv', NEW p \in Players, NEW w \in Windows, DropInWindow(p, w)
    PROVE  SwapInv' /\ [Promise!SwapNext]_(Promise!swapVars)
<1>1. SameWindows
  BY DropInWindowKeepsWindows DEF SwapInv
<1>2. PICK x \in Items : IF cont[x] = World THEN Put(x, w) /\ TRUE ELSE Bounce(x) /\ TRUE
  BY DEF DropInWindow
<1>3. w \in Containers
  BY DEF Containers
<1>4. CASE cont[x] = World
  BY <1>1, <1>2, <1>3, <1>4, PutStep
<1>5. CASE cont[x] # World
  BY <1>1, <1>2, <1>5, BounceStep
<1> QED
  BY <1>4, <1>5

\* The windows of a new trade are nobody's before, and nothing is in them.
LEMMA StartTradeSwap ==
    ASSUME SwapInv, TradeInv', NEW p \in Players, NEW q \in Players, StartTrade(p, q)
    PROVE  SwapInv' /\ [Promise!SwapNext]_(Promise!swapVars)
<1>1. PICK x \in Items, w \in Windows, v \in Windows :
        /\ cont[x] = World /\ w # v /\ Fresh(w) /\ Fresh(v)
        /\ win' = [win EXCEPT ![w] = [owner |-> p, peer |-> v, mark |-> FALSE],
                              ![v] = [owner |-> q, peer |-> w, mark |-> FALSE]]
        /\ Put(x, w)
  BY DEF StartTrade
<1>2. /\ win'[w].owner = p /\ win'[w].peer = v /\ win'[v].owner = q
      /\ \A u \in Windows \ {w, v} : win'[u] = win[u]
  BY <1>1 DEF SwapInv, TradeInv, WinTyped
<1>3. Exists(w)'
  BY <1>2, SortAssumption DEF Exists, Closed
<1>4. /\ cont' = [cont EXCEPT ![x] = w] /\ oldcont' = [oldcont EXCEPT ![x] = World]
      /\ cont'[x] = w /\ oldcont'[x] = World
  BY <1>1 DEF Put, SwapInv, ItemsTyped
<1>5. ASSUME NEW c, c \notin {w, v}
      PROVE  /\ Owning(c)' <=> Owning(c)
             /\ OwnerOf(c)' = OwnerOf(c)
             /\ DealAt(c)' = DealAt(c)
  BY <1>2, <1>5 DEF Owning, OwnerOf, DealAt, Exists, Pair, Peer
<1>6. ASSUME NEW y \in Items
      PROVE  cont[y] \notin {w, v} /\ oldcont[y] \notin {w, v}
  BY <1>1 DEF Fresh
<1>7. ASSUME NEW y \in Items \ {x}
      PROVE  cont'[y] = cont[y] /\ oldcont'[y] = oldcont[y]
  BY <1>4 DEF SwapInv, ItemsTyped
<1>8. ItemsTyped'
  BY <1>4 DEF SwapInv, ItemsTyped, Containers
<1>9. BounceSafe'
  <2>1. ASSUME NEW y \in Items, Owning(cont[y])'
        PROVE  (oldcont[y] = cont[y] \/ ~Owning(oldcont[y]))'
    <3>1. CASE y = x
      <4>1. World \notin {w, v} /\ ~Owning(World)
        BY SortAssumption DEF Owning
      <4> QED
        BY <3>1, <4>1, <1>4, <1>5 DEF Owning, Exists
    <3>2. CASE y # x
      BY <3>2, <2>1, <1>5, <1>6, <1>7 DEF SwapInv, BounceSafe, Owning
    <3> QED
      BY <3>1, <3>2
  <2> QED
    BY <2>1 DEF BounceSafe
<1>10. ASSUME NEW y \in Items \ {x}
       PROVE  Own(y)' = Own(y) /\ DealOf(y)' = DealOf(y)
  <2>2. PICK c : c = cont[y] /\ c = cont'[y] /\ c \notin {w, v}
    BY <1>6, <1>7
  <2>3. OwnerOf(c)' = Own(y)' /\ DealAt(c)' = DealOf(y)'
    BY <2>2 DEF Own, DealOf, OwnerOf, DealAt
  <2>4. OwnerOf(c) = Own(y) /\ DealAt(c) = DealOf(y)
    BY <2>2, OwnIsOwner
  <2> QED
    BY <2>2, <2>3, <2>4, <1>5
<1>11. Own(x) = Gone
  BY <1>1, SortAssumption DEF Own
<1>12. Own(x)' = p /\ DealOf(x)' = {w, v}
  <2>1. w \notin Players
    BY SortAssumption
  <2> QED
    BY <2>1, <1>2, <1>3, <1>4 DEF Own, DealOf, Pair, Peer
<1>13. Promise!Acquire(p, x, {w, v})
  BY <1>10, <1>11, <1>12 DEF Promise!Acquire
<1>14. {w, v} \in Deals
  BY DEF Deals
<1> QED
  BY <1>8, <1>9, <1>13, <1>14 DEF SwapInv, Promise!SwapNext

-----------------------------------------------------------------------------
(* The end of trades.                                                      *)

\* Containers outside the windows that are deleted are what they were.
LEMMA DeletedContainers ==
    ASSUME NEW W, Delete(W), NEW c, c \notin W
    PROVE  /\ Owning(c)' <=> Owning(c)
           /\ OwnerOf(c)' = OwnerOf(c)
           /\ DealAt(c)' = DealAt(c)
BY DEF Delete, Owning, OwnerOf, DealAt, Exists, Pair, Peer

\* A window that is deleted owns nothing any more.
LEMMA DeletedWindow ==
    ASSUME NEW W, W \subseteq Windows, Delete(W), NEW c, c \in W
    PROVE  ~Owning(c)'
BY SortAssumption DEF Delete, Owning, Exists, Closed

\* Only items in the windows of a pair are part of its deal.
LEMMA DealOfPair ==
    ASSUME TradeInv, NEW w \in Windows, Exists(w), NEW x \in Items
    PROVE  /\ DealOf(x) = Pair(w) <=> cont[x] \in Pair(w)
           /\ cont[x] \in Pair(w) => /\ cont[x] \in Windows /\ Exists(cont[x])
                                     /\ Own(x) \in {win[w].owner, win[Peer(w)].owner}
<1>1. /\ Peer(w) \in Windows /\ Exists(Peer(w)) /\ Peer(Peer(w)) = w
  BY ExistsTyped DEF TradeInv, PairedWindows, TradeWindow, Peer
<1>2. w \notin Players /\ Peer(w) \notin Players
  BY <1>1, SortAssumption
<1>3. CASE cont[x] \in Pair(w)
  BY <1>1, <1>2, <1>3 DEF Pair, DealOf, Own
<1>4. CASE cont[x] \notin Pair(w)
  <2>1. CASE cont[x] \in Windows /\ Exists(cont[x])
    BY <2>1, <1>4 DEF DealOf, Pair
  <2>2. CASE ~(cont[x] \in Windows /\ Exists(cont[x]))
    BY <2>2, <1>4 DEF DealOf, Pair
  <2> QED
    BY <2>1, <2>2
<1> QED
  BY <1>3, <1>4

\* Items leave the windows W, which are deleted, for containers outside W, and
\* nothing else moves: no bounce can go wrong after that.
LEMMA EmptiedInv ==
    ASSUME SwapInv, TradeInv', NEW W, W \subseteq Windows, Delete(W),
           NEW to \in [Items -> Containers], Move(to),
           \A x \in Items : cont[x] \notin W => to[x] = cont[x],
           \A x \in Items : cont[x] \in W => to[x] \notin W
    PROVE  SwapInv'
<1>1. ItemsTyped'
  BY DEF SwapInv, ItemsTyped, Move
<1>2. ASSUME NEW x \in Items, Owning(cont[x])'
      PROVE  (oldcont[x] = cont[x] \/ ~Owning(oldcont[x]))'
  <2>1. CASE cont[x] \in W
    <3>1. oldcont'[x] = cont[x]
      BY <2>1 DEF Move
    <3> QED
      BY <3>1, <2>1, DeletedWindow DEF Owning, Exists
  <2>2. CASE cont[x] \notin W
    <3>1. cont'[x] = cont[x] /\ oldcont'[x] = oldcont[x]
      BY <2>2 DEF Move
    <3>2. Owning(cont[x])
      BY <3>1, <2>2, <1>2, DeletedContainers DEF Owning, Exists
    <3>3. oldcont[x] = cont[x] \/ ~Owning(oldcont[x])
      BY <3>2 DEF SwapInv, BounceSafe
    <3>4. ~Owning(oldcont[x]) => ~Owning(oldcont[x])'
      BY <3>1, DeletedWindow, DeletedContainers DEF Owning, Exists
    <3> QED
      BY <3>1, <3>3, <3>4
  <2> QED
    BY <2>1, <2>2
<1> QED
  BY <1>1, <1>2 DEF SwapInv, BounceSafe

\* The trades of the windows W are called off; their items go to the owners of
\* the windows they are in, except that nobody owns the items S any more.
LEMMA CalledOff ==
    ASSUME SwapInv, NEW W, WholePairs(W), \A w \in W : Exists(w), Delete(W),
           NEW S \in SUBSET Items,
           \A x \in S : Own(x)' = Gone /\ DealOf(x)' = {},
           \A x \in Items \ S :
              cont'[x] = IF cont[x] \in W THEN win[cont[x]].owner ELSE cont[x]
    PROVE  Promise!SwapNext
<1> DEFINE D == {DealOf(x) : x \in {y \in Items : cont[y] \in W}}
<1>1. ASSUME NEW x \in Items \ S, cont[x] \in W
      PROVE  DealOf(x) \in D /\ DealOf(x)' = {} /\ Own(x)' = Own(x)
  <2>1. win[cont[x]].owner \in Players /\ cont[x] \in Windows
    BY <1>1, ExistsTyped DEF WholePairs, SwapInv, TradeInv
  <2>2. cont'[x] \in Players /\ cont'[x] \notin Windows /\ cont[x] \notin Players
    BY <1>1, <2>1, SortAssumption
  <2>3. Own(x) = win[cont[x]].owner
    BY <1>1, <2>1, <2>2 DEF Own
  <2> QED
    BY <1>1, <2>2, <2>3 DEF Own, DealOf
<1>2. ASSUME NEW x \in Items \ S, cont[x] \notin W
      PROVE  DealOf(x) \notin D \ {{}} /\ DealOf(x)' = DealOf(x) /\ Own(x)' = Own(x)
  <2>1. PICK c : c = cont[x] /\ c = cont'[x] /\ c \notin W
    BY <1>2
  <2>2. /\ Own(x) = OwnerOf(c) /\ DealOf(x) = DealAt(c)
        /\ Own(x)' = OwnerOf(c)' /\ DealOf(x)' = DealAt(c)'
    BY <2>1 DEF Own, DealOf, OwnerOf, DealAt
  <2>3. DealAt(c) \notin D \ {{}}
    <3> SUFFICES ASSUME NEW y \in Items, cont[y] \in W, DealAt(c) = DealOf(y)
                 PROVE  FALSE
      <4>1. ASSUME DealAt(c) \in D PROVE FALSE
        BY <4>1
      <4> QED
        BY <4>1
    <3>1. DealOf(y) = Pair(cont[y]) /\ Pair(cont[y]) \subseteq W
      BY DEF DealOf, WholePairs, Pair
    <3>2. c \in DealAt(c)
      BY <3>1 DEF DealAt, Pair
    <3> QED
      BY <2>1, <3>1, <3>2
  <2> QED
    BY <2>1, <2>2, <2>3, DeletedContainers
<1>3. D \in SUBSET {DealOf(x) : x \in Items}
  OBVIOUS
<1>4. Promise!CallOff(D, S)
  <2> HIDE DEF D
  <2> QED
    BY <1>1, <1>2 DEF Promise!CallOff
<1> QED
  BY <1>3, <1>4 DEF Promise!SwapNext

\* endtrade(): by a cancel, or because one of the two is offline.
LEMMA SentBackSwap ==
    ASSUME SwapInv, TradeInv', NEW w \in Windows, Exists(w),
           Move(SentBack(Pair(w))), Delete(Pair(w))
    PROVE  SwapInv' /\ Promise!SwapNext
<1>1. WholePairs(Pair(w)) /\ \A v \in Pair(w) : Exists(v)
  BY PairIsWhole DEF SwapInv, TradeInv, PairedWindows, Pair
<1>2. \A v \in Pair(w) : v \in Windows /\ win[v].owner \in Players
  BY <1>1, ExistsTyped DEF WholePairs, SwapInv, TradeInv
<1>3. SentBack(Pair(w)) \in [Items -> Containers]
  BY <1>2 DEF SentBack, SwapInv, ItemsTyped, Containers
<1>4. ASSUME NEW x \in Items
      PROVE  /\ cont[x] \notin Pair(w) => SentBack(Pair(w))[x] = cont[x]
             /\ cont[x] \in Pair(w) => SentBack(Pair(w))[x] \notin Pair(w)
             /\ cont'[x] = IF cont[x] \in Pair(w) THEN win[cont[x]].owner ELSE cont[x]
  BY <1>2, SortAssumption DEF SentBack, Move
<1>5. SwapInv'
  BY <1>1, <1>3, <1>4, EmptiedInv DEF WholePairs
<1>6. Promise!SwapNext
  <2>1. {} \in SUBSET Items
    OBVIOUS
  <2> QED
    BY <1>1, <1>4, <2>1, CalledOff
<1> QED
  BY <1>5, <1>6

\* dotrade() and endtrade(): each item in the pair changes hands.
LEMMA ConcludeSwap ==
    ASSUME SwapInv, TradeInv', NEW w \in Windows, Exists(w),
           Move(Traded(w)), Delete(Pair(w))
    PROVE  SwapInv' /\ Promise!SwapNext
<1>1. CASE ~({win[v].owner : v \in Pair(w)} \subseteq online)
  BY <1>1, SentBackSwap DEF Traded
<1>2. CASE {win[v].owner : v \in Pair(w)} \subseteq online
  <2> DEFINE to == [x \in Items |-> IF cont[x] \in Pair(w)
                                    THEN win[Peer(cont[x])].owner ELSE cont[x]]
             p == win[w].owner
             q == win[Peer(w)].owner
  <2>1. Move(to)
    BY <1>2 DEF Traded
  <2>2. /\ Peer(w) \in Windows /\ Exists(Peer(w)) /\ Peer(Peer(w)) = w
        /\ p # q /\ p \in Players /\ q \in Players
    BY ExistsTyped DEF SwapInv, TradeInv, PairedWindows, TradeWindow, Peer
  <2>3. Pair(w) \subseteq Windows
    BY <2>2 DEF Pair
  <2>4. ASSUME NEW x \in Items
        PROVE  /\ to[x] \in Containers
               /\ cont[x] \in Pair(w) => to[x] \in {p, q} /\ to[x] \notin Pair(w)
               /\ cont[x] \notin Pair(w) => to[x] = cont[x]
    BY <2>2, SortAssumption DEF Pair, Peer, SwapInv, ItemsTyped, Containers
  <2>5. SwapInv'
    <3>1. to \in [Items -> Containers]
      BY <2>4
    <3> HIDE DEF to
    <3> QED
      BY <2>1, <2>3, <2>4, <3>1, EmptiedInv
  <2>6. ASSUME NEW x \in Items, cont[x] \in Pair(w)
        PROVE  /\ DealOf(x) = Pair(w) /\ Own(x) \in {p, q}
               /\ Own(x)' = IF Own(x) = p THEN q ELSE p
               /\ DealOf(x)' = {}
    <3>1. DealOf(x) = Pair(w) /\ Own(x) = win[cont[x]].owner
      <4>1. cont[x] \in Windows /\ Exists(cont[x])
        BY <2>6, <2>2 DEF Pair
      <4>2. cont[x] \notin Players
        BY <4>1, SortAssumption
      <4> QED
        BY <2>6, <4>1, <4>2, DealOfPair DEF Own, SwapInv
    <3>2. cont'[x] = win[Peer(cont[x])].owner
      BY <2>1, <2>6 DEF Move
    <3>3. cont'[x] = IF Own(x) = p THEN q ELSE p
      BY <2>2, <2>6, <3>1, <3>2 DEF Pair
    <3>4. cont'[x] \in Players /\ cont'[x] \notin Windows
      BY <2>2, <3>3, SortAssumption
    <3> QED
      BY <2>2, <2>6, <3>1, <3>3, <3>4 DEF Own, DealOf, Pair
  <2>7. ASSUME NEW x \in Items, cont[x] \notin Pair(w)
        PROVE  DealOf(x) # Pair(w) /\ Own(x)' = Own(x) /\ DealOf(x)' = DealOf(x)
    <3>1. PICK c : c = cont[x] /\ c = cont'[x] /\ c \notin Pair(w)
      BY <2>1, <2>7 DEF Move
    <3>2. /\ Own(x) = OwnerOf(c) /\ DealOf(x) = DealAt(c)
          /\ Own(x)' = OwnerOf(c)' /\ DealOf(x)' = DealAt(c)'
      BY <3>1 DEF Own, DealOf, OwnerOf, DealAt
    <3> QED
      BY <2>7, <3>1, <3>2, DealOfPair, DeletedContainers DEF SwapInv
  <2>8. Promise!Swap(Pair(w), p, q)
    <3>1. Promise!InDeal(Pair(w)) = {x \in Items : cont[x] \in Pair(w)}
      BY <2>6, <2>7 DEF Promise!InDeal
    <3> HIDE DEF p, q
    <3> QED
      BY <2>2, <2>6, <2>7, <3>1 DEF Promise!Swap
  <2>9. Pair(w) \in Deals
    BY <2>2 DEF Pair, Deals
  <2> QED
    BY <2>2, <2>5, <2>8, <2>9 DEF Promise!SwapNext
<1> QED
  BY <1>1, <1>2

\* Kill(): the trades of p are called off and p loses what is not kept.
LEMMA KillSwap ==
    ASSUME SwapInv, TradeInv', NEW p \in Players, Kill(p)
    PROVE  SwapInv' /\ Promise!SwapNext
<1> DEFINE W == UNION {Pair(w) : w \in {v \in Windows : win[v].owner = p}}
           back == SentBack(W)
           inPack == {x \in Items : back[x] = p}
<1>1. WholePairs(W) /\ \A w \in W : Exists(w)
  <2>1. WholePairs(W)
    BY TradesOfAreWhole DEF SwapInv, TradeInv
  <2>2. ASSUME NEW w \in Windows, win[w].owner = p
        PROVE  \A v \in Pair(w) : Exists(v)
    BY <2>2, ExistsTyped DEF SwapInv, TradeInv, PairedWindows, Pair
  <2> QED
    BY <2>1, <2>2
<1>2. Delete(W)
  BY DEF Kill
<1>3. PICK kept \in SUBSET inPack :
        /\ cont' = [x \in Items |-> IF x \in inPack \ kept THEN Corpse ELSE back[x]]
        /\ oldcont' = [x \in Items |-> IF x \in inPack THEN p
                                       ELSE IF cont[x] \in W THEN cont[x]
                                       ELSE oldcont[x]]
  BY DEF Kill
<1>4. ASSUME NEW x \in Items
      PROVE  /\ back[x] = IF cont[x] \in W THEN win[cont[x]].owner ELSE cont[x]
             /\ back[x] \in Containers /\ back[x] \notin W
  <2>1. cont[x] \in W => win[cont[x]].owner \in Players /\ cont[x] \in Windows
    BY <1>1, ExistsTyped DEF WholePairs, SwapInv, TradeInv
  <2>2. cont[x] \in Containers /\ W \subseteq Windows
    BY <1>1 DEF SwapInv, ItemsTyped, WholePairs
  <2> HIDE DEF W
  <2> QED
    BY <2>1, <2>2, SortAssumption DEF SentBack, Containers
<1>5. W \subseteq Windows
  BY <1>1 DEF WholePairs
<1> HIDE DEF W, back
<1>6. ItemsTyped'
  <2>1. Corpse \in Containers /\ p \in Containers
    BY DEF Containers
  <2>2. cont' \in [Items -> Containers]
    BY <1>3, <1>4, <2>1
  <2>3. oldcont' \in [Items -> Containers]
    BY <1>3, <2>1 DEF SwapInv, ItemsTyped
  <2> QED
    BY <2>2, <2>3 DEF ItemsTyped
<1>7. ASSUME NEW x \in Items, Owning(cont[x])'
      PROVE  (oldcont[x] = cont[x] \/ ~Owning(oldcont[x]))'
  <2>1. CASE x \in inPack
    <3>1. cont'[x] \in {Corpse, p} /\ oldcont'[x] = p
      BY <2>1, <1>3
    <3>2. cont'[x] # Corpse
      BY <1>7, SortAssumption DEF Owning
    <3> QED
      BY <3>1, <3>2
  <2>2. CASE x \notin inPack /\ cont[x] \in W
    <3>1. oldcont'[x] = cont[x]
      BY <2>2, <1>3
    <3> QED
      BY <3>1, <2>2, <1>2, <1>5, DeletedWindow DEF Owning, Exists
  <2>3. CASE x \notin inPack /\ cont[x] \notin W
    <3>1. cont'[x] = cont[x] /\ oldcont'[x] = oldcont[x]
      BY <2>3, <1>3, <1>4
    <3>2. Owning(cont[x])
      BY <3>1, <2>3, <1>2, <1>7, DeletedContainers DEF Owning, Exists
    <3>3. oldcont[x] = cont[x] \/ ~Owning(oldcont[x])
      BY <3>2 DEF SwapInv, BounceSafe
    <3>4. ~Owning(oldcont[x]) => ~Owning(oldcont[x])'
      BY <3>1, <1>2, <1>5, DeletedWindow, DeletedContainers DEF Owning, Exists
    <3> QED
      BY <3>1, <3>3, <3>4
  <2> QED
    BY <2>1, <2>2, <2>3
<1>8. SwapInv'
  BY <1>6, <1>7 DEF SwapInv, BounceSafe
<1>9. Promise!SwapNext
  <2> DEFINE S == inPack \ kept
  <2>1. ASSUME NEW x \in S PROVE Own(x)' = Gone /\ DealOf(x)' = {}
    <3>1. cont'[x] = Corpse
      BY <1>3
    <3> QED
      BY <3>1, SortAssumption DEF Own, DealOf
  <2>2. ASSUME NEW x \in Items \ S
        PROVE  cont'[x] = IF cont[x] \in W THEN win[cont[x]].owner ELSE cont[x]
    BY <1>3, <1>4
  <2>3. S \in SUBSET Items
    OBVIOUS
  <2> HIDE DEF S
  <2> QED
    BY <1>1, <1>2, <2>1, <2>2, <2>3, CalledOff
<1> QED
  BY <1>8, <1>9

-----------------------------------------------------------------------------
(* The other steps, and the theorems.                                      *)

\* A corpse decays with what is in it.
LEMMA CorpseDecaysSwap ==
    ASSUME SwapInv, TradeInv', NEW S \in SUBSET Items, CorpseDecays(S)
    PROVE  SwapInv' /\ [Promise!SwapNext]_(Promise!swapVars)
<1>1. /\ Corpse \in Containers /\ ~Owning(Corpse)
      /\ World \in Containers /\ ~Owning(World)
  BY SortAssumption DEF Containers, Owning
<1>2. /\ cont' = [x \in Items |-> IF x \in S THEN World ELSE cont[x]]
      /\ oldcont' = [x \in Items |-> IF x \in S THEN Corpse ELSE oldcont[x]]
      /\ \A x \in S : cont[x] = Corpse
      /\ SameWindows
  BY DEF CorpseDecays, SameWindows, Exists, Contents
<1>3. ItemsTyped'
  BY <1>1, <1>2 DEF SwapInv, ItemsTyped
<1> QED
  BY <1>1, <1>2, <1>3, OwnerlessStep

\* The server starts again from what was saved.
LEMMA RestartSwap ==
    ASSUME SwapInv, TradeInv', Restart
    PROVE  SwapInv' /\ [Promise!SwapNext]_(Promise!swapVars)
<1> DEFINE lost == {x \in Items : \/ cont[x] = World /\ ~at[x]
                                  \/ cont[x] \in Windows /\ ~Exists(cont[x])}
<1>1. /\ World \in Containers /\ ~Owning(World)
      /\ Gone \in Containers /\ ~Owning(Gone)
  BY SortAssumption DEF Containers, Owning
<1>2. /\ cont' = [x \in Items |-> IF x \in lost THEN Gone ELSE cont[x]]
      /\ oldcont' = [x \in Items |-> World]
      /\ SameWindows
  BY DEF Restart, SameWindows, Exists
<1>3. \A x \in lost : ~Owning(cont[x])
  BY SortAssumption DEF Owning
<1> HIDE DEF lost
<1>4. ItemsTyped'
  BY <1>1, <1>2 DEF SwapInv, ItemsTyped
<1> QED
  BY <1>1, <1>2, <1>3, <1>4, OwnerlessStep

\* An item put down where it is in the world: the ground.
LEMMA DropOnGroundSwap ==
    ASSUME SwapInv, TradeInv', NEW p \in Players, DropOnGround(p)
    PROVE  SwapInv' /\ [Promise!SwapNext]_(Promise!swapVars)
<1>1. World \in Containers /\ ~Owning(World)
  BY SortAssumption DEF Containers, Owning
<1>2. PICK x \in Items : /\ cont[x] = World /\ cont' = cont
                         /\ oldcont' = [oldcont EXCEPT ![x] = World]
                         /\ SameWindows
  BY DEF DropOnGround, SameWindows, Exists
<1>3. ItemsTyped'
  BY <1>1, <1>2 DEF SwapInv, ItemsTyped
<1>4. \A y \in Items : \/ cont'[y] = cont[y] /\ oldcont'[y] = oldcont[y]
                       \/ ~Owning(cont[y]) /\ ~Owning(cont'[y])
  BY <1>1, <1>2 DEF SwapInv, ItemsTyped
<1> QED
  BY <1>2, <1>3, <1>4, OwnerlessStep

\* Nothing moves.
LEMMA IdleStep ==
    ASSUME SwapInv, TradeInv', SameWindows, UNCHANGED items
    PROVE  SwapInv' /\ [Promise!SwapNext]_(Promise!swapVars)
<1>1. cont' = cont /\ oldcont' = oldcont
  BY DEF items
<1>2. ItemsTyped'
  BY <1>1 DEF SwapInv, ItemsTyped
<1> QED
  BY <1>1, <1>2, OwnerlessStep

\* Every step keeps the invariant and is a step of AtomicSwap or a stutter.
LEMMA SwapStep ==
    SwapInv /\ [Next]_vars => SwapInv' /\ [Promise!SwapNext]_(Promise!swapVars)
<1> SUFFICES ASSUME SwapInv, [Next]_vars
             PROVE  SwapInv' /\ [Promise!SwapNext]_(Promise!swapVars)
  OBVIOUS
<1>1. TradeInv'
  BY TradeInvStep DEF SwapInv
<1> DEFINE Goal == SwapInv' /\ [Promise!SwapNext]_(Promise!swapVars)
<1>2. ASSUME NEW p \in Players, NEW x \in Items, Get(p, x) \/ GetRefused(p, x)
      PROVE  Goal
  BY <1>1, <1>2, GetStep, GetRefusedStep
<1>3. ASSUME NEW x \in Items, Decay(x) PROVE Goal
  BY <1>1, <1>3, DecayStep
<1>4. ASSUME NEW S \in SUBSET Items, CorpseDecays(S) PROVE Goal
  BY <1>1, <1>4, CorpseDecaysSwap
<1>5. ASSUME NEW p \in Players,
             DropDeleted(p) \/ Connect(p) \/ Disconnect(p) \/ Resurrect(p)
      PROVE  Goal
  <2>1. UNCHANGED items /\ SameWindows
    BY <1>5 DEF DropDeleted, Connect, Disconnect, Resurrect, items, SameWindows, Exists
  <2> QED
    BY <1>1, <2>1, IdleStep
<1>6. ASSUME NEW p \in Players, DropTwice(p) \/ DropRefused(p) PROVE Goal
  <2>1. PICK x \in Items : Bounce(x) /\ SameWindows
    BY <1>6 DEF DropTwice, DropRefused, SameWindows, Exists
  <2> QED
    BY <1>1, <2>1, BounceStep
<1>7. ASSUME NEW p \in Players, DropInPack(p) PROVE Goal
  <2>1. PICK x \in Items : cont[x] = World /\ Put(x, p) /\ SameWindows
    BY <1>7 DEF DropInPack, SameWindows, Exists
  <2>2. p \in Containers
    BY DEF Containers
  <2> QED
    BY <1>1, <2>1, <2>2, PutStep
<1>8. ASSUME NEW p \in Players, DropOnGround(p) PROVE Goal
  BY <1>1, <1>8, DropOnGroundSwap
<1>9. ASSUME NEW p \in Players, Kill(p) PROVE Goal
  BY <1>1, <1>9, KillSwap
<1>10. ASSUME NEW p \in Players, NEW q \in Players, StartTrade(p, q) PROVE Goal
  BY <1>1, <1>10, StartTradeSwap
<1>11. ASSUME NEW p \in Players, NEW q \in Players, NoTrade(p, q) PROVE Goal
  BY <1>1, <1>11, IdleStep DEF NoTrade, SameWindows, Exists
<1>12. ASSUME NEW p \in Players, NEW w \in Windows, DropInWindow(p, w) PROVE Goal
  BY <1>1, <1>12, DropInWindowSwap
<1>13. ASSUME NEW p \in Players, NEW w \in Windows,
              DropInNoWindow(p, w) \/ CloseWindow(p, w)
       PROVE  Goal
  <2>1. UNCHANGED items /\ SameWindows
    BY <1>13 DEF DropInNoWindow, CloseWindow, items, SameWindows, Exists
  <2> QED
    BY <1>1, <2>1, IdleStep
<1>14. ASSUME NEW p \in Players, NEW w \in Windows, NEW m \in BOOLEAN, SetMark(p, w, m)
       PROVE  Goal
  <2>1. UNCHANGED items
    BY <1>14 DEF SetMark
  <2>2. SameWindows
    BY <1>14, SetMarkKeepsWindows DEF SwapInv
  <2> QED
    BY <1>1, <2>1, <2>2, IdleStep
<1>15. ASSUME NEW p \in Players, NEW w \in Windows, Conclude(p, w) PROVE Goal
  BY <1>1, <1>15, ConcludeSwap DEF Conclude, MayClick
<1>16. ASSUME NEW p \in Players, NEW w \in Windows, CancelTrade(p, w) PROVE Goal
  BY <1>1, <1>16, SentBackSwap DEF CancelTrade, MayClick
<1>17. CASE Restart
  BY <1>1, <1>17, RestartSwap
<1>18. CASE UNCHANGED vars
  BY <1>1, <1>18, IdleStep DEF vars, SameWindows, Exists
<1> QED
  BY <1>2, <1>3, <1>4, <1>5, <1>6, <1>7, <1>8, <1>9, <1>10, <1>11, <1>12, <1>13,
     <1>14, <1>15, <1>16, <1>17, <1>18
  DEF Next

\* Whoever has an item on the cursor, also when several clients lifted it: a
\* bounce takes it from nobody who owns it by then to give it to somebody else.
THEOREM BouncesNeverRob == Spec => []BounceSafe
<1>1. SwapInv => BounceSafe
  BY DEF SwapInv
<1> QED
  BY SwapInvInit, SwapStep, <1>1, PTL DEF Spec

\* The code of secure trades does what AtomicSwap promises: items pass from one
\* player to another only as a whole deal, whatever is lifted, dropped, bounced
\* or cancelled, and whoever dies, disconnects or restarts the server.
THEOREM TradesAreAtomic == Spec => ImplementsAtomicSwap
<1>1. Init => Promise!SwapInit
  BY PromiseInit
<1> QED
  BY SwapInvInit, SwapStep, <1>1, PTL DEF Spec, ImplementsAtomicSwap, Promise!SwapSpec

-----------------------------------------------------------------------------
(* The rest of the types.  What has a position in the world is in it: who  *)
(* moves an item out of the world takes the position with it.              *)

ClientsTyped ==
    /\ online \subseteq Players
    /\ hand \in [Players -> Items \cup {NoItem}]
    /\ open \subseteq Players \X Windows
    /\ shown \subseteq Items

PlacesTyped ==
    /\ \A x \in Items : at[x] => cont[x] = World
    /\ at \in [Items -> BOOLEAN] /\ oldat \in [Items -> BOOLEAN]

\* A move takes the position away from what it moves.
LEMMA MovePlaces ==
    ASSUME PlacesTyped, NEW to, Move(to) PROVE PlacesTyped'
BY DEF PlacesTyped, Move

\* The types of containers after a drop.
LEMMA PutPlaces ==
    ASSUME SwapInv, PlacesTyped, NEW x \in Items, NEW c, Put(x, c) PROVE PlacesTyped'
BY DEF SwapInv, ItemsTyped, PlacesTyped, Put

\* The types of containers after a refused drop.
LEMMA BouncePlaces ==
    ASSUME SwapInv, PlacesTyped, NEW x \in Items, Bounce(x) PROVE PlacesTyped'
BY DEF SwapInv, ItemsTyped, PlacesTyped, Bounce

\* What a corpse gets was in a pack or in a window, and had no position.
LEMMA KillPlaces ==
    ASSUME SwapInv, PlacesTyped, NEW p \in Players, Kill(p) PROVE PlacesTyped'
<1> DEFINE W == UNION {Pair(w) : w \in {v \in Windows : win[v].owner = p}}
           back == SentBack(W)
           inPack == {x \in Items : back[x] = p}
<1>1. PICK kept \in SUBSET inPack :
        cont' = [x \in Items |-> IF x \in inPack \ kept THEN Corpse ELSE back[x]]
  BY DEF Kill
<1>2. UNCHANGED <<at, oldat>>
  BY DEF Kill
<1>3. W \subseteq Windows
  BY TradesOfAreWhole DEF SwapInv, TradeInv, WholePairs
<1>4. ASSUME NEW x \in Items, at[x] PROVE cont'[x] = World
  <2>1. cont[x] = World /\ World \notin Windows /\ World \notin Players
    BY <1>4, SortAssumption DEF PlacesTyped
  <2>2. back[x] = World
    BY <2>1, <1>3 DEF SentBack
  <2>3. x \notin inPack
    BY <2>1, <2>2
  <2> QED
    BY <1>1, <2>2, <2>3
<1> QED
  BY <1>2, <1>4 DEF PlacesTyped

\* Every step keeps the types of containers.
LEMMA PlacesStep == SwapInv /\ PlacesTyped /\ [Next]_vars => PlacesTyped'
<1> SUFFICES ASSUME SwapInv, PlacesTyped, [Next]_vars PROVE PlacesTyped'
  OBVIOUS
<1>1. ASSUME NEW p \in Players, NEW x \in Items, Get(p, x) \/ GetRefused(p, x)
      PROVE  PlacesTyped'
  BY <1>1 DEF Get, GetRefused, PlacesTyped, SwapInv, ItemsTyped
<1>2. ASSUME NEW x \in Items, Decay(x) PROVE PlacesTyped'
  BY <1>2 DEF Decay, PlacesTyped, SwapInv, ItemsTyped
<1>3. ASSUME NEW S \in SUBSET Items, CorpseDecays(S) PROVE PlacesTyped'
  BY <1>3 DEF CorpseDecays, PlacesTyped
<1>4. ASSUME NEW p \in Players, DropTwice(p) \/ DropRefused(p) PROVE PlacesTyped'
  BY <1>4, BouncePlaces DEF DropTwice, DropRefused
<1>5. ASSUME NEW p \in Players, DropInPack(p) PROVE PlacesTyped'
  BY <1>5, PutPlaces DEF DropInPack
<1>6. ASSUME NEW p \in Players, DropOnGround(p) PROVE PlacesTyped'
  BY <1>6 DEF DropOnGround, PlacesTyped
<1>7. ASSUME NEW p \in Players, Kill(p) PROVE PlacesTyped'
  BY <1>7, KillPlaces
<1>8. ASSUME NEW p \in Players, NEW q \in Players, StartTrade(p, q) PROVE PlacesTyped'
  BY <1>8, PutPlaces DEF StartTrade
<1>9. ASSUME NEW p \in Players, NEW w \in Windows, DropInWindow(p, w) PROVE PlacesTyped'
  BY <1>9, PutPlaces, BouncePlaces DEF DropInWindow
<1>10. ASSUME NEW p \in Players, NEW w \in Windows, Conclude(p, w) \/ CancelTrade(p, w)
       PROVE  PlacesTyped'
  BY <1>10, MovePlaces DEF Conclude, CancelTrade
<1>11. CASE Restart
  BY <1>11, SortAssumption DEF Restart, PlacesTyped
<1>12. CASE UNCHANGED items
  BY <1>12 DEF items, PlacesTyped
<1>13. ASSUME NEW p \in Players,
              DropDeleted(p) \/ Connect(p) \/ Disconnect(p) \/ Resurrect(p)
       PROVE  UNCHANGED items
  BY <1>13 DEF DropDeleted, Connect, Disconnect, Resurrect
<1>14. ASSUME NEW p \in Players, NEW q \in Players, NoTrade(p, q) PROVE UNCHANGED items
  BY <1>14 DEF NoTrade
<1>15. ASSUME NEW p \in Players, NEW w \in Windows, DropInNoWindow(p, w) \/ CloseWindow(p, w)
       PROVE  UNCHANGED items
  BY <1>15 DEF DropInNoWindow, CloseWindow
<1>16. ASSUME NEW p \in Players, NEW w \in Windows, NEW m \in BOOLEAN, SetMark(p, w, m)
       PROVE  UNCHANGED items
  BY <1>16 DEF SetMark
<1>17. CASE UNCHANGED vars
  BY <1>12, <1>17 DEF vars
<1> QED
  BY <1>1, <1>2, <1>3, <1>4, <1>5, <1>6, <1>7, <1>8, <1>9, <1>10, <1>11, <1>12, <1>13,
     <1>14, <1>15, <1>16, <1>17
  DEF Next

\* Every step keeps the types of cursors and of what was seen.
LEMMA ClientsStep == ClientsTyped /\ [Next]_vars => ClientsTyped'
<1> SUFFICES ASSUME ClientsTyped, [Next]_vars PROVE ClientsTyped'
  OBVIOUS
<1>1. ASSUME NEW p \in Players, NEW x \in Items, Get(p, x) \/ GetRefused(p, x)
      PROVE  ClientsTyped'
  BY <1>1 DEF Get, GetRefused, clients, ClientsTyped
<1>2. ASSUME NEW x \in Items, Decay(x) PROVE ClientsTyped'
  BY <1>2 DEF Decay, ClientsTyped
<1>3. ASSUME NEW S \in SUBSET Items, CorpseDecays(S) PROVE ClientsTyped'
  BY <1>3 DEF CorpseDecays, ClientsTyped
<1>4. ASSUME NEW p \in Players,
             \/ DropDeleted(p) \/ DropTwice(p) \/ DropRefused(p)
             \/ DropInPack(p) \/ DropOnGround(p)
             \/ Connect(p) \/ Disconnect(p) \/ Resurrect(p)
      PROVE  ClientsTyped'
  BY <1>4 DEF DropDeleted, DropTwice, DropRefused, DropInPack, DropOnGround, Connect,
              Disconnect, Resurrect, Released, clients, ClientsTyped
<1>5. ASSUME NEW p \in Players, Kill(p) PROVE ClientsTyped'
  <2>1. shown' \subseteq Items
    BY <1>5 DEF Kill, ClientsTyped
  <2> QED
    BY <1>5, <2>1 DEF Kill, ClientsTyped
<1>6. ASSUME NEW p \in Players, NEW q \in Players, StartTrade(p, q) \/ NoTrade(p, q)
      PROVE  ClientsTyped'
  BY <1>6 DEF StartTrade, NoTrade, Released, ClientsTyped
<1>7. ASSUME NEW p \in Players, NEW w \in Windows,
             DropInWindow(p, w) \/ DropInNoWindow(p, w) \/ CloseWindow(p, w)
      PROVE  ClientsTyped'
  BY <1>7 DEF DropInWindow, DropInNoWindow, CloseWindow, Released, ClientsTyped
<1>8. ASSUME NEW p \in Players, NEW w \in Windows, NEW m \in BOOLEAN,
             SetMark(p, w, m) \/ Conclude(p, w) \/ CancelTrade(p, w)
      PROVE  ClientsTyped'
  BY <1>8 DEF SetMark, Conclude, CancelTrade, clients, ClientsTyped
<1>9. CASE Restart
  BY <1>9 DEF Restart, ClientsTyped
<1>10. CASE UNCHANGED vars
  BY <1>10 DEF vars, clients, ClientsTyped
<1> QED
  BY <1>1, <1>2, <1>3, <1>4, <1>5, <1>6, <1>7, <1>8, <1>9, <1>10 DEF Next

\* Every handler leaves the state well typed; above all, an item with a
\* position that clients can see and reach is in no container.
THEOREM TradeTypeCorrect == Spec => []TypeOK
<1>1. Init => PlacesTyped /\ ClientsTyped
  BY DEF Init, PlacesTyped, ClientsTyped
<1>2. SwapInv /\ PlacesTyped /\ ClientsTyped => TypeOK
  BY DEF SwapInv, TradeInv, WinTyped, TradeWindow, ItemsTyped, PlacesTyped, ClientsTyped,
         TypeOK
<1> QED
  BY SwapInvInit, SwapStep, PlacesStep, ClientsStep, <1>1, <1>2, PTL DEF Spec
-----------------------------------------------------------------------------
(* Whoever gives has agreed.  When no two clients have the same item on    *)
(* their cursors, what comes back into a marked window by a bounce was     *)
(* taken out of it by its owner, and had been there at the check mark: the *)
(* owner cannot have set the mark with the item on the cursor.             *)

HandsApart == \A p, q \in Players : hand[p] = hand[q] /\ hand[p] \in Items => p = q

HeldInWorld == \A p \in Players : hand[p] \in Items => cont[hand[p]] \in {World, Gone}

OpenOwn == \A p \in Players, w \in Windows : <<p, w>> \in open => win[w].owner \in {p, Gone}

MarkSeen == \A x \in Items, w \in Windows : cont[x] = w /\ win[w].mark => x \in seen[w]

CursorBack ==
    \A p \in Players, x \in Items, w \in Windows :
        hand[p] = x /\ cont[x] = World /\ oldcont[x] = w =>
            win[w].owner \in {p, Gone} /\ (win[w].mark => x \in seen[w])

AgreeInv ==
    /\ ~Races /\ seen \in [Windows -> SUBSET Items]
    /\ HandsApart /\ HeldInWorld /\ OpenOwn /\ MarkSeen /\ CursorBack

\* Window w is as it was, or lost its check mark and perhaps its existence.
Calmer(w) ==
    \/ win'[w] = win[w] /\ seen'[w] = seen[w]
    \/ ~win'[w].mark /\ win'[w].owner \in {win[w].owner, Gone}

\* The handlers that neither start a trade, nor set a mark, nor lift an item.
LEMMA CalmStep ==
    ASSUME AgreeInv, \A w \in Windows : Calmer(w), seen' \in [Windows -> SUBSET Items],
           open' \subseteq open,
           \A p \in Players : hand'[p] \in Items => hand'[p] = hand[p],
           \A x \in Items, w \in Windows : cont'[x] = w =>
               \/ cont[x] = w
               \/ \E p \in Players : hand[p] = x /\ cont[x] = World /\ oldcont[x] = w
               \/ ~win'[w].mark,
           \A p \in Players, x \in Items : hand'[p] = x =>
               \/ cont'[x] = Gone
               \/ cont'[x] = cont[x] /\ oldcont'[x] \in {oldcont[x], World}
    PROVE  AgreeInv'
<1>1. HandsApart'
  BY DEF AgreeInv, HandsApart
<1>2. HeldInWorld'
  <2> SUFFICES ASSUME NEW p \in Players, hand'[p] \in Items
               PROVE  cont'[hand'[p]] \in {World, Gone}
    BY DEF HeldInWorld
  <2>1. hand'[p] = hand[p] /\ cont[hand[p]] \in {World, Gone}
    BY DEF AgreeInv, HeldInWorld
  <2> QED
    BY <2>1
<1>3. OpenOwn'
  <2> SUFFICES ASSUME NEW p \in Players, NEW w \in Windows, <<p, w>> \in open'
               PROVE  win'[w].owner \in {p, Gone}
    BY DEF OpenOwn
  <2>1. win[w].owner \in {p, Gone} /\ Calmer(w)
    BY DEF AgreeInv, OpenOwn
  <2> QED
    BY <2>1 DEF Calmer
<1>4. MarkSeen'
  <2> SUFFICES ASSUME NEW x \in Items, NEW w \in Windows, cont'[x] = w, win'[w].mark
               PROVE  x \in seen'[w]
    BY DEF MarkSeen
  <2>1. win'[w] = win[w] /\ seen'[w] = seen[w]
    BY DEF Calmer
  <2>2. CASE cont[x] = w
    BY <2>1, <2>2 DEF AgreeInv, MarkSeen
  <2>3. CASE \E p \in Players : hand[p] = x /\ cont[x] = World /\ oldcont[x] = w
    BY <2>1, <2>3 DEF AgreeInv, CursorBack
  <2> QED
    BY <2>2, <2>3
<1>5. CursorBack'
  <2> SUFFICES ASSUME NEW p \in Players, NEW x \in Items, NEW w \in Windows,
                      hand'[p] = x, cont'[x] = World, oldcont'[x] = w
               PROVE  win'[w].owner \in {p, Gone} /\ (win'[w].mark => x \in seen'[w])
    BY DEF CursorBack
  <2>1. hand[p] = x /\ cont[x] = World /\ oldcont[x] = w
    BY SortAssumption
  <2>2. win[w].owner \in {p, Gone} /\ (win[w].mark => x \in seen[w])
    BY <2>1 DEF AgreeInv, CursorBack
  <2>3. Calmer(w)
    OBVIOUS
  <2> QED
    BY <2>2, <2>3 DEF Calmer
<1> QED
  BY <1>1, <1>2, <1>3, <1>4, <1>5 DEF AgreeInv

\* A client that lifts an item from a marked window of its own.
LEMMA GetAgree ==
    ASSUME SwapInv, ClientsTyped, AgreeInv, NEW p \in Players, NEW x \in Items, Get(p, x)
    PROVE  AgreeInv'
<1>1. /\ hand[p] = NoItem /\ \A q \in Players : hand[q] # x
      /\ hand' = [hand EXCEPT ![p] = x] /\ cont' = [cont EXCEPT ![x] = World]
      /\ oldcont' = [oldcont EXCEPT ![x] = cont[x]]
      /\ win' = win /\ open' = open /\ seen' = seen
  BY DEF Get, AgreeInv
<1>2. cont[x] \in Windows => win[cont[x]].owner = p
  BY SortAssumption DEF Get
<1>3. /\ \A q \in Players : hand'[q] = IF q = p THEN x ELSE hand[q]
      /\ \A y \in Items : cont'[y] = IF y = x THEN World ELSE cont[y]
      /\ \A y \in Items : oldcont'[y] = IF y = x THEN cont[x] ELSE oldcont[y]
  BY <1>1 DEF SwapInv, ItemsTyped, ClientsTyped
<1>4. HandsApart' /\ HeldInWorld'
  BY <1>1, <1>3 DEF AgreeInv, HandsApart, HeldInWorld
<1>5. OpenOwn'
  BY <1>1 DEF AgreeInv, OpenOwn
<1>6. MarkSeen'
  BY <1>1, <1>3, SortAssumption DEF AgreeInv, MarkSeen
<1>7. CursorBack'
  <2> SUFFICES ASSUME NEW q \in Players, NEW y \in Items, NEW w \in Windows,
                      hand'[q] = y, cont'[y] = World, oldcont'[y] = w
               PROVE  win[w].owner \in {q, Gone} /\ (win[w].mark => y \in seen[w])
    BY <1>1 DEF CursorBack
  <2>1. CASE y = x
    <3>1. q = p /\ cont[x] = w
      BY <1>1, <1>3, <2>1
    <3> QED
      BY <1>2, <2>1, <3>1 DEF AgreeInv, MarkSeen
  <2>2. CASE y # x
    <3>1. hand[q] = y /\ cont[y] = World /\ oldcont[y] = w
      BY <1>3, <2>2
    <3> QED
      BY <3>1 DEF AgreeInv, CursorBack
  <2> QED
    BY <2>1, <2>2
<1> QED
  BY <1>1, <1>4, <1>5, <1>6, <1>7 DEF AgreeInv

\* The owner has nothing on the cursor, so nothing that the mark does not see
\* can come back.
LEMMA SetMarkAgree ==
    ASSUME SwapInv, ClientsTyped, AgreeInv, NEW p \in Players, NEW w \in Windows,
           NEW m \in BOOLEAN, SetMark(p, w, m)
    PROVE  AgreeInv'
<1>1. /\ hand[p] = NoItem /\ <<p, w>> \in open /\ Exists(w)
      /\ win' = [win EXCEPT ![w].mark = m]
      /\ seen' = [seen EXCEPT ![w] = IF m THEN Contents(w) ELSE {}]
      /\ hand' = hand /\ cont' = cont /\ oldcont' = oldcont /\ open' = open
  BY DEF SetMark, MayClick, items, clients
<1>2. win[w] \in TradeWindow /\ win[w].owner = p
  BY <1>1, ExistsTyped, SortAssumption DEF SwapInv, TradeInv, AgreeInv, OpenOwn
<1>3. /\ win'[w].owner = p /\ win'[w].mark = m
      /\ \A v \in Windows : v # w => win'[v] = win[v]
  BY <1>1, <1>2 DEF SwapInv, TradeInv, WinTyped, TradeWindow
<1>4. HandsApart' /\ HeldInWorld'
  BY <1>1 DEF AgreeInv, HandsApart, HeldInWorld
<1>5. OpenOwn'
  BY <1>1, <1>2, <1>3 DEF AgreeInv, OpenOwn
<1>6. /\ seen' \in [Windows -> SUBSET Items]
      /\ \A v \in Windows : v # w => seen'[v] = seen[v]
      /\ m => seen'[w] = Contents(w)
  <2>1. Contents(w) \in SUBSET Items
    BY DEF Contents
  <2> QED
    BY <1>1, <2>1 DEF AgreeInv
<1>7. MarkSeen'
  <2> SUFFICES ASSUME NEW x \in Items, NEW v \in Windows, cont[x] = v, win'[v].mark
               PROVE  x \in seen'[v]
    BY <1>1 DEF MarkSeen
  <2>1. CASE v = w
    BY <1>3, <1>6, <2>1 DEF Contents
  <2>2. CASE v # w
    BY <1>3, <1>6, <2>2 DEF AgreeInv, MarkSeen
  <2> QED
    BY <2>1, <2>2
<1>8. CursorBack'
  <2> SUFFICES ASSUME NEW q \in Players, NEW x \in Items, NEW v \in Windows,
                      hand[q] = x, cont[x] = World, oldcont[x] = v
               PROVE  win'[v].owner \in {q, Gone} /\ (win'[v].mark => x \in seen'[v])
    BY <1>1 DEF CursorBack
  <2>1. win[v].owner \in {q, Gone} /\ (win[v].mark => x \in seen[v])
    BY DEF AgreeInv, CursorBack
  <2>2. v # w
    BY <1>1, <1>2, <2>1, SortAssumption
  <2> QED
    BY <1>3, <1>6, <2>1, <2>2
<1> QED
  BY <1>1, <1>4, <1>5, <1>6, <1>7, <1>8 DEF AgreeInv

\* The windows of a new trade are in nobody's memory.
LEMMA StartTradeAgree ==
    ASSUME SwapInv, ClientsTyped, AgreeInv, NEW p \in Players, NEW q \in Players,
           StartTrade(p, q)
    PROVE  AgreeInv'
<1>1. PICK x \in Items, w, v \in Windows :
        /\ hand[p] = x /\ cont[x] = World /\ w # v /\ Fresh(w) /\ Fresh(v)
        /\ win' = [win EXCEPT ![w] = [owner |-> p, peer |-> v, mark |-> FALSE],
                              ![v] = [owner |-> q, peer |-> w, mark |-> FALSE]]
        /\ open' = open \cup {<<p, w>>, <<q, v>>}
        /\ cont' = [cont EXCEPT ![x] = w] /\ oldcont' = [oldcont EXCEPT ![x] = cont[x]]
        /\ hand' = [hand EXCEPT ![p] = NoItem] /\ seen' = seen
  BY DEF StartTrade, Holding, Put, Released
<1>2. /\ win'[w].owner = p /\ ~win'[w].mark /\ win'[v].owner = q /\ ~win'[v].mark
      /\ \A u \in Windows : u # w /\ u # v => win'[u] = win[u]
  BY <1>1 DEF SwapInv, TradeInv, WinTyped
<1>3. /\ \A z \in Players : hand'[z] = IF z = p THEN NoItem ELSE hand[z]
      /\ \A y \in Items : cont'[y] = IF y = x THEN w ELSE cont[y]
      /\ \A y \in Items : y # x => oldcont'[y] = oldcont[y]
  BY <1>1 DEF SwapInv, ItemsTyped, ClientsTyped
<1>4. /\ \A y \in Items : oldcont[y] # w /\ oldcont[y] # v
      /\ \A z \in Players : <<z, w>> \notin open /\ <<z, v>> \notin open
  BY <1>1 DEF Fresh
<1>5. HandsApart' /\ HeldInWorld'
  BY <1>1, <1>3, SortAssumption DEF AgreeInv, HandsApart, HeldInWorld
<1>6. OpenOwn'
  <2> SUFFICES ASSUME NEW z \in Players, NEW u \in Windows, <<z, u>> \in open'
               PROVE  win'[u].owner \in {z, Gone}
    BY DEF OpenOwn
  <2>1. CASE <<z, u>> \in open
    BY <1>2, <1>4, <2>1 DEF AgreeInv, OpenOwn
  <2>2. CASE <<z, u>> \in {<<p, w>>, <<q, v>>}
    BY <1>2, <2>2
  <2> QED
    BY <1>1, <2>1, <2>2
<1>7. MarkSeen'
  <2> SUFFICES ASSUME NEW y \in Items, NEW u \in Windows, cont'[y] = u, win'[u].mark
               PROVE  y \in seen[u]
    BY <1>1 DEF MarkSeen
  <2>1. u # w /\ u # v
    BY <1>2
  <2> QED
    BY <1>2, <1>3, <2>1 DEF AgreeInv, MarkSeen
<1>8. CursorBack'
  <2> SUFFICES ASSUME NEW z \in Players, NEW y \in Items, NEW u \in Windows,
                      hand'[z] = y, cont'[y] = World, oldcont'[y] = u
               PROVE  win'[u].owner \in {z, Gone} /\ (win'[u].mark => y \in seen[u])
    BY <1>1 DEF CursorBack
  <2>1. y # x
    BY <1>3, SortAssumption
  <2>2. hand[z] = y /\ cont[y] = World /\ oldcont[y] = u
    BY <1>3, <2>1, SortAssumption
  <2>3. u # w /\ u # v
    BY <1>4, <2>2
  <2> QED
    BY <1>2, <2>2, <2>3 DEF AgreeInv, CursorBack
<1> QED
  BY <1>1, <1>5, <1>6, <1>7, <1>8 DEF AgreeInv

\* An item comes off a cursor, into the world, a pack or the place it was
\* taken from.
LEMMA DropAgree ==
    ASSUME SwapInv, ClientsTyped, AgreeInv, NEW p \in Players,
           \/ DropTwice(p) \/ DropRefused(p) \/ DropInPack(p) \/ DropOnGround(p)
           \/ \E w \in Windows : DropInWindow(p, w)
    PROVE  AgreeInv'
<1>1. PICK x \in Items :
        /\ hand[p] = x /\ Released(p) /\ open' = open
        /\ \/ Bounce(x) /\ cont[x] # Gone /\ UNCHANGED <<win, seen>>
           \/ Put(x, p) /\ UNCHANGED <<win, seen>>
           \/ /\ cont' = cont /\ oldcont' = [oldcont EXCEPT ![x] = World]
              /\ UNCHANGED <<win, seen>>
           \/ \E w \in Windows :
                /\ <<p, w>> \in open /\ win[w].owner = p /\ Unmark(w)
                /\ cont[x] # Gone
                /\ IF cont[x] = World THEN Put(x, w) ELSE Bounce(x)
  BY SortAssumption
  DEF DropTwice, DropRefused, DropInPack, DropOnGround, DropInWindow, Holding
<1>2. cont[x] \in {World, Gone}
  BY <1>1 DEF AgreeInv, HeldInWorld
<1>3. /\ \A q \in Players : hand'[q] = IF q = p THEN NoItem ELSE hand[q]
      /\ \A q \in Players : hand'[q] # x
  BY <1>1, SortAssumption DEF Released, ClientsTyped, AgreeInv, HandsApart
<1>4. \A y \in Items : y # x => cont'[y] = cont[y] /\ oldcont'[y] = oldcont[y]
  BY <1>1 DEF SwapInv, ItemsTyped, Bounce, Put
<1>5. /\ \A u \in Windows : Calmer(u)
      /\ seen' \in [Windows -> SUBSET Items]
      /\ \A u \in Windows : cont'[x] = u =>
           \/ cont[x] = u
           \/ cont[x] = World /\ oldcont[x] = u
           \/ ~win'[u].mark
  <2>1. CASE Bounce(x) /\ cont[x] # Gone /\ UNCHANGED <<win, seen>>
    BY <1>2, <2>1 DEF Bounce, Calmer, AgreeInv, SwapInv, ItemsTyped
  <2>2. CASE Put(x, p) /\ UNCHANGED <<win, seen>>
    BY <2>2, SortAssumption DEF Put, Calmer, AgreeInv, SwapInv, ItemsTyped
  <2>3. CASE cont' = cont /\ UNCHANGED <<win, seen>>
    BY <2>3 DEF Calmer, AgreeInv
  <2>4. CASE \E w \in Windows :
               /\ <<p, w>> \in open /\ win[w].owner = p /\ Unmark(w)
               /\ cont[x] # Gone
               /\ IF cont[x] = World THEN Put(x, w) ELSE Bounce(x)
    <3>1. PICK w \in Windows :
            win[w].owner = p /\ Unmark(w) /\ cont[x] # Gone
            /\ IF cont[x] = World THEN Put(x, w) ELSE Bounce(x)
      BY <2>4
    <3>2. Exists(w) /\ Exists(Peer(w)) /\ Peer(w) \in Windows
      BY <3>1, ExistsTyped DEF SwapInv, TradeInv, PairedWindows, TradeWindow, Peer
    <3>3. \A u \in Pair(w) : u \in Windows /\ win[u] \in TradeWindow
      BY <3>2, ExistsTyped DEF SwapInv, TradeInv, Pair
    <3>4. /\ \A u \in Pair(w) : ~win'[u].mark /\ win'[u].owner = win[u].owner
          /\ \A u \in Windows \ Pair(w) : win'[u] = win[u] /\ seen'[u] = seen[u]
      BY <3>1, <3>3 DEF Unmark, TradeWindow
    <3>5. \A u \in Windows : Calmer(u)
      BY <3>4 DEF Calmer
    <3>6. seen' \in [Windows -> SUBSET Items]
      BY <3>1 DEF Unmark, AgreeInv
    <3>7. cont'[x] = w /\ w \in Pair(w)
      BY <1>2, <3>1 DEF Put, SwapInv, ItemsTyped, Pair
    <3> QED
      BY <3>4, <3>5, <3>6, <3>7
  <2> QED
    BY <1>1, <2>1, <2>2, <2>3, <2>4
<1>6. \A q \in Players : hand'[q] \in Items => hand'[q] = hand[q]
  BY <1>3, SortAssumption
<1>7. \A y \in Items, u \in Windows : cont'[y] = u =>
        \/ cont[y] = u
        \/ \E q \in Players : hand[q] = y /\ cont[y] = World /\ oldcont[y] = u
        \/ ~win'[u].mark
  BY <1>1, <1>4, <1>5
<1>8. \A q \in Players, y \in Items : hand'[q] = y =>
        \/ cont'[y] = Gone
        \/ cont'[y] = cont[y] /\ oldcont'[y] \in {oldcont[y], World}
  BY <1>3, <1>4
<1> QED
  BY <1>1, <1>5, <1>6, <1>7, <1>8, CalmStep

\* The end of trades: what was in their windows is with a player, what is on a
\* cursor stays there.
LEMMA EndAgree ==
    ASSUME SwapInv, AgreeInv, NEW W \in SUBSET Windows, Delete(W),
           hand' = hand, open' \subseteq open,
           \A x \in Items, w \in Windows : cont'[x] = w => cont[x] = w,
           \A x \in Items : cont[x] \in {World, Gone} =>
               cont'[x] = cont[x] /\ oldcont'[x] = oldcont[x]
    PROVE  AgreeInv'
<1>1. \A w \in Windows : Calmer(w)
  BY DEF Delete, Calmer, Closed
<1>2. seen' \in [Windows -> SUBSET Items]
  BY DEF Delete, AgreeInv
<1>3. \A p \in Players, x \in Items : hand'[p] = x =>
        cont'[x] = cont[x] /\ oldcont'[x] \in {oldcont[x], World}
  BY DEF AgreeInv, HeldInWorld
<1> QED
  BY <1>1, <1>2, <1>3, CalmStep

\* What Kill() does to the items of a trade and of the pack.
LEMMA KillMoves ==
    ASSUME SwapInv, NEW p \in Players, Kill(p)
    PROVE  \E W \in SUBSET Windows :
              /\ Delete(W)
              /\ \A x \in Items :
                    \/ cont'[x] = Corpse
                    \/ cont[x] \in W /\ cont'[x] = win[cont[x]].owner
                    \/ cont[x] \notin W /\ cont'[x] = cont[x]
              /\ \A x \in Items : cont[x] \in {World, Gone} =>
                    cont'[x] = cont[x] /\ oldcont'[x] = oldcont[x]
<1> DEFINE W == UNION {Pair(w) : w \in {v \in Windows : win[v].owner = p}}
           back == SentBack(W)
           inPack == {x \in Items : back[x] = p}
<1>1. PICK kept \in SUBSET inPack :
        /\ cont' = [x \in Items |-> IF x \in inPack \ kept THEN Corpse ELSE back[x]]
        /\ oldcont' = [x \in Items |-> IF x \in inPack THEN p
                                       ELSE IF cont[x] \in W THEN cont[x]
                                       ELSE oldcont[x]]
  BY DEF Kill
<1>2. Delete(W)
  BY DEF Kill
<1>3. W \subseteq Windows
  BY TradesOfAreWhole DEF SwapInv, TradeInv, WholePairs
<1> HIDE DEF W
<1>4. \A x \in Items : back[x] = IF cont[x] \in W THEN win[cont[x]].owner ELSE cont[x]
  BY DEF SentBack
<1>5. ASSUME NEW x \in Items, cont[x] \in {World, Gone}
      PROVE  cont'[x] = cont[x] /\ oldcont'[x] = oldcont[x]
  <2>1. cont[x] \notin W /\ cont[x] # p
    BY <1>3, <1>5, SortAssumption
  <2> QED
    BY <1>1, <1>4, <2>1
<1>6. ASSUME NEW x \in Items
      PROVE  \/ cont'[x] = Corpse
             \/ cont[x] \in W /\ cont'[x] = win[cont[x]].owner
             \/ cont[x] \notin W /\ cont'[x] = cont[x]
  BY <1>1, <1>4
<1> QED
  BY <1>2, <1>3, <1>5, <1>6

\* What the end of one trade does to its items.
LEMMA TradeEndMoves ==
    ASSUME SwapInv, NEW p \in Players, NEW w \in Windows,
           Conclude(p, w) \/ CancelTrade(p, w)
    PROVE  /\ Exists(w) /\ Delete(Pair(w)) /\ Pair(w) \in SUBSET Windows
           /\ \A x \in Items :
                 \/ /\ cont[x] \in Pair(w)
                    /\ \/ cont'[x] = win[cont[x]].owner
                       \/ Conclude(p, w) /\ cont'[x] = win[Peer(cont[x])].owner
                 \/ cont[x] \notin Pair(w) /\ cont'[x] = cont[x]
           /\ \A x \in Items : cont'[x] = cont[x] => oldcont'[x] = oldcont[x]
<1>1. Exists(w) /\ Delete(Pair(w))
  BY DEF Conclude, CancelTrade, MayClick
<1>2. Pair(w) \in SUBSET Windows
  BY <1>1, ExistsTyped DEF SwapInv, TradeInv, TradeWindow, Pair, Peer
<1>3. CASE Conclude(p, w)
  BY <1>1, <1>2, <1>3 DEF Conclude, Move, Traded, SentBack
<1>4. CASE CancelTrade(p, w)
  BY <1>1, <1>2, <1>4 DEF CancelTrade, Move, SentBack
<1> QED
  BY <1>3, <1>4

\* An owner is a player, or Gone.
LEMMA OwnersTyped ==
    ASSUME WinTyped, NEW w \in Windows
    PROVE  win[w].owner \in Players \cup {Gone}
BY ExistsTyped

\* A trade that ends leaves no window in which something was not seen.
LEMMA TradeEndAgree ==
    ASSUME SwapInv, AgreeInv, NEW p \in Players,
           Kill(p) \/ \E w \in Windows : Conclude(p, w) \/ CancelTrade(p, w)
    PROVE  AgreeInv'
<1>1. /\ \A w \in Windows : win[w].owner \in Players \cup {Gone}
      /\ {World, Corpse, Gone} \cap Windows = {} /\ Players \cap Windows = {}
  BY OwnersTyped, SortAssumption DEF SwapInv, TradeInv
<1>2. CASE Kill(p)
  <2>1. hand' = hand /\ open' = open
    BY <1>2 DEF Kill
  <2>2. PICK W \in SUBSET Windows :
          /\ Delete(W)
          /\ \A x \in Items :
                \/ cont'[x] = Corpse
                \/ cont[x] \in W /\ cont'[x] = win[cont[x]].owner
                \/ cont[x] \notin W /\ cont'[x] = cont[x]
          /\ \A x \in Items : cont[x] \in {World, Gone} =>
                cont'[x] = cont[x] /\ oldcont'[x] = oldcont[x]
    BY <1>2, KillMoves
  <2>3. \A x \in Items, w \in Windows : cont'[x] = w => cont[x] = w
    BY <1>1, <2>2
  <2> QED
    BY <2>1, <2>2, <2>3, EndAgree
<1>3. ASSUME NEW w \in Windows, Conclude(p, w) \/ CancelTrade(p, w)
      PROVE  AgreeInv'
  <2>1. hand' = hand /\ open' = open
    BY <1>3 DEF Conclude, CancelTrade, clients
  <2>2. /\ Exists(w) /\ Delete(Pair(w)) /\ Pair(w) \in SUBSET Windows
        /\ \A x \in Items :
              \/ /\ cont[x] \in Pair(w)
                 /\ \/ cont'[x] = win[cont[x]].owner
                    \/ Conclude(p, w) /\ cont'[x] = win[Peer(cont[x])].owner
              \/ cont[x] \notin Pair(w) /\ cont'[x] = cont[x]
        /\ \A x \in Items : cont'[x] = cont[x] => oldcont'[x] = oldcont[x]
    BY <1>3, TradeEndMoves
  <2>3. \A v \in Pair(w) : win[v].owner \notin Windows /\ win[Peer(v)].owner \notin Windows
    <3>1. Exists(Peer(w)) /\ Peer(Peer(w)) = w
      BY <2>2 DEF SwapInv, TradeInv, PairedWindows
    <3> QED
      BY <1>1, <2>2, <3>1, SortAssumption DEF Pair
  <2>4. \A x \in Items, v \in Windows : cont'[x] = v => cont[x] = v
    BY <2>2, <2>3
  <2>5. \A x \in Items : cont[x] \in {World, Gone} =>
          cont'[x] = cont[x] /\ oldcont'[x] = oldcont[x]
    BY <1>1, <2>2
  <2> QED
    BY <2>1, <2>2, <2>4, <2>5, EndAgree
<1> QED
  BY <1>2, <1>3

\* Windows, marks and what they saw stay, and no item moves or only out of the
\* windows.
LEMMA QuietAgree ==
    ASSUME AgreeInv, UNCHANGED <<win, seen>>, open' \subseteq open,
           \A p \in Players : hand'[p] \in {hand[p], NoItem},
           \A x \in Items : cont'[x] = cont[x] \/ cont'[x] \notin Windows,
           \A p \in Players, x \in Items : hand[p] = x =>
               \/ cont'[x] = Gone
               \/ \A q \in Players : hand'[q] = NoItem
               \/ cont'[x] = cont[x] /\ oldcont'[x] = oldcont[x]
    PROVE  AgreeInv'
<1>1. \A w \in Windows : Calmer(w)
  BY DEF Calmer
<1>2. \A p \in Players : hand'[p] \in Items => hand'[p] = hand[p]
  BY SortAssumption
<1>3. \A p \in Players, x \in Items : hand'[p] = x =>
        \/ cont'[x] = Gone
        \/ cont'[x] = cont[x] /\ oldcont'[x] \in {oldcont[x], World}
  BY <1>2, SortAssumption
<1>4. \A x \in Items, w \in Windows : cont'[x] = w => cont[x] = w
  OBVIOUS
<1>5. seen' \in [Windows -> SUBSET Items]
  BY DEF AgreeInv
<1> QED
  BY <1>1, <1>2, <1>3, <1>4, <1>5, CalmStep

\* Every step keeps what has been agreed to.
LEMMA AgreeStep == SwapInv /\ ClientsTyped /\ AgreeInv /\ [Next]_vars => AgreeInv'
<1> SUFFICES ASSUME SwapInv, ClientsTyped, AgreeInv, [Next]_vars PROVE AgreeInv'
  OBVIOUS
<1>0. /\ \A p \in Players : hand[p] \in Items => cont[hand[p]] \in {World, Gone}
      /\ {World, Corpse, Gone} \cap (Players \cup Windows) = {}
      /\ World # Corpse /\ Gone # Corpse
  BY SortAssumption DEF AgreeInv, HeldInWorld
<1>1. ASSUME NEW p \in Players, NEW x \in Items, Get(p, x) PROVE AgreeInv'
  BY <1>1, GetAgree
<1>2. ASSUME NEW p \in Players, NEW x \in Items, GetRefused(p, x) PROVE AgreeInv'
  <2>1. \A q \in Players : hand[q] # x
    BY <1>0, <1>2, SortAssumption DEF GetRefused
  <2>2. \A y \in Items : y # x => oldcont'[y] = oldcont[y]
    BY <1>2 DEF GetRefused, SwapInv, ItemsTyped
  <2>3. /\ UNCHANGED <<win, seen>> /\ open' = open /\ hand' = hand /\ cont' = cont
    BY <1>2 DEF GetRefused, clients
  <2> QED
    BY <2>1, <2>2, <2>3, QuietAgree
<1>3. ASSUME NEW x \in Items, Decay(x) PROVE AgreeInv'
  <2>1. /\ UNCHANGED <<win, seen>> /\ open' = open /\ hand' = hand
        /\ \A y \in Items : IF y = x THEN cont'[y] = Gone
                            ELSE cont'[y] = cont[y] /\ oldcont'[y] = oldcont[y]
    BY <1>3 DEF Decay, SwapInv, ItemsTyped
  <2> QED
    BY <1>0, <2>1, QuietAgree
<1>4. ASSUME NEW S \in SUBSET Items, CorpseDecays(S) PROVE AgreeInv'
  <2>1. /\ UNCHANGED <<win, seen>> /\ open' = open /\ hand' = hand
        /\ \A y \in Items : IF y \in S THEN cont[y] = Corpse /\ cont'[y] = World
                            ELSE cont'[y] = cont[y] /\ oldcont'[y] = oldcont[y]
    BY <1>4 DEF CorpseDecays, Contents
  <2> QED
    BY <1>0, <2>1, QuietAgree
<1>5. ASSUME NEW p \in Players,
             DropDeleted(p) \/ Connect(p) \/ Disconnect(p) \/ Resurrect(p)
      PROVE  AgreeInv'
  <2>1. /\ UNCHANGED <<win, seen>> /\ open' \subseteq open
        /\ cont' = cont /\ oldcont' = oldcont
        /\ \A q \in Players : hand'[q] \in {hand[q], NoItem}
    BY <1>5 DEF DropDeleted, Connect, Disconnect, Resurrect, Released, items, clients, ClientsTyped
  <2> QED
    BY <2>1, QuietAgree
<1>6. ASSUME NEW p \in Players,
             \/ DropTwice(p) \/ DropRefused(p) \/ DropInPack(p) \/ DropOnGround(p)
             \/ \E w \in Windows : DropInWindow(p, w)
      PROVE  AgreeInv'
  BY <1>6, DropAgree
<1>7. ASSUME NEW p \in Players,
             Kill(p) \/ \E w \in Windows : Conclude(p, w) \/ CancelTrade(p, w)
      PROVE  AgreeInv'
  BY <1>7, TradeEndAgree
<1>8. ASSUME NEW p \in Players, NEW q \in Players, StartTrade(p, q) PROVE AgreeInv'
  BY <1>8, StartTradeAgree
<1>9. ASSUME NEW p \in Players,
             \/ \E q \in Players : NoTrade(p, q)
             \/ \E w \in Windows : DropInNoWindow(p, w) \/ CloseWindow(p, w)
      PROVE  AgreeInv'
  <2>1. /\ UNCHANGED <<win, seen>> /\ open' \subseteq open
        /\ cont' = cont /\ oldcont' = oldcont
        /\ \A q \in Players : hand'[q] \in {hand[q], NoItem}
    BY <1>9 DEF NoTrade, DropInNoWindow, CloseWindow, Released, items, ClientsTyped
  <2> QED
    BY <2>1, QuietAgree
<1>10. ASSUME NEW p \in Players, NEW w \in Windows, NEW m \in BOOLEAN, SetMark(p, w, m)
       PROVE  AgreeInv'
  BY <1>10, SetMarkAgree
<1>11. CASE Restart
  <2>1. /\ UNCHANGED <<win, seen>> /\ open' \subseteq open
        /\ \A q \in Players : hand'[q] = NoItem
        /\ \A x \in Items : cont'[x] \in {cont[x], Gone}
    BY <1>11 DEF Restart
  <2> QED
    BY <1>0, <2>1, QuietAgree
<1>12. CASE UNCHANGED vars
  <2>1. /\ UNCHANGED <<win, seen>> /\ open' \subseteq open
        /\ cont' = cont /\ oldcont' = oldcont /\ hand' = hand
    BY <1>12 DEF vars, items, clients
  <2> QED
    BY <2>1, QuietAgree
<1> QED
  BY <1>1, <1>2, <1>3, <1>4, <1>5, <1>6, <1>7, <1>8, <1>9, <1>10, <1>11, <1>12 DEF Next

-----------------------------------------------------------------------------
\* What x's new owner got was agreed.
Agreed(x) ==
    Own(x) \in Players /\ Own(x)' \in Players \ {Own(x)} =>
        cont[x] \in Windows /\ (win[cont[x]].mark => x \in seen[cont[x]])

\* No item passes from one player to another while the windows stay.
LEMMA NobodyGains ==
    ASSUME TradeInv, SameWindows, NEW x \in Items,
           cont'[x] = cont[x] \/ ~Owning(cont[x]) \/ ~Owning(cont'[x])
    PROVE  Agreed(x)
<1>1. Own(x) = OwnerOf(cont[x])
  BY OwnIsOwner
<1>2. Own(x)' = OwnerOf(cont'[x])
  BY SameContainers DEF Own, OwnerOf, SameWindows
<1>3. Gone \notin Players
  BY SortAssumption
<1>4. CASE cont'[x] = cont[x]
  BY <1>1, <1>2, <1>4 DEF Agreed
<1>5. CASE ~Owning(cont[x])
  BY <1>1, <1>3, <1>5, OwnerlessContainer DEF Agreed
<1>6. CASE ~Owning(cont'[x])
  BY <1>2, <1>3, <1>6, OwnerlessContainer DEF Agreed
<1> QED
  BY <1>4, <1>5, <1>6

\* endtrade() and Kill() give back, or give to nobody.
LEMMA GivenBack ==
    ASSUME TradeInv, NEW W \in SUBSET Windows, Delete(W), NEW x \in Items,
           \/ cont'[x] = Corpse
           \/ cont[x] \in W /\ cont'[x] = win[cont[x]].owner
           \/ cont[x] \notin W /\ cont'[x] = cont[x]
    PROVE  Agreed(x)
<1>1. /\ Gone \notin Players /\ Corpse \notin Players /\ Corpse \notin Windows
      /\ Players \cap Windows = {} /\ Gone \notin Windows
  BY SortAssumption
<1>2. \A w \in Windows : win[w].owner \in Players \cup {Gone}
  BY OwnersTyped DEF TradeInv
<1>3. CASE cont'[x] = Corpse
  BY <1>1, <1>3 DEF Agreed, Own
<1>4. CASE cont[x] \in W /\ cont'[x] = win[cont[x]].owner
  <2>1. Own(x)' \in {win[cont[x]].owner, Gone}
    BY <1>1, <1>2, <1>4 DEF Own
  <2>2. Own(x) \in {win[cont[x]].owner, Gone}
    BY <1>1, <1>4 DEF Own
  <2> QED
    BY <1>1, <2>1, <2>2 DEF Agreed
<1>5. CASE cont[x] \notin W /\ cont'[x] = cont[x]
  <2>1. cont[x] \in Windows => win'[cont[x]] = win[cont[x]]
    BY <1>5 DEF Delete
  <2>2. Own(x)' = Own(x)
    BY <1>5, <2>1 DEF Own, Exists
  <2> QED
    BY <2>2 DEF Agreed
<1> QED
  BY <1>3, <1>4, <1>5

\* dotrade() finds in a marked window what its owner saw there.
LEMMA ConcludeAgreed ==
    ASSUME SwapInv, AgreeInv, NEW p \in Players, NEW w \in Windows,
           Conclude(p, w) \/ CancelTrade(p, w), NEW x \in Items
    PROVE  Agreed(x)
<1>1. /\ Exists(w) /\ Delete(Pair(w)) /\ Pair(w) \in SUBSET Windows
      /\ \/ cont[x] \in Pair(w)
         \/ cont[x] \notin Pair(w) /\ cont'[x] = cont[x]
  BY TradeEndMoves
<1>2. CASE cont[x] \in Pair(w)
  <2>1. cont[x] \in Windows
    BY <1>1, <1>2
  <2> QED
    BY <2>1 DEF Agreed, AgreeInv, MarkSeen
<1>3. CASE cont[x] \notin Pair(w) /\ cont'[x] = cont[x]
  BY <1>1, <1>3, GivenBack DEF SwapInv
<1> QED
  BY <1>1, <1>2, <1>3

\* A new trade takes nothing from anybody.
LEMMA StartTradeAgreed ==
    ASSUME SwapInv, NEW p \in Players, NEW q \in Players, StartTrade(p, q), NEW x \in Items
    PROVE  Agreed(x)
<1>1. PICK y \in Items, w, v \in Windows :
        /\ cont[y] = World /\ Fresh(w) /\ Fresh(v)
        /\ win' = [win EXCEPT ![w] = [owner |-> p, peer |-> v, mark |-> FALSE],
                              ![v] = [owner |-> q, peer |-> w, mark |-> FALSE]]
        /\ cont' = [cont EXCEPT ![y] = w]
  BY DEF StartTrade, Put
<1>2. CASE x = y
  BY <1>1, <1>2, SortAssumption DEF Agreed, Own
<1>3. CASE x # y
  <2>1. cont'[x] = cont[x] /\ cont[x] # w /\ cont[x] # v
    BY <1>1, <1>3 DEF SwapInv, ItemsTyped, Fresh
  <2>2. cont[x] \in Windows => win'[cont[x]] = win[cont[x]]
    BY <1>1, <2>1 DEF SwapInv, TradeInv, WinTyped
  <2>3. Own(x)' = Own(x)
    BY <2>1, <2>2 DEF Own, Exists
  <2> QED
    BY <2>3 DEF Agreed
<1> QED
  BY <1>2, <1>3

\* In no step does a player give what the player has not agreed to.
LEMMA AgreedStep ==
    SwapInv /\ AgreeInv /\ [Next]_vars => \A x \in Items : Agreed(x)
<1> SUFFICES ASSUME SwapInv, AgreeInv, [Next]_vars, NEW x \in Items PROVE Agreed(x)
  OBVIOUS
<1>0. /\ TradeInv /\ cont \in [Items -> Containers]
      /\ ~Owning(World) /\ ~Owning(Corpse) /\ ~Owning(Gone)
      /\ ~Owning(World)' /\ ~Owning(Corpse)' /\ ~Owning(Gone)'
  BY SortAssumption DEF SwapInv, ItemsTyped, Owning
<1>1. ASSUME win' = win PROVE SameWindows
  BY <1>1 DEF SameWindows, Exists
<1>2. ASSUME NEW p \in Players, NEW y \in Items, Get(p, y) \/ GetRefused(p, y)
      PROVE  Agreed(x)
  <2>1. win' = win /\ cont'[x] \in {cont[x], World}
    BY <1>0, <1>2 DEF Get, GetRefused
  <2> QED
    BY <1>0, <1>1, <2>1, NobodyGains
<1>3. ASSUME NEW y \in Items, Decay(y) PROVE Agreed(x)
  <2>1. win' = win /\ cont'[x] \in {cont[x], Gone}
    BY <1>0, <1>3 DEF Decay
  <2> QED
    BY <1>0, <1>1, <2>1, NobodyGains
<1>4. ASSUME NEW S \in SUBSET Items, CorpseDecays(S) PROVE Agreed(x)
  <2>1. win' = win /\ cont'[x] \in {cont[x], World}
    BY <1>4 DEF CorpseDecays
  <2> QED
    BY <1>0, <1>1, <2>1, NobodyGains
<1>5. ASSUME NEW p \in Players,
             \/ DropDeleted(p) \/ Connect(p) \/ Disconnect(p) \/ Resurrect(p)
             \/ \E q \in Players : NoTrade(p, q)
             \/ \E w \in Windows : DropInNoWindow(p, w) \/ CloseWindow(p, w)
      PROVE  Agreed(x)
  <2>1. win' = win /\ cont' = cont
    BY <1>5 DEF DropDeleted, Connect, Disconnect, Resurrect, NoTrade, DropInNoWindow,
                CloseWindow, items
  <2> QED
    BY <1>0, <1>1, <2>1, NobodyGains
<1>6. ASSUME NEW p \in Players,
             \/ DropTwice(p) \/ DropRefused(p) \/ DropInPack(p) \/ DropOnGround(p)
             \/ \E w \in Windows : DropInWindow(p, w)
      PROVE  Agreed(x)
  <2>1. SameWindows
    BY <1>1, <1>6, DropInWindowKeepsWindows
    DEF DropTwice, DropRefused, DropInPack, DropOnGround, SwapInv
  <2>2. PICK y \in Items : /\ cont[y] \in {World, Gone}
                           /\ \A z \in Items : z # y => cont'[z] = cont[z]
    <3>1. PICK y \in Items :
            /\ hand[p] = y
            /\ cont' = cont \/ \E c : cont' = [cont EXCEPT ![y] = c]
      BY <1>6 DEF DropTwice, DropRefused, DropInPack, DropOnGround, DropInWindow, Holding,
                  Put, Bounce
    <3>2. cont[y] \in {World, Gone}
      BY <3>1 DEF AgreeInv, HeldInWorld
    <3> QED
      BY <1>0, <3>1, <3>2
  <2> QED
    BY <1>0, <2>1, <2>2, NobodyGains
<1>7. ASSUME NEW p \in Players, Kill(p) PROVE Agreed(x)
  BY <1>0, <1>7, KillMoves, GivenBack
<1>8. ASSUME NEW p \in Players, NEW w \in Windows, Conclude(p, w) \/ CancelTrade(p, w)
      PROVE  Agreed(x)
  BY <1>8, ConcludeAgreed
<1>9. ASSUME NEW p \in Players, NEW q \in Players, StartTrade(p, q) PROVE Agreed(x)
  BY <1>9, StartTradeAgreed
<1>10. ASSUME NEW p \in Players, NEW w \in Windows, NEW m \in BOOLEAN, SetMark(p, w, m)
       PROVE  Agreed(x)
  <2>1. SameWindows /\ cont' = cont
    BY <1>10, SetMarkKeepsWindows DEF SwapInv, SetMark, items
  <2> QED
    BY <1>0, <2>1, NobodyGains
<1>11. CASE Restart
  <2>1. win' = win /\ cont'[x] \in {cont[x], Gone}
    BY <1>11 DEF Restart
  <2> QED
    BY <1>0, <1>1, <2>1, NobodyGains
<1>12. CASE UNCHANGED vars
  <2>1. win' = win /\ cont' = cont
    BY <1>12 DEF vars, items
  <2> QED
    BY <1>0, <1>1, <2>1, NobodyGains
<1> QED
  BY <1>2, <1>3, <1>4, <1>5, <1>6, <1>7, <1>8, <1>9, <1>10, <1>11, <1>12 DEF Next

\* Where no two clients have the same item on their cursors, a player gives in
\* a trade only what lay in the window at the check mark that counted: lifting
\* an item out of a marked window, having it bounced back or losing the
\* connection meanwhile opens no way around the marks.
THEOREM GiversAgreed == Spec /\ ~Races => OwnerAgreed
<1>1. Init /\ ~Races => ClientsTyped /\ AgreeInv
  <2> SUFFICES ASSUME Init, ~Races PROVE ClientsTyped /\ AgreeInv
    OBVIOUS
  <2>1. /\ hand = [p \in Players |-> NoItem] /\ open = {}
        /\ win = [w \in Windows |-> Closed] /\ seen = [w \in Windows |-> {}]
        /\ shown \subseteq Items /\ online = Players
    BY DEF Init
  <2> QED
    BY <2>1, SortAssumption DEF ClientsTyped, AgreeInv, HandsApart, HeldInWorld, OpenOwn,
                                MarkSeen, CursorBack, Closed
<1>2. (\A x \in Items : Agreed(x)) =>
        \A x \in Items :
           LET p == Own(x) IN
           p \in Players /\ Own(x)' \in Players \ {p} =>
              cont[x] \in Windows /\ (win[cont[x]].mark => x \in seen[cont[x]])
  BY DEF Agreed
<1> QED
  BY SwapInvInit, SwapStep, ClientsStep, AgreeStep, AgreedStep, <1>1, <1>2, PTL
  DEF Spec, OwnerAgreed
=============================================================================
