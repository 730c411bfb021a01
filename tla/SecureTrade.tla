---------------------------- MODULE SecureTrade ----------------------------
(***************************************************************************)
(* Dragging items and the secure trade of the NoX-Wizard server:           *)
(* src/dragdrop.cpp, src/trade.cpp, endtrade() of src/sndpkg.cpp and the   *)
(* part of cChar::Kill() that ends trades and fills the corpse.            *)
(*                                                                         *)
(* An item names its container by serial (cont) and remembers the one it   *)
(* was in before (oldcont): "bouncing" a refused item means to go back     *)
(* there.  A player lifts an item with one packet and drops it with the    *)
(* next one; in between the item is in the world at (0,0,0).  A trade is a *)
(* pair of windows, which are items of the two players linked by moreb;    *)
(* morez is the check mark.                                                *)
(*                                                                         *)
(* A client sends only what its user can do: lift what it shows, and with  *)
(* an item on the cursor nothing but a drop.  Under that rule the flag     *)
(* `dragging' of cClient is TRUE whenever an item is on the cursor, and is *)
(* not kept.  Items are of different kinds, so none is piled, and all can  *)
(* be moved; neither game masters nor scripts take part.  A place in the   *)
(* world stands for the ground there and for a player's open pack.         *)
(*                                                                         *)
(* All paths below are under src/branches/noxwizard/src.                   *)
(***************************************************************************)
EXTENDS Integers

CONSTANTS
    Players,    \* player characters
    Items,      \* the items that are traded
    Windows,    \* serials for trade windows; a bound on the trades at once
    World,      \* container INVALID: on the ground or on somebody's cursor
    Corpse,     \* any corpse
    Gone,       \* deleted
    Races,      \* may a client lift what another client has on its cursor?
    NoItem, NoWindow

ASSUME SortAssumption ==
    /\ Players \cap Windows = {}
    /\ {World, Corpse, Gone} \cap (Players \cup Windows) = {}
    /\ World # Corpse /\ World # Gone /\ Corpse # Gone
    /\ NoItem \notin Items /\ NoWindow \notin Windows
    /\ Races \in BOOLEAN

\* A player stands for the player's backpack.
Containers == Players \cup Windows \cup {World, Corpse, Gone}

VARIABLES
    cont,       \* contserial of each item
    oldcont,    \* oldcontserial
    at,         \* is the item's position one in the world that can be reached?
    oldat,      \* the same of the old position
    win,        \* the trade windows that exist
    online,     \* the players with a client object
    dead,       \* cChar::dead
    hand,       \* the item on the cursor of each client
    open,       \* <<p, w>>: the client of p shows the trade window w
    shown,      \* the items the clients draw on the ground or in a corpse
    seen        \* what lay in a window at its owner's last check mark (not in the code)

items == <<cont, oldcont, at, oldat>>
clients == <<online, hand, open, shown>>
vars == <<items, win, dead, clients, seen>>

Closed == [owner |-> Gone, peer |-> NoWindow, mark |-> FALSE]

Exists(w) == win[w] # Closed
Contents(c) == {x \in Items : cont[x] = c}
Peer(w) == win[w].peer
Pair(w) == {w, Peer(w)}

-----------------------------------------------------------------------------
(* How items move.                                                         *)

\* setContSerial() of every item for which `to' names another container.
Move(to) ==
    /\ cont' = to
    /\ oldcont' = [x \in Items |-> IF to[x] # cont[x] THEN cont[x] ELSE oldcont[x]]
    /\ at' = [x \in Items |-> at[x] /\ to[x] = cont[x]]
    /\ UNCHANGED oldat

\* A mutant: the old container is not recorded.
PutBug(x, c) ==
    /\ cont' = [cont EXCEPT ![x] = c]
    /\ at' = [at EXCEPT ![x] = FALSE]
    /\ UNCHANGED <<oldcont, oldat>>

Put(x, c) ==
    /\ cont' = [cont EXCEPT ![x] = c]
    /\ oldcont' = [oldcont EXCEPT ![x] = cont[x]]
    /\ at' = [at EXCEPT ![x] = FALSE]
    /\ UNCHANGED oldat

\* A mutant: the position comes back whatever the container was.
BounceBug(x) ==
    /\ cont' = [cont EXCEPT ![x] = oldcont[x]]
    /\ oldcont' = [oldcont EXCEPT ![x] = cont[x]]
    /\ at' = [at EXCEPT ![x] = oldat[x]]
    /\ UNCHANGED oldat

\* item_bounce3(): container and position are the old ones again.
Bounce(x) ==
    /\ cont' = [cont EXCEPT ![x] = oldcont[x]]
    /\ oldcont' = [oldcont EXCEPT ![x] = cont[x]]
    /\ at' = [at EXCEPT ![x] = oldcont[x] = World /\ oldat[x]]
    /\ UNCHANGED oldat

-----------------------------------------------------------------------------
(* The trade itself.                                                       *)

\* endtrade() of the windows W, whole pairs: where each item goes.
SentBack(W) ==
    [x \in Items |-> IF cont[x] \in W THEN win[cont[x]].owner ELSE cont[x]]

\* A mutant: the second loop of dotrade() is missing.
TradedBug(w) ==
    IF {win[v].owner : v \in Pair(w)} \subseteq online
    THEN [x \in Items |-> IF cont[x] = w THEN win[Peer(w)].owner ELSE cont[x]]
    ELSE SentBack(Pair(w))

\* dotrade() of w and its peer, which does nothing when a player is offline.
Traded(w) ==
    IF {win[v].owner : v \in Pair(w)} \subseteq online
    THEN [x \in Items |-> IF cont[x] \in Pair(w)
                          THEN win[Peer(cont[x])].owner ELSE cont[x]]
    ELSE SentBack(Pair(w))

Delete(W) ==
    /\ win' = [w \in Windows |-> IF w \in W THEN Closed ELSE win[w]]
    /\ seen' = [w \in Windows |-> IF w \in W THEN {} ELSE seen[w]]

\* A mutant: only the mark of the other side is reset.
UnmarkBug(w) ==
    /\ win' = [win EXCEPT ![Peer(w)].mark = FALSE]
    /\ seen' = [seen EXCEPT ![Peer(w)] = {}]

\* The mark reset of pack_item(): both marks, when one of them is set.
Unmark(w) ==
    /\ win' = [v \in Windows |-> IF v \in Pair(w) THEN [win[v] EXCEPT !.mark = FALSE]
                                 ELSE win[v]]
    /\ seen' = [v \in Windows |-> IF v \in Pair(w) THEN {} ELSE seen[v]]

\* Serials are never given out twice: one that something still refers to is
\* not fresh.
Fresh(w) ==
    /\ ~Exists(w)
    /\ \A x \in Items : w \notin {cont[x], oldcont[x]}
    /\ \A p \in Players : <<p, w>> \notin open
-----------------------------------------------------------------------------
(* Lifting: get_item().  An item that another player carries is refused;   *)
(* one that is in the world is handed out whoever else has lifted it.  The *)
(* other clients go on showing it until it is put into something.  Items   *)
(* taken out of a trade window leave the check marks alone: the peer is    *)
(* looked up in moreb of the item, which is 0.                             *)

Get(p, x) ==
    /\ p \in online /\ hand[p] = NoItem
    /\ Races \/ \A q \in Players : hand[q] # x
    /\ \/ cont[x] = p
       \/ cont[x] \in Windows /\ <<p, cont[x]>> \in open /\ win[cont[x]].owner = p
       \/ x \in shown /\ cont[x] \in {World, Corpse}
    /\ hand' = [hand EXCEPT ![p] = x]
    /\ cont' = [cont EXCEPT ![x] = World]
    /\ oldcont' = [oldcont EXCEPT ![x] = cont[x]]
    /\ at' = [at EXCEPT ![x] = FALSE]
    /\ oldat' = [oldat EXCEPT ![x] = at[x]]
    /\ UNCHANGED <<win, dead, online, open, shown, seen>>

\* The item is another player's.  A successful drop leaves `dragging' set: it
\* may be set now, and then the item is bounced to where it is.
GetRefused(p, x) ==
    /\ p \in online /\ hand[p] = NoItem
    /\ \E q \in Players \ {p} :
          cont[x] = q \/ (cont[x] \in Windows /\ win[cont[x]].owner = q)
    /\ oldcont' = [oldcont EXCEPT ![x] = cont[x]]
    /\ UNCHANGED <<cont, at, oldat, win, dead, clients, seen>>

-----------------------------------------------------------------------------
(* Dropping: drop_item().  x is what the client of p has on its cursor.    *)

Holding(p, x) == p \in online /\ x \in Items /\ hand[p] = x

Released(p) == hand' = [hand EXCEPT ![p] = NoItem]

\* "client sent bad itemserial": the item does not exist any more.
DropDeleted(p) ==
    /\ \E x \in Items : Holding(p, x) /\ cont[x] = Gone
    /\ Released(p)
    /\ UNCHANGED <<items, win, dead, online, open, shown, seen>>

\* The item is not in the world: somebody else dropped it first.
DropTwice(p) ==
    \E x \in Items :
        /\ Holding(p, x) /\ cont[x] \notin {World, Gone}
        /\ Bounce(x)
        /\ Released(p)
        /\ UNCHANGED <<win, dead, online, open, shown, seen>>

\* The container is another player's, or the place is not acceptable.
DropRefused(p) ==
    \E x \in Items :
        /\ Holding(p, x) /\ cont[x] # Gone
        /\ Bounce(x)
        /\ Released(p)
        /\ UNCHANGED <<win, dead, online, open, shown, seen>>

DropInPack(p) ==
    \E x \in Items :
        /\ Holding(p, x) /\ cont[x] = World
        /\ Put(x, p)
        /\ Released(p)
        /\ shown' = shown \ {x}
        /\ UNCHANGED <<win, dead, online, open, seen>>

DropOnGround(p) ==
    \E x \in Items :
        /\ Holding(p, x) /\ cont[x] = World
        /\ oldcont' = [oldcont EXCEPT ![x] = World]
        /\ at' = [at EXCEPT ![x] = TRUE]
        /\ Released(p)
        /\ shown' = shown \cup {x}
        /\ UNCHANGED <<cont, oldat, win, dead, online, open, seen>>

\* pack_item() of a trade window.  The marks go before the item is looked at.
DropInWindow(p, w) ==
    \E x \in Items :
        /\ Holding(p, x) /\ cont[x] # Gone
        /\ <<p, w>> \in open /\ win[w].owner = p
        /\ Unmark(w)
        /\ IF cont[x] = World THEN Put(x, w) /\ shown' = shown \ {x}
                              ELSE Bounce(x) /\ UNCHANGED shown
        /\ Released(p)
        /\ UNCHANGED <<dead, online, open>>

\* The window was deleted on the way: pack_item() returns at once.
DropInNoWindow(p, w) ==
    /\ \E x \in Items : Holding(p, x)
    /\ <<p, w>> \in open /\ ~Exists(w)
    /\ Released(p)
    /\ UNCHANGED <<items, win, dead, online, open, shown, seen>>

\* A mutant: tradestart() asks only whether the other one is dead.
MayTradeBug(p, q) == p # q /\ {p, q} \subseteq online /\ q \notin dead

\* What tradestart() asks of the two players, besides their distance.
MayTrade(p, q) == p # q /\ {p, q} \subseteq online \ dead

\* ItemDroppedOnChar() and tradestart(): two windows, and the item in one.
StartTrade(p, q) ==
    \E x \in Items, w, v \in Windows :
        /\ Holding(p, x) /\ cont[x] = World
        /\ MayTrade(p, q)
        /\ w # v /\ Fresh(w) /\ Fresh(v)
        /\ win' = [win EXCEPT ![w] = [owner |-> p, peer |-> v, mark |-> FALSE],
                              ![v] = [owner |-> q, peer |-> w, mark |-> FALSE]]
        /\ open' = open \cup {<<p, w>>, <<q, v>>}
        /\ Put(x, w)
        /\ Released(p)
        /\ shown' = shown \ {x}
        /\ UNCHANGED <<dead, online, seen>>

\* tradestart() returns NULL: too far away, offline or dead.  The client is
\* told of a bounce, but the item is not moved.
NoTrade(p, q) ==
    /\ p # q
    /\ \E x \in Items : Holding(p, x) /\ cont[x] = World
    /\ Released(p)
    /\ UNCHANGED <<items, win, dead, online, open, shown, seen>>

-----------------------------------------------------------------------------
(* trademsg().  A message about a window that was deleted does nothing.    *)

MayClick(p, w) == p \in online /\ hand[p] = NoItem /\ <<p, w>> \in open /\ Exists(w)

SetMark(p, w, m) ==
    /\ MayClick(p, w)
    /\ ~(m /\ win[Peer(w)].mark)
    /\ win' = [win EXCEPT ![w].mark = m]
    /\ seen' = [seen EXCEPT ![w] = IF m THEN Contents(w) ELSE {}]
    /\ UNCHANGED <<items, dead, clients>>

Conclude(p, w) ==
    /\ MayClick(p, w)
    /\ win[Peer(w)].mark
    /\ Move(Traded(w))
    /\ Delete(Pair(w))
    /\ UNCHANGED <<dead, clients>>

\* A mutant: endtrade() deletes only the window it was called with.
CancelTradeBug(p, w) ==
    /\ MayClick(p, w)
    /\ Move(SentBack(Pair(w)))
    /\ Delete({w})
    /\ UNCHANGED <<dead, clients>>

CancelTrade(p, w) ==
    /\ MayClick(p, w)
    /\ Move(SentBack(Pair(w)))
    /\ Delete(Pair(w))
    /\ UNCHANGED <<dead, clients>>

\* The client of p handles the packet that closes a window.
CloseWindow(p, w) ==
    /\ p \in online /\ <<p, w>> \in open /\ ~Exists(w)
    /\ open' = open \ {<<p, w>>}
    /\ UNCHANGED <<items, win, dead, online, hand, shown, seen>>

-----------------------------------------------------------------------------
(* Characters come, go and die.                                            *)

Connect(p) ==
    /\ p \notin online
    /\ online' = online \cup {p}
    /\ UNCHANGED <<items, win, dead, hand, open, shown, seen>>

\* Disconnect() neither ends trades nor restores what is on the cursor.
Disconnect(p) ==
    /\ p \in online
    /\ online' = online \ {p}
    /\ hand' = [hand EXCEPT ![p] = NoItem]
    /\ open' = {o \in open : o[1] # p}
    /\ UNCHANGED <<items, win, dead, shown, seen>>

\* Kill(): the trades of p end first, then what is in the pack goes to the
\* corpse, except for the items that stay with their owner (`kept').
Kill(p) ==
    /\ p \notin dead
    /\ dead' = dead \cup {p}
    /\ LET W == UNION {Pair(w) : w \in {v \in Windows : win[v].owner = p}}
           back == SentBack(W)
           inPack == {x \in Items : back[x] = p}
       IN  /\ Delete(W)
           /\ \E kept \in SUBSET inPack :
                /\ cont' = [x \in Items |-> IF x \in inPack \ kept THEN Corpse ELSE back[x]]
                /\ oldcont' = [x \in Items |-> IF x \in inPack THEN p
                                               ELSE IF cont[x] \in W THEN cont[x]
                                               ELSE oldcont[x]]
                /\ shown' = shown \cup (inPack \ kept)
           /\ UNCHANGED <<at, oldat>>
    /\ UNCHANGED <<online, hand, open>>

Resurrect(p) ==
    /\ p \in dead \cap online
    /\ dead' = dead \ {p}
    /\ UNCHANGED <<items, win, clients, seen>>

\* doDecay() of an item in the world, also of one that somebody has lifted:
\* the world save does not look at regions.
Decay(x) ==
    /\ cont[x] = World
    /\ cont' = [cont EXCEPT ![x] = Gone]
    /\ oldcont' = [oldcont EXCEPT ![x] = World]
    /\ at' = [at EXCEPT ![x] = FALSE]
    /\ oldat' = [oldat EXCEPT ![x] = FALSE]
    /\ shown' = shown \ {x}
    /\ UNCHANGED <<win, dead, online, hand, open, seen>>

\* doDecay() of a corpse: what is in it falls to the ground.
CorpseDecays(S) ==
    /\ S # {} /\ S \subseteq Contents(Corpse)
    /\ cont' = [x \in Items |-> IF x \in S THEN World ELSE cont[x]]
    /\ oldcont' = [x \in Items |-> IF x \in S THEN Corpse ELSE oldcont[x]]
    /\ at' = [x \in Items |-> at[x] \/ x \in S]
    /\ shown' = shown \cup S
    /\ UNCHANGED <<oldat, win, dead, online, hand, open, seen>>

\* A shutdown, which saves the world, and a start.  SaveItem() leaves out the
\* items at (0,0); checkGarbageCollect() removes those in deleted containers;
\* clearalltrades() has no body.
Restart ==
    LET lost == {x \in Items : \/ cont[x] = World /\ ~at[x]
                               \/ cont[x] \in Windows /\ ~Exists(cont[x])}
    IN  /\ cont' = [x \in Items |-> IF x \in lost THEN Gone ELSE cont[x]]
        /\ oldcont' = [x \in Items |-> World]
        /\ oldat' = [x \in Items |-> FALSE]
        /\ online' = {}
        /\ hand' = [p \in Players |-> NoItem]
        /\ open' = {}
        /\ shown' = {x \in Items : at[x] \/ cont[x] = Corpse}
        /\ UNCHANGED <<at, win, dead, seen>>

Init ==
    /\ cont \in [Items -> Players \cup {World}]
    /\ oldcont = [x \in Items |-> World]
    /\ at = [x \in Items |-> cont[x] = World]
    /\ oldat = [x \in Items |-> FALSE]
    /\ win = [w \in Windows |-> Closed]
    /\ online = Players /\ dead = {}
    /\ hand = [p \in Players |-> NoItem]
    /\ open = {}
    /\ shown = {x \in Items : cont[x] = World}
    /\ seen = [w \in Windows |-> {}]

Next ==
    \/ \E p \in Players, x \in Items : Get(p, x) \/ GetRefused(p, x)
    \/ \E x \in Items : Decay(x)
    \/ \E S \in SUBSET Items : CorpseDecays(S)
    \/ \E p \in Players :
        \/ DropDeleted(p) \/ DropTwice(p) \/ DropRefused(p)
        \/ DropInPack(p) \/ DropOnGround(p)
        \/ Connect(p) \/ Disconnect(p) \/ Kill(p) \/ Resurrect(p)
    \/ \E p, q \in Players : StartTrade(p, q) \/ NoTrade(p, q)
    \/ \E p \in Players, w \in Windows :
        \/ DropInWindow(p, w) \/ DropInNoWindow(p, w)
        \/ \E m \in BOOLEAN : SetMark(p, w, m)
        \/ Conclude(p, w) \/ CancelTrade(p, w) \/ CloseWindow(p, w)
    \/ Restart

Spec == Init /\ [][Next]_vars

-----------------------------------------------------------------------------
(* Properties.                                                             *)

\* The types.  An item with a position in the world is in the world.
TypeOK ==
    /\ cont \in [Items -> Containers]
    /\ \A x \in Items : at[x] => cont[x] = World
    /\ oldcont \in [Items -> Containers]
    /\ at \in [Items -> BOOLEAN] /\ oldat \in [Items -> BOOLEAN]
    /\ win \in [Windows -> [owner : Players, peer : Windows, mark : BOOLEAN] \cup {Closed}]
    /\ online \subseteq Players /\ dead \subseteq Players
    /\ hand \in [Players -> Items \cup {NoItem}]
    /\ open \subseteq Players \X Windows
    /\ shown \subseteq Items

\* The windows of a trade belong to two players and name each other: whoever
\* ends it, both are found and both are deleted (endtrade()).
PairedWindows ==
    \A w \in Windows : Exists(w) =>
        /\ Exists(Peer(w)) /\ Peer(Peer(w)) = w
        /\ win[w].owner # win[Peer(w)].owner

\* Who is dead has no trade going on, in which the heir of a corpse could be
\* cheated (Kill(), tradestart()).
DeadDoNotTrade == \A w \in Windows : win[w].owner \notin dead

\* A container that belongs to a player.
Owning(c) == c \in Players \/ (c \in Windows /\ Exists(c))

\* A bounce never takes an item from one player and gives it to another,
\* whoever else had it on the cursor: an item that somebody owns was before in
\* a container that nobody owns, or in the same one (item_bounce3()).
BounceSafe ==
    \A x \in Items :
        Owning(cont[x]) => oldcont[x] = cont[x] \/ ~Owning(oldcont[x])

Own(x) == IF cont[x] \in Players THEN cont[x]
          ELSE IF cont[x] \in Windows /\ Exists(cont[x]) THEN win[cont[x]].owner
          ELSE Gone

DealOf(x) == IF cont[x] \in Windows /\ Exists(cont[x]) THEN Pair(cont[x]) ELSE {}

\* Only a trade moves items between players, all of them at once, or none.
Deals == {{v, w} : v, w \in Windows}
Promise == INSTANCE AtomicSwap WITH
    Nobody <- Gone, NoDeal <- {},
    ownedBy <- [x \in Items |-> Own(x)], deal <- [x \in Items |-> DealOf(x)]
ImplementsAtomicSwap == Promise!SwapSpec

\* What a player gives away in a trade lay in the player's window when the
\* player set the check mark that counted, or sets it now.  It holds when no
\* two clients have the same item on their cursors.
OwnerAgreed ==
    [][\A x \in Items :
         LET p == Own(x) IN
         p \in Players /\ Own(x)' \in Players \ {p} =>
            cont[x] \in Windows /\ (win[cont[x]].mark => x \in seen[cont[x]])]_vars
=============================================================================
