------------------------------- MODULE Vendor -------------------------------
(***************************************************************************)
(* Shopkeepers: buying (buyaction), the sell menu (sellstuff), selling     *)
(* (sellaction) and the restock manager (cRestockMng), src/trade.cpp and   *)
(* src/sndpkg.cpp.  The server answers one packet at a time; a menu stays  *)
(* open in the client while others buy, sell and hand things over, so an   *)
(* order is made from what was true when the menu was sent.                *)
(*                                                                         *)
(* A shopkeeper has three containers: the goods that are restocked, one    *)
(* record per kind; the goods it was sold that are not, items whose place  *)
(* is the shopkeeper; and the list of what it buys, the kinds of Priced.   *)
(*                                                                         *)
(* All paths below are under src/branches/noxwizard/src.                   *)
(***************************************************************************)
EXTENDS Integers, Sequences, FiniteSets, Functions

CONSTANTS
    Players, Vendors,
    GMs,         \* the players who get their goods for nothing
    Kinds,       \* of goods
    Stocked,     \* those shopkeepers restock
    Priced,      \* those whose price sellaction() finds in the list
    Pileable,    \* those of which several make one item
    Price,       \* by kind
    Full,        \* the stock a shopkeeper starts with
    Items,       \* serials of the goods of players and of sold goods
    Coins,       \* what a player starts with, in the pack and in the bank
    CheckBank,   \* a bill from which on the bank pays
    SellMax,     \* the most items one order may sell
    HalfWord,    \* 2^15, the first amount an SI16 cannot hold
    PerTime,     \* RESTOCK_PER_TIME
    MaxOrder,    \* bound: units in a line of an order
    MaxCoins,    \* bound: nobody buys who has more
    MaxPurse,    \* bound: nobody is shown a sell menu who has more with him
    MaxStock,    \* bound: nobody sells where a shelf holds more
    Nowhere, NoKind, NoMenu

ASSUME KindsAssumption ==
    /\ Stocked \subseteq Kinds /\ Priced \subseteq Kinds /\ Pileable \subseteq Kinds
    /\ NoKind \notin Kinds /\ Price \in [Kinds -> Nat]
ASSUME NumbersAssumption ==
    /\ Full \in Nat /\ Coins \in Nat /\ CheckBank \in Nat /\ SellMax \in Nat
    /\ HalfWord \in Nat \ {0} /\ SellMax < HalfWord /\ PerTime \in Nat \ {0}
    /\ MaxOrder \in Nat /\ MaxCoins \in Nat /\ MaxPurse \in Nat /\ MaxStock \in Nat
ASSUME PlacesAssumption == GMs \subseteq Players /\ Players \cap Vendors = {} /\ Nowhere \notin Players \cup Vendors

ASSUME FiniteAssumption == IsFiniteSet(Stocked) /\ IsFiniteSet(Items) /\ IsFiniteSet(Vendors)

VARIABLES
    stock,      \* by shopkeeper and kind: amount and restock of the item
    item,       \* by serial: kind, amount and whose pack or shop it is in
    purse, bank,
    menu,       \* the sell menu a player has open: shopkeeper, items, amounts
    need, done, \* cRestockMng: needrestock and restocked
    open        \* FALSE: everybody has gone home (for the liveness property)

manager == <<need, done>>
vars == <<stock, item, purse, bank, menu, manager, open>>

Gone == [kind |-> NoKind, amount |-> 0, at |-> Nowhere]
Free == {x \in Items : item[x] = Gone}
At(c) == {x \in Items : item[x].at = c}

SumOf(f) == FoldFunction(+, 0, f)

\* The items of a line of n units, when they are made anew in a pack.
Makes(k, n, new) ==
    Cardinality(new) = IF n = 0 THEN 0 ELSE IF k \in Pileable THEN 1 ELSE n
Made(k, n, p) == [kind |-> k, amount |-> IF k \in Pileable THEN n ELSE 1, at |-> p]

\* (Altered on purpose, a mutant: an item of which nothing is left stays.)
ReducedBug(it, n) == [it EXCEPT !.amount = @ - n]

\* ReduceAmount(): n units fewer, and no item when none is left.
Reduced(it, n) == IF it.amount > n THEN [it EXCEPT !.amount = @ - n] ELSE Gone

-----------------------------------------------------------------------------
(* Buying.                                                                 *)

\* A number of coins passed as SI16.
Short(n) == ((n + HalfWord) % (2 * HalfWord)) - HalfWord

\* How many coins DeleteAmount(n) may take.  It calls ReduceAmount(SI16) for
\* one pile after the other until nothing is left to take: the first call cuts
\* n down to Short(n), and what that leaves over needs no cut.  Where Short(n)
\* is negative the first pile grows by that much, and nothing is left to take,
\* unless it is so large that it passes 2^16 and starts from 0 (amount is a
\* UI16).  Coins lie in piles of any size, hence the choice; it is none for
\* n < 2^15.
CoinsTaken(n) == {Short(n), n % (2 * HalfWord)}
Less(coins, c) == IF coins > c THEN coins - c ELSE 0

\* (Altered on purpose, a mutant: the coins of the pack are counted, and those
\* of the bank taken.)
FundsBug(p, bill) == purse[p]
Funds(p, bill) == IF bill >= CheckBank THEN bank[p] ELSE purse[p]

\* (Altered on purpose, a mutant: one unit more than there is may be sold.)
InStockBug(v, k, n) == n <= stock[v][k].amount + 1
InStock(v, k, n) == n <= stock[v][k].amount

Taken(s, n) == [amount |-> s.amount - n, restock |-> s.restock + n]

\* A GM is asked for nothing; anybody else must have what the bill says, and
\* loses what DeleteAmount() takes.
Pays(p, bill) ==
    \/ p \in GMs /\ UNCHANGED <<purse, bank>>
    \/ /\ p \notin GMs
       /\ Funds(p, bill) >= bill
       /\ purse[p] <= MaxCoins /\ bank[p] <= MaxCoins
       /\ \E c \in CoinsTaken(bill) :
            IF bill >= CheckBank
            THEN bank' = [bank EXCEPT ![p] = Less(@, c)] /\ UNCHANGED purse
            ELSE purse' = [purse EXCEPT ![p] = Less(@, c)] /\ UNCHANGED bank

\* buyaction(), an order for goods of the restocked container: an amount by
\* kind, and the items made of it.  Nothing is done when one line asks for
\* more than is left, or the coins do not do.
Buy(p, v, order, made) ==
    LET bill == SumOf([k \in Stocked |-> order[k] * Price[k]])
    IN /\ open /\ \E k \in Stocked : order[k] > 0
       /\ \A k \in Stocked : InStock(v, k, order[k]) /\ Makes(k, order[k], made[k])
       /\ \A j, k \in Stocked : j # k => made[j] \cap made[k] = {}
       /\ Pays(p, bill)
       /\ stock' = [stock EXCEPT ![v] = [k \in Stocked |-> Taken(stock[v][k], order[k])]]
       /\ item' = [x \in Items |->
             IF \E k \in Stocked : x \in made[k]
             THEN LET k == CHOOSE k \in Stocked : x \in made[k] IN Made(k, order[k], p)
             ELSE item[x]]
       /\ UNCHANGED <<menu, manager, open>>

\* buyaction(), an order for an item the shopkeeper was sold: a part of it is
\* made anew; the whole is handed over, and when its kind does not pile, as
\* many are made and the item is handed over as well.
BuySold(p, v, x, n) ==
    LET k == item[x].kind IN
    /\ open /\ item[x].at = v /\ n \in 1 .. item[x].amount
    /\ Pays(p, n * Price[k])
    /\ \/ /\ n = item[x].amount /\ k \in Pileable
          /\ item' = [item EXCEPT ![x].at = p]
       \/ \E new \in SUBSET Free :
             /\ Makes(k, n, new)
             /\ n < item[x].amount \/ k \notin Pileable
             /\ item' = [y \in Items |->
                   IF y \in new THEN Made(k, n, p)
                   ELSE IF y # x THEN item[y]
                   ELSE IF n < item[x].amount THEN [item[x] EXCEPT !.amount = @ - n]
                   ELSE [kind |-> k, amount |-> 1, at |-> p]]
    /\ UNCHANGED <<stock, menu, manager, open>>

-----------------------------------------------------------------------------
(* Selling.                                                                *)

\* sellstuff(): the menu names the items of the pack and their amounts.
\* (Bound: one menu is open at a time, of who has few coins.)
SellMenu(p, v) ==
    /\ open /\ At(p) # {} /\ \A q \in Players : menu[q] = NoMenu
    /\ purse[p] <= MaxPurse
    /\ menu' = [menu EXCEPT ![p] =
                  [vendor |-> v, shown |-> [x \in At(p) |-> item[x].amount]]]
    /\ UNCHANGED <<stock, item, purse, bank, manager, open>>

Joined(s, n) == [amount |-> s.amount + n, restock |-> s.restock - n]

\* One line of the order, on what the lines before it have left behind: the
\* stock, the items, the bill, and the variables join and value, which are
\* never reset.  A line whose item holds less than the line says ends the
\* order, an item that is gone is passed over.  new is the serial of a copy.
SellLine(left, line, p, v) ==
    LET x == line.x
        it == left.item[x]
        join == IF it.kind \in Stocked THEN it.kind ELSE left.join
        value == IF it.kind \in Priced THEN Price[it.kind] ELSE left.value
        bill == left.bill + line.n * value
        copy == IF it.amount = line.n THEN {} ELSE {line.new}
    IN IF left.refused \/ it = Gone THEN left
       ELSE IF it.amount < line.n THEN [left EXCEPT !.refused = TRUE]
       ELSE IF join # NoKind
       THEN [left EXCEPT !.join = join, !.value = value, !.bill = bill,
               !.stock[v][join] = Joined(@, line.n),
               !.item[x] = Reduced(@, line.n)]
       ELSE [left EXCEPT !.value = value, !.bill = bill,
               !.item = [y \in Items |->
                  IF y = x THEN [it EXCEPT !.at = v]
                  ELSE IF y \in copy THEN [it EXCEPT !.amount = it.amount - line.n, !.at = p]
                  ELSE left.item[y]]]

\* sellaction(): the lines one after the other; the coins come at the end,
\* and not at all when a line has ended the order.
Sell(p, lines) ==
    LET v == menu[p].vendor
        after[i \in 0 .. Len(lines)] ==
            IF i = 0 THEN [stock |-> stock, item |-> item, join |-> NoKind, value |-> 0,
                           bill |-> 0, refused |-> FALSE]
            ELSE SellLine(after[i - 1], lines[i], p, v)
        left == after[Len(lines)]
    IN /\ open /\ menu[p] # NoMenu
       /\ \A i \in DOMAIN lines :
            /\ lines[i].x \in DOMAIN menu[p].shown
            /\ lines[i].n <= menu[p].shown[lines[i].x]
            /\ lines[i].new \in Free
            /\ \A j \in DOMAIN lines \ {i} : lines[i].x # lines[j].x /\ lines[i].new # lines[j].new
       /\ SumOf([i \in DOMAIN lines |-> lines[i].n]) <= SellMax
       /\ \A k \in Stocked : stock[v][k].amount <= MaxStock
       /\ stock' = left.stock /\ item' = left.item
       /\ purse' = [purse EXCEPT ![p] = IF left.refused THEN @ ELSE @ + left.bill]
       /\ menu' = [menu EXCEPT ![p] = NoMenu]
       /\ UNCHANGED <<bank, manager, open>>

-----------------------------------------------------------------------------
(* What players do with their goods while a menu is open.                  *)

HandOver(p, q, x) ==
    /\ open /\ p # q /\ item[x].at = p
    /\ item' = [item EXCEPT ![x].at = q]
    /\ UNCHANGED <<stock, purse, bank, menu, manager, open>>

UseUp(p, x) ==
    /\ open /\ item[x].at = p
    /\ item' = [item EXCEPT ![x] = Reduced(@, 1)]
    /\ UNCHANGED <<stock, purse, bank, menu, manager, open>>

CloseMenu(p) ==
    /\ menu[p] # NoMenu
    /\ menu' = [menu EXCEPT ![p] = NoMenu]
    /\ UNCHANGED <<stock, item, purse, bank, manager, open>>

GoHome == open /\ open' = FALSE /\ UNCHANGED <<stock, item, purse, bank, menu, manager>>

-----------------------------------------------------------------------------
(* Restocking.                                                             *)

\* (Altered on purpose, a mutant: half of one is nothing.)
RefilledBug(s) ==
    LET a == s.restock \div 2
    IN IF s.restock <= 0 THEN s ELSE [amount |-> s.amount + a, restock |-> s.restock - a]

\* Half of what is missing and one more, but not more than is missing; what
\* is over (restock below 0) stays.
Refilled(s) ==
    LET half == (s.restock \div 2) + 1
        a == IF s.restock < half THEN s.restock ELSE half
    IN IF s.restock <= 0 THEN s ELSE [amount |-> s.amount + a, restock |-> s.restock - a]

\* (Altered on purpose, a mutant: those served are forgotten.)
DoRestockBug ==
    LET queue == IF need = <<>> THEN done ELSE need
        old == IF need = <<>> THEN <<>> ELSE done
        count == IF PerTime - 1 < Len(queue) THEN PerTime - 1 ELSE Len(queue)
        served == {queue[i] : i \in 1 .. count}
    IN /\ stock' = [v \in Vendors |->
             IF v \in served THEN [k \in Stocked |-> Refilled(stock[v][k])] ELSE stock[v]]
       /\ need' = SubSeq(queue, count + 1, Len(queue))
       /\ done' = old
       /\ UNCHANGED <<item, purse, bank, menu, open>>

\* cRestockMng::doRestock(), its timer over: an empty queue is first filled
\* again with those done; all but one of RESTOCK_PER_TIME are then served.
DoRestock ==
    LET queue == IF need = <<>> THEN done ELSE need
        old == IF need = <<>> THEN <<>> ELSE done
        count == IF PerTime - 1 < Len(queue) THEN PerTime - 1 ELSE Len(queue)
        served == {queue[i] : i \in 1 .. count}
    IN /\ stock' = [v \in Vendors |->
             IF v \in served THEN [k \in Stocked |-> Refilled(stock[v][k])] ELSE stock[v]]
       /\ need' = SubSeq(queue, count + 1, Len(queue))
       /\ done' = old \o SubSeq(queue, 1, count)
       /\ UNCHANGED <<item, purse, bank, menu, open>>

\* doRestockAll(), from the time table of crontab.
DoRestockAll ==
    /\ stock' = [v \in Vendors |-> [k \in Stocked |->
          [amount |-> stock[v][k].amount + (IF stock[v][k].restock > 0 THEN stock[v][k].restock ELSE 0),
           restock |-> IF stock[v][k].restock > 0 THEN 0 ELSE stock[v][k].restock]]]
    /\ need' = <<>>
    /\ done' = need \o done
    /\ UNCHANGED <<item, purse, bank, menu, open>>

-----------------------------------------------------------------------------
Init ==
    /\ stock = [v \in Vendors |-> [k \in Stocked |-> [amount |-> Full, restock |-> 0]]]
    /\ item = [x \in Items |-> Gone]
    /\ purse = [p \in Players |-> Coins] /\ bank = [p \in Players |-> Coins]
    /\ menu = [p \in Players |-> NoMenu]
    /\ need \in {s \in [1 .. Cardinality(Vendors) -> Vendors] : IsInjective(s)}
    /\ done = <<>>
    /\ open = TRUE

\* A player finds goods in the world (a bounded supply, the free serials).
Find(p, x, k, n) ==
    /\ open /\ x \in Free /\ (k \notin Pileable => n = 1)
    /\ At(p) = {}
    /\ item' = [item EXCEPT ![x] = [kind |-> k, amount |-> n, at |-> p]]
    /\ UNCHANGED <<stock, purse, bank, menu, manager, open>>

Lines == [x : Items, n : 1 .. MaxOrder, new : Items]

Trade(p) ==
    \/ \E v \in Vendors :
         \/ \E order \in [Stocked -> 0 .. MaxOrder], made \in [Stocked -> SUBSET Free] :
              Buy(p, v, order, made)
         \/ \E x \in Items, n \in 1 .. MaxOrder : BuySold(p, v, x, n)
         \/ SellMenu(p, v)
    \/ \E a \in Lines : Sell(p, <<a>>)
    \/ \E a, b \in Lines : Sell(p, <<a, b>>)
    \/ CloseMenu(p)
    \/ \E x \in Items : UseUp(p, x) \/ \E q \in Players : HandOver(p, q, x)
    \/ \E x \in Items, k \in Kinds, n \in 1 .. MaxOrder : Find(p, x, k, n)

Next == (\E p \in Players : Trade(p)) \/ GoHome \/ DoRestock \/ DoRestockAll

\* checkauto() calls doRestock() every turn of the main loop, and its timer
\* runs out; nobody has to trade, or to call doRestockAll().
Spec == Init /\ [][Next]_vars /\ WF_vars(DoRestock)

-----------------------------------------------------------------------------
\* Type correctness.
TypeOK ==
    /\ stock \in [Vendors -> [Stocked -> [amount : Int, restock : Int]]]
    /\ item \in [Items -> [kind : Kinds, amount : Nat \ {0}, at : Players \cup Vendors] \cup {Gone}]
    /\ purse \in [Players -> Nat] /\ bank \in [Players -> Nat]
    /\ \A p \in Players : menu[p] # NoMenu =>
          /\ menu[p].vendor \in Vendors
          /\ \E S \in SUBSET Items : menu[p].shown \in [S -> Nat]
    /\ need \in Seq(Vendors) /\ done \in Seq(Vendors)
    /\ open \in BOOLEAN

\* What is on the shelf and what is still to be restocked make the stock the
\* shopkeeper started with, whatever is bought, sold back (to the right or,
\* by the join that is not reset, to the wrong kind) and restocked by half,
\* in any order; and nothing is sold that is not there, however old the menu
\* of the buyer is (src/trade.cpp buyaction, sellaction, doRestock).
StockLevel ==
    \A v \in Vendors, k \in Stocked :
        /\ stock[v][k].amount + stock[v][k].restock = Full
        /\ stock[v][k].amount >= 0

\* What the goods of a player are worth, and what the shelves have lost.
Worth(its, p) ==
    SumOf([x \in Items |-> IF its[x].at = p THEN its[x].amount * Price[its[x].kind] ELSE 0])
Paid(p) == purse[p] + bank[p] - purse'[p] - bank'[p]
Lost(v) == SumOf([k \in Stocked |-> (stock[v][k].amount - stock'[v][k].amount) * Price[k]])

\* What a bill costs a player: nothing a GM, its sum anybody else, or what is
\* left of that in 16 bits when it is 2^15 or more.
Settles(p, bill) ==
    \/ p \in GMs /\ Paid(p) = 0
    \/ p \notin GMs /\ Paid(p) = bill
    \/ p \notin GMs /\ bill >= HalfWord /\ Paid(p) \in CoinsTaken(bill)

GoodsForCoins ==
    \A p \in Players : Paid(p) > 0 => Worth(item', p) - Worth(item, p) >= Paid(p)
CoinsForGoods ==
    \A v \in Vendors : Lost(v) > 0 =>
        \E p \in Players :
            Worth(item', p) - Worth(item, p) = Lost(v) /\ Settles(p, Lost(v))

\* No order is half done: whoever pays gets goods worth at least the coins in
\* the same step, and what leaves the shelves goes to one player, who is a GM
\* or pays for all of it, but for a bill too large for an SI16, of which
\* buyaction() takes a part, nothing, or less than nothing (src/trade.cpp
\* buyaction, src/objects/citem.cpp DeleteAmount and ReduceAmount).
PayerGetsGoods == [][GoodsForCoins /\ CoinsForGoods]_vars

\* The restock manager comes round to every shopkeeper, and a shelf is full
\* again some time after the trade ends: "half of the rest" does not stop
\* short of it, and no container falls out of the two queues
\* (src/trade.cpp doRestock, rewindList).
Refills ==
    ~open ~> \A v \in Vendors, k \in Stocked : stock[v][k].amount >= Full

\* Every container is in one of the two queues, once.
QueuedOnce ==
    LET all == need \o done IN Len(all) = Cardinality(Vendors) /\ IsInjective(all)

=============================================================================
