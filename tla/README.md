# Models of the NoX-Wizard / Hypnos server

TLA+ specifications of a multi-player game server for the Ultima Online protocol, the
TLC runs that check them on small instances, and TLAPS proofs of the properties that
matter most for every instance.

The repository holds two generations of the server:

* **NoX-Wizard**, `src/branches/noxwizard/src/` (called `B/` below): a single-threaded
  server in C++, complete and working. Most of its core is in `B/src/`, older parts in
  `B/deprecated/`. The copy under `src/tags/original` is byte for byte the same;
  `branches/first`, `branches/flameeyes` and the other tags are stages on the way to the
  trunk.
* **Hypnos**, `src/trunk/` (called `T/`): a rewrite in progress with a thread per
  connection. Its object model, accounts and world do not compile at this commit; its
  listener, receiver and killer threads and its scheduler are finished pieces.

The models follow NoX-Wizard first, because it is the program that runs. They describe
the default build: `ENCRYPTION` and `USE_MTHREAD_SEND` undefined.

## 1. Inventory

Every component is listed in `PROJECT.json` with its files and whether it is modelled.

| Component | State | Operations | Talks to | What is hard |
|---|---|---|---|---|
| Connections and login, `B/src/network.cpp` | arrays indexed by slot `0..now-1` (`client[]`, `acctno[]`, `currchar[]`, `clientInfo[]`); each character's client object names a slot | `CheckConn`, `GetMsg`, `LoginMain`, `CharList`, `charplay`, `startchar`, `Disconnect`, `LogOut` | accounts (state), characters (client objects) | `Disconnect()` compacts the arrays, so that every slot number held elsewhere is stale; two connections on one account; hangup in any state |
| Main loop, `B/nox-wizard.cpp`, `CheckMessage()` | loop variables over the slot table, the global descriptor sets | idle sweep, `CheckConn`, batches of 64 slots with `select()` | connections | the table shrinks while it is walked; several batches; a client that empties the global descriptor set |
| Accounts, `B/deprecated/accounts.cpp` | account list, login state, character in the world, characters per account | `SetOnline`, `SetOffline`, `SetEntering`, `LoadAccounts`, add, remove | connections, world load | a state word changed by six handlers; a reload while people play |
| Characters, `B/src/objects/cchar.cpp` | attributes, flags, client object, possession | `possess`, `kick`, `Kill`, `resurrect`, `heartbeat` | almost everything | possession moves a connection from one body to another; death ends trades |
| Drag and drop and secure trade, `B/src/dragdrop.cpp`, `B/src/trade.cpp`, `endtrade()` | container and old container of each item, trade windows linked in pairs, check marks, dragging flag | `get_item`, `drop_item`, `pack_item`, `dump_item`, `tradestart`, `trademsg`, `dotrade`, `endtrade` | characters, world save | lifting and dropping are separate packets; other players, decay, deaths and disconnects come between; refusals must put items back |
| Vendors, `B/src/trade.cpp` | amount and restock of a shopkeeper's goods, items it was sold, coins, two queues of containers to restock | `buyaction`, `sellstuff`, `sellaction`, `doRestock`, `doRestockAll` | items, timers | menus show what may be stale; an order is settled line by line; the queues must lose no container |
| Parties, `B/deprecated/party.cpp` | a vector of members | `addMember`, `removeMember`; the packets are forwarded to scripts | scripts, `Disconnect()` | what the scripts do is no part of the repository |
| Guilds, `B/deprecated/guildstones.cpp` | members, recruits, fealty, master | placement, menu, resigning; the other handlers have no caller | characters, world save | votes for members who left |
| Object registry, `B/src/pointer.cpp`, `B/deprecated/archive.cpp` | serials, container lists, owner lists | `getNextSerial`, insert, delete, collect | everything | iteration over lists that change; serials handed out once |
| Temporary effects and the clock, `B/src/tmpeff.cpp`, `B/src/timing.cpp` | per character: attributes and their bases, a list of effects with amounts and expiry times in a 32-bit clock | start, expire, dispel, `tempeffectsoff`, `tempeffectson` | characters, worn items, world save | a clock that wraps; an effect must undo what it did, whatever changed the attribute meanwhile |
| Spawning, `B/src/spawn.cpp` | by place: a count, the serials of what it made, the time of its next visit; tags on what was made | `doSpawn`, `doSpawnAll`, `removeObject`, `removeSpawnDinamic`, `clearDynamic` | registry, timers, world save | counts against what is alive, through deaths, saves and restarts; spawners that were spawned |
| World save and load, `B/src/worldmain.cpp` | text files | save, load, garbage collection | everything | what is not saved; a crash in the middle |
| Message boards, `B/src/extras/msgboard.cpp` | an index and a file of texts for each board, acknowledgements by slot | post, open, remove, maintenance | files | two files written one after the other; maintenance numbers the posts anew |
| Houses and boats, walking, line of sight | positions | move, build | map data | geometry |
| Magic, skills, combat, intelligence of NPCs | attributes | many formulas | characters | randomness and arithmetic, few interactions |
| Speech, menus, commands, console, scripts (AMX), encryption | text, third-party code | | everything | interfaces |
| Hypnos threads, `T/src/src/networking/*.cpp`, `T/src/src/mainloop.cpp` | a set of receivers for each listener, its mutex, the killer's queue | accept, start, receive, leave, join, delete, shut down | each other | a thread starts in its constructor and takes itself out of a set that another thread walks without the mutex; the shutdown waits for threads that wait for locks |
| Hypnos scheduler, `T/src/src/backend/scheduler.cpp` | event list | add, run, remove | main loop | when an event is due |

What would make each of them correct:

* *Connections, accounts, characters:* one slot table consistent with the login states and
  the client objects, whatever connections come and go: no handle lost or doubled, no
  player character played twice, no account locked, no logout pending for someone who is
  playing, no session handed to a neighbour.
* *Main loop:* every connection with input is served, no other is closed by mistake, every
  idle player goes.
* *Trade:* a deal is settled as a whole or not at all; nobody gives away what he did not
  offer; refused items come back; nothing is lost.
* *Vendors:* shelf and restock add up to the full stock, coins and goods change hands
  together, and every shelf is filled again.
* *Parties, guilds:* membership is symmetric (the list and the member agree).
* *Registry:* a serial names one object, containers form a forest, lists and fields agree.
* *Timers, effects:* each effect is undone exactly once, by what it did, and not late, with
  a clock that wraps; nobody stays frozen.
* *Spawning:* a count is the number of living things the place made, and at its limit at most.
* *Message boards:* a listed post opens its own text; maintenance drops only what is old or
  removed.
* *World save:* what is loaded is what was saved, up to what is documented as left out.
* *Hypnos threads:* no receiver is deleted while it runs, twice or never; the shutdown ends.

The behaviours hard to test are in `PROJECT.json` under `hazards`, each with its line and
the properties that watch it.

## 2. Plan

The order was that of importance. Done, in this order:

1. `Session` (connections, accounts, possession) with its invariants proved.
2. `PollLoop` (the loops that walk the slot table), with liveness; its safety proved.
3. `SecureTrade` (drag and drop, trade windows, death, restart), shown and proved to
   implement `AtomicSwap`.
4. `TempEffects`: effects on an attribute, the clock modulo 2^32, saves and restarts; proved.
5. `Vendor`: buying, selling and restocking, with liveness of the restock manager; its
   safety proved.
6. `ReceiverThreads` (Hypnos): listeners, receivers, killer and main loop as processes,
   with the liveness of the shutdown; its safety proved.
7. `Spawn`: counts against deaths, saves, changes of type and restarts; proved.
8. `MsgBoard`: the two files of a board, with disk errors, crashes and maintenance; proved.

Left, in this order: a `Registry` of serials and
containers with which `SecureTrade`, `Spawn` and `Session` would be composed; an abstract
`Market` (gold and goods exchanged atomically) for `Vendor`, of which `PayerGetsGoods` is the
core; the packets by which a client fetches the list of a message board; the remaining
effects (those that are no arithmetic on an attribute); the other timers of
`B/src/timers.cpp`; vendors of players.

## 3. Modules

| Module | Contents |
|---|---|
| `Session` | slot table, accounts, possession; one action per handler |
| `SessionProofs` | the operators of the slot table, the inductive invariant and the theorems |
| `PollLoop` | main loop, idle sweep, `CheckConn`, batches of `CheckMessage` |
| `PollLoopProofs` | what the test `oldnow==now` is worth |
| `AtomicSwap` | what a secure trade promises |
| `SecureTrade` | dragging, trade windows, death, decay, restart |
| `SecureTradeProofs` | paired windows; `SecureTrade` implements `AtomicSwap`; consent |
| `TempEffects` | temporary effects, worn items, statistics, the clock, save and restart |
| `TempEffectsProofs` | the books of an attribute balance; nobody stays frozen; no effect is late |
| `Vendor` | shopkeepers' stock, orders, menus, the restock manager |
| `VendorProofs` | the stock keeps its level, coins and goods change hands together, the queues |
| `Spawn` | scripted areas and spawners |
| `SpawnProofs` | counts agree with the living |
| `MsgBoard` | index and texts of message boards |
| `MsgBoardProofs` | a post has its own text; a start drops what it should and no more |
| `ReceiverThreads` | the threads of Hypnos |
| `ReceiverThreadsProofs` | nothing is deleted alive, nothing deleted is kept |
| `MCSession`, `MCSecureTrade`, `MCVendor`, `MCSpawn`, `MCMsgBoard`, `MCReceiverThreads` | instances for TLC |

`SecureTrade` is composed with `AtomicSwap` by a refinement mapping. `Session` and
`PollLoop` look at the same slot table at two grains: `Session` runs a handler in one
step and keeps what a slot means (account, character, stage); `PollLoop` keeps only which
handle is in which slot and takes apart the loops that find the packets, with
`MessageTables` for what a handler of `Session` can do to the table: nothing, close its
own slot, kick another one, or close its own and one more. World save and restart appear in
`Session`, `SecureTrade`, `TempEffects`, `Spawn` and `MsgBoard`, in each for the state of
that module. In modules with mutants, the
operators whose names contain `Bug` are alterations of the definition that follows them;
no specification uses one. They are there to show that each property can fail.

### Session and the code

The server is one thread and a handler runs to its end, so one action is one handler; what
interleaves are the packets of different connections, and hangups.

| Model | Code |
|---|---|
| `net.now`, `net.client`, `net.acctno`, `net.currchar` | the arrays of the same names in `cNetwork`; the slots are `0..MaxClients` because the arrays have `MAXCLIENT = MAXIMUM+1` entries |
| `net.stage` | the flags `newclient`, `firstpacket`, `compressOut`, `ingame` of `cClient`, in five combinations that occur |
| `net.state`, `net.online` | `cAccount::state` and the character in the world |
| `net.obj` | the slot named by the `cClient` of a character, `NoSlot` for a null pointer |
| `net.logout` | whether `cChar::logout` holds a time |
| `alive`, `serials`, `pgs` | the object registry, the serial counter, `cAccount::pgs` |
| `possessed`, `possessor` | `possessedSerial`, `possessorSerial` |
| `Detach`, `ShiftDown`, `Renumber` | the three parts of `Disconnect()`: log out, compact the arrays, make new client objects in slot order |
| `CheckConn`, `Seed`, `FirstLoginRequest`, `LoginRequest`, `CharacterSelect`, `CreateCharacter`, `DeleteCharacter`, `Hangup` | accept, the four seed bytes, packets 0x80, 0x91, 0x5D, 0x00, 0x83, and every way a connection ends |
| `Possess`, `SwitchBack` | `cChar::possess()` on an NPC, and back |
| `ReloadAccounts`, `Restart` | the console's key or the touched file; save and start |

The network record is threaded through operators (`Kick`, `Disconnect`, `LoginMain`, ...)
as the C++ functions call each other, so that for instance `LoginMain` clears `currchar[s]`
*after* `Kick` has moved the slots, as the code does. `safe` is the choice, by place and by
keys of a house, between an immediate logout and a timed one. Passwords are a choice of the
account or a refusal. Characters are deleted only from the character list; what
`Delete()` does to the rest of the world is not this module's. The NPCs live for ever, so the
line of `startchar()` that forgets a possessed body that is gone (`B/src/network.cpp:1035`) has
no case here.

Assumed of clients: 0x80 and 0x91 come only as the first packet, 0x5D, 0x00 and 0x83 only
while the character list is shown, and no packet comes without one of these screens. What
follows entry into the game is not modelled except hanging up and possession.

### PollLoop and the code

`pc` says where the main loop is: between turns, in the sweep, before `CheckConn()`, before
`CheckMessage()`, before a `select()`, or walking one batch. `i`, `lp`, `oldnow`, `all`,
`errsock` are the variables of the code (`r` of the sweep is `i`, too). The batch size 64 is
the constant `Batch`. The bounds of a batch are the code's, `(lp<loops) ? 64 : oldnow`, which
are wrong for every batch between the first and the last: those are empty, and `Uncovered`
names their slots. The clients send, fall idle or raise an exceptional condition between any two steps of the
server. A connection's idleness is compared with the time read once per turn, so nobody
becomes idle during a sweep; that its timer comes round is assumed (see Fairness). Which
clients may raise an exceptional condition or fall idle is bounded by `Urgents` and `Idlers`.
Clients in
`Noisy` send packets of unknown type, for which `GetMsg()` calls `select()` on the global
descriptor set itself. Which packets a client sent does not matter otherwise;
`MessageTables` says what any of them may do to the table.

### SecureTrade and the code

| Model | Code |
|---|---|
| `cont`, `oldcont` | `contserial`, `oldcontserial`; a player stands for his backpack, `World` for `INVALID` |
| `at`, `oldat` | whether position and old position are places in the world; an item on a cursor is at (0,0,0) |
| `win[w].owner`, `.peer`, `.mark` | a trade window: container, `moreb`, `morez` |
| `online`, `dead` | client object, `cChar::dead` |
| `hand`, `open`, `shown` | the clients' side: cursor, trade windows and items drawn |
| `seen` | auxiliary, what an owner saw when he set the check mark; no action reads it |
| `Get`, `GetRefused` | `get_item()`: lifting; refused because another player carries it |
| `DropDeleted`, `DropTwice`, `DropRefused`, `DropInPack`, `DropOnGround`, `DropInWindow`, `DropInNoWindow`, `StartTrade`, `NoTrade` | the outcomes of `drop_item()`: `dump_item()`, `pack_item()`, `ItemDroppedOnChar()` |
| `SetMark`, `Conclude`, `CancelTrade` | `trademsg()`, `dotrade()`, `endtrade()` |
| `Kill`, `Resurrect`, `Connect`, `Disconnect` | what they do to items and trades |
| `Decay`, `CorpseDecays`, `Restart` | `doDecay()`; `SaveItem()`, loading and the garbage collection |

Assumed of clients: a user with an item on the cursor can only drop it; a user lifts what
the client shows. When `Races` is `TRUE` a client may lift an item that another client has
on its cursor and that it still draws, which the server allows. Left out: stacks (items are
of different kinds, so none is piled), equipment, drops on NPCs, game masters, scripts,
3D clients, and the distance between players, which is a choice between `StartTrade` and
`NoTrade`. `Windows` bounds the trades at once: `StartTrade` takes serials that nothing
refers to any more, as the registry never hands out one twice.

`AtomicSwap` knows owners and deals only. The mapping gives an item to the player whose
pack or trade window holds it, and calls the pair of windows a deal. On cursor, ground or
in a corpse it belongs to nobody.

### TempEffects and the code

| Model | Code |
|---|---|
| `dx`, `base` | `dx` and `dx3` of a character; strength and intelligence have the same code |
| `item` | an item with the bonus `dx2`: worn, dragged after it was worn (`taken`), dragged after it was not (`lifted`), or elsewhere |
| `frozen` | the flag `flagPriv2Frozen` |
| `fx`, `para` | the entries of the list `m_tempfx` that act on the attribute (clumsy, curse, agility, bless), and those of `SPELL_PARALYZE`; `more` is `m_nMore1`, `expire` the 32-bit expiry time |
| `due` of an entry, `drift` | auxiliary: the expiry in real time, and the characters whose books the code itself left wrong (below); `drift` appears in guards that bound how far an attribute runs away |
| `time`, `lclock`, `overflow`, `checktempfx` | real time, `uiCurrentTime` of the turn before, the flag `checktimers()` computes from it, the timer of `checkTempfx()` |
| `disk` | what the last world save wrote |
| `Cast`, `Paralyze`, `Dispel`, `Unfreeze` | `addTempfx()` with `start()`, `delTempfx()` with the expire code, `unfreeze()` |
| `Turn` | a turn of the main loop: the overflow test, the clock, `checkTempfx()` of everybody when its timer is out; with `checkEquipement()`, which may drop the item of whoever became too weak (`weak`) |
| `CheckSafeStats`, `Save`, `SaveFails`, `Restart` | `checkSafeStats()`, `saveNewWorld()` and loading, which switch all effects off and on |
| `UseItem`, `WearItem`, `LiftItem`, `PackItem` | `Equip()` by a double click, `wear_item()`, `get_item()` with `UnEquip()` (granted or refused after the bonus is off), putting the item down |
| `BounceItem` | `item_bounce3()` and its copies: a drop is refused, and what was worn is worn again without its bonus |
| `LoseItem`, `LoseWeapon` | what `calcDef()` and death take off with the bonus, and what `combatHit()` takes without |
| `Advance`, `Decline` | `AdvanceOneStat()`, and the point another attribute loses |

Amounts need not be small: `Powers`, `Durations`, `Wrap` and the rest are parameters. The
clock is real time modulo `Wrap`, so a wrap between two turns, between a cast and its expiry
or during a save is part of every run. Left out: effects that are no arithmetic on an
attribute (light, invisibility, polymorph), whose ends undo nothing another code touches.

### Vendor and the code

| Model | Code |
|---|---|
| `stock[v][k]` | `amount` and `restock` of the item of kind `k` in the container that is restocked |
| `item`, `purse`, `bank` | goods of players and goods a shopkeeper was sold; coins in the pack and in the bank |
| `GMs` | the players `IsGM()` holds for, who pay nothing |
| `menu` | the sell menu a client shows, with the amounts it was sent with |
| `need`, `done` | `needrestock` and `restocked` of `cRestockMng` |
| `Buy`, `BuySold` | `buyaction()` for goods of the first container, and for goods of the second |
| `SellMenu`, `SellLine`, `Sell` | `sellstuff()`; one line and all lines of `sellaction()` |
| `Refilled`, `DoRestock`, `DoRestockAll` | one item, `doRestock()`, `doRestockAll()` |
| `HandOver`, `UseUp`, `Find`, `CloseMenu`, `GoHome` | what players do meanwhile |

`SellLine` keeps the C++ variables `join` and `value`, which are not reset between the lines
of an order, and ends the order at a line that asks too much, after the lines before it were
taken. Coins are taken by `DeleteAmount()`, which hands the bill to `ReduceAmount()` as an
`SI16`: `CoinsTaken` is what a bill may cost then, in whatever piles the coins lie. An order names
each kind once, as the menu of the client does and cannot do otherwise; nothing in `buyaction()`
says so, for the stock is compared with each line by itself (`B/src/trade.cpp:106`), and orders
that no menu makes are left out. Of the amounts sold at once it is assumed that the server's
option `sellmaxitem` is below 2^15 (`SellMax < HalfWord`; it is 50 where it is not set), so that an
amount sold, unlike a bill, always fits. The second container has no shelf of its own: what is sold but not restocked is an item at the shopkeeper.

### Spawn and the code

A place is a scripted area or a spawner. `current` and `spawned` are its count and its two
sets of serials, `spawnregion` and `spawnserial` the tags of what was made, `dinamic` the keys
of the map of spawners, `due` the places whose `nextspawn` has passed. A pass (`Check`,
`RegSpawnMax`, the first round after a start) fills `todo`; each visit is one action with its
outcome: `SkipArea`, `NothingToSpawn`, `NoLocation`, `SafeCreate`, `DoSpawn`, `Idle`. Between
passes, objects die (`Delete`, with the removal from the set that the tag leads to), scripts,
those of game masters' commands among them, make spawners or change the type of an item
(`Place`, `Retype`), the world is saved
(`Save`: the map of spawners is made anew, so their counts start at 0 again) or the server
restarts (`Restart`: nothing that has a tag was saved). Where something is made, what it is
and when the next visit comes are free choices.

### MsgBoard and the code

`top` and `index` are the head and the entries of a `.bbi` file, `texts` the posts of the
`.bbp` file beside it; `text` in an entry is auxiliary, the text its author wrote. `Post`,
`PostTorn` and `PostRefused` are the outcomes of `MsgBoardPost()`: both files written, the
index only, the serial number only. A text of which only a part reaches the disk is left out:
`MsgBoardPost()` does not look at what `fwrite()` returns (`B/src/extras/msgboard.cpp:1067`), and
such a post is read with whatever follows. `RemovePost` marks the first entry that has the number.
`NextDay` moves the day of the year by which posts age. `Restart` is
`MsgBoardMaintenance()`: `Compacted` walks an index and its texts together, drops what is old
or removed and numbers the rest anew; `Reached` says which files it comes to before it
returns early. It renames the index to `bbi.tmp`, reads that, and removes it at the end, except
where it returns because the texts are missing: `leftover` is the `bbi.tmp` that stays. `Windows`
chooses between the two systems in both things they differ in: the loop over the files, which on
Unix ends after one, and `rename()`, which on Windows does not replace a file. There the next
index to be cleaned stays in its place, is emptied by `fopen("wb")`, and the leftover is read for
it (`Displaced`, `OldIndex`). That files are opened, read and removed when they are there is
assumed.

### ReceiverThreads and the code

Each thread (the listeners, a receiver per connection, the killer, the main loop) is a
program counter: `accepting`, `at`, `killer`, `main`. Steps end where another thread may see
the difference: at a mutex, an access to the set, the queue, `start()`, `join()`, `delete`.
`threads` and `threads_m` are the sets and their mutexes, `deadSockets` the queue of the
killer, `it` the receiver at which the loop of a listener's destructor is and `walk` those after
it. The loop does not hold the mutex: a receiver that takes itself out of the set leaves `walk`,
too, unless the loop is at it already; then it is closed even when it was deleted meanwhile, and
where the iterator goes from there is any of the receivers that are left.
`deleted` keeps what was freed. The sources do not compile at this commit (`threads` of the
destructor is undeclared, a `:` stands for a `;`, `dead.join()` is called on a pointer); they
are modelled as they are meant. The member `sock` that a receiver tests is declared anew in
the derived class and never assigned: `EndBlind` is the case that it reads as null, when the
thread ends at once and leaves its object in the set.

## 4. Runs

All runs are exhaustive on their instance. Times are for two workers.

### Runs that pass

| Run | Instance | Properties | Distinct states, time |
|---|---|---|---|
| `session` | 3 slots, 3 handles, account a0 with characters c1, c2 and a1 with c3, no NPC, reloads | `DistinctHandles`, `OneSlotPerCharacter`, `ClientObjectsMatch`, `NoLockedAccount`, `SurvivorsKeepSession` | 408,057, 35 s |
| `possess` | 2 slots, 3 handles, the same accounts, one NPC, reloads and restarts | `TypeOK`, `LogoutNeverPending`, `PossessorNamesBody` | 479,017, 30 s |
| `poll` | 4 slots, batches of 2, 4 handles, f1 watched, f2 noisy, f3 urgent, f1 and f2 may fall idle | `TypeOK`, `NeverReadsDry`, `ServedIfCovered`, `IdleLeaves` | 622,306, 110 s |
| `trade` | 2 players, 2 items, 4 windows (two trades at once), `Races = FALSE` | `PairedWindows`, `DeadDoNotTrade`, `OwnerAgreed` | 459,752, 95 s |
| `swap` | 2 players, 2 items, 2 windows, `Races = TRUE` | `TypeOK`, `BounceSafe`, `ImplementsAtomicSwap` | 93,092, 20 s |
| `effects` | 1 character, a hex and a boon of strength 3, effects of 3 ms, a look every ms, turns and saves of 1 or 2 ms, a clock that starts again after 5 ms, 12 ms in all | `TypeOK`, `Balanced`, `FrozenHasCause`, `NeverLate` | 3,244,880, 145 s |
| `vendor` | a customer and a GM, 2 shopkeepers, 2 kinds (one restocked), 2 serials, bills from 3 coins on cut to 16 bits | `TypeOK`, `StockLevel`, `QueuedOnce`, `PayerGetsGoods`, `Refills` | 477,204, 55 s |
| `spawn` | 1 script of 2 areas, 2 things each at most; 3 objects, any of which may be a spawner of 2 | `TypeOK`, `CountsAgree`, `AtMostLimit`, `Accounted`, `EachCounted` | 3,301,442, 85 s |
| `board` | 2 pairs of files of 4 numbers each, 3 posts of 2 texts, a year of 2 days | `TypeOK`, `OwnText`, `CleansOnlyOld` | 2,119,664, 135 s |
| `threads` | 2 listeners, 3 receivers | `TypeOK`, `RunsAlive`, `NoDangling`, `Reaped`, `ShutsDown` | 426,833, 105 s |

Why these bounds are enough to be interesting:

* *session*: three slots are the fewest in which closing one moves two others, so that a
  slot number may go stale by one or by two; one of them can be below, one above the slot
  of a handler. Two characters of one account make a second login choose the played
  character or another one; the second account is the neighbour that must not be affected.
  The limit of two characters per account is reached. c2 can be created, c1, c2, c3 deleted.
* *possess*: with two slots the player and the possessed NPC can be in the table at once,
  which needs a second connection of the account; a restart in each state of possession.
* *poll*: four slots with batches of two are the smallest instance with an empty batch: when
  all four are open, the bound of the second batch is that of the first, as it is for 64 slots
  and 128 connections. With three connections the second batch is the last, and shorter. Four
  connections let one be watched, one be noisy, one fail and one come and go.
* *trade*, *swap*: two trades at once between the same two players are possible only with
  four windows; one trade with two items can carry something on both sides, two things on
  one side, or one thing while the other is on a cursor.
* *effects*: all that one effect or item does to a character depends on no other character,
  except that switching effects off and on concerns everybody, which the proofs cover for any
  number. A strength above the limit of the attribute makes a hex take less than was asked
  for. With `Wrap` below `MaxTime` the clock starts again twice; an effect can begin before
  and end after, at and past it; two saves can fall into one effect. `Depth` and `drift`
  bound how far an attribute may be driven by the codes that do not keep its books. The one item
  stands for armour, weapon and shield: each of the ways in which it can be lost is a choice.
* *vendor*: a second player makes a menu stale: what it shows can be handed over, used up or
  sold to the same shopkeeper before the order comes; that one of the two is a GM reaches both
  ways to pay. One kind is restocked, the other only sold and bought back. Orders of two lines
  reach the variables that are not reset. Bills go from 0 to 4 coins, above `CheckBank`, so that
  pack and bank both pay, and above `HalfWord`, so that the conversion to `SI16` takes a part of a
  bill, nothing, or makes the purse grow (without its case, `PayerGetsGoods` fails after one
  order). `MaxPurse` keeps those with many coins from selling, `MaxCoins` from buying, `MaxStock`
  bounds the shelves. Two shopkeepers are more than one round serves (`PerTime` = 2, of which one
  is left out), so the queues are passed on in parts; shelves of two need two rounds.
* *spawn*: two areas of one script share a tag, so that a removal must find the right one;
  with three objects a spawner can be spawned by an area and itself make the third; the
  limit of two is reached by each place.
* *board*: three posts are enough for a torn post before and after whole ones, for two posts
  with one number, and for numbers to be used up (`Limit` 4). The second file is the one
  maintenance does not come to when the first has lost its texts, and whose leftover index makes
  the first, posted to meanwhile, lose its own at the next start.
* *threads*: two listeners are closed one after the other while receivers of both run; with
  three receivers one can be in construction, one in the killer's hands and one in its queue.

Constants that are sets of interchangeable model values are symmetric (`Fds` in `session`
and `possess`; `Players`, `Items`, `Windows` in `trade` and `swap`; `Objects` in `spawn`); no
liveness is checked under symmetry. Three views merge states. `LiveView` blanks what a closed
connection left in the slots past `now`: `CheckConn()` overwrites it before anything reads it
(`currchar`, which `Renumber` does read there, is kept). `Unrecorded` drops `seen`, which no
action and no property of run `swap` reads; `OwnRecorded` keeps its part `mine`, the only one
`OwnerAgreed` reads. `CHECK_DEADLOCK` is left on except in `threads`, whose server ends.

What they show:

* `DistinctHandles`, `OneSlotPerCharacter`, `ClientObjectsMatch`: the compaction of
  `Disconnect()` with all its callers loses and doubles nothing, and client objects follow
  the slots, although `charplay()` and `LoginMain()` use stale slot numbers. Player
  characters only: a possessed NPC may be in two slots, because `charplay()` looks for the
  player's serial.
* `NoLockedAccount`: an account in use is always held by a connection whose end frees it.
  Checked without NPCs: `SetOnline()` and `SetOffline()` for an NPC have no account to act
  on, and the run `possess` does not list it.
* `LogoutNeverPending`: a pending logout never belongs to the character its account has in
  the world, so the heartbeat never ends a session that is going on.
* `PossessorNamesBody`: a possessed NPC can always be given back.
* `SurvivorsKeepSession`: no connection inherits its neighbour's account or character.
* `NeverReadsDry`: the test `oldnow==now` is enough to keep `CheckMessage()` from calling
  `GetMsg()` for a connection that has nothing to read, which would drop it.
* `ServedIfCovered`, `IdleLeaves`: nobody whose slot a batch covers starves and idle players
  leave, unless unknown packets empty the descriptor set for ever. That everybody is served,
  whatever his slot, is what run `crowd` refutes.
* `PairedWindows`, `DeadDoNotTrade`: there is no half of a trade, and death ends trades.
* `BounceSafe`, `ImplementsAtomicSwap`: items change owner by a whole deal or by being let
  go of, even with two clients dragging the same item.
* `OwnerAgreed`: what is given away was offered; this needs `Races = FALSE`, for when two
  clients drag the same item, one of them may bounce it out of the world into a window of
  the other player after the check mark was set.
* `Balanced`: an attribute is its base, the bonus of what is worn and what the listed effects
  did to it, except for characters in `drift`: the code is known to leave the books of these
  wrong (a save or a restart with an item worn, an item put on twice or not at all, a worn item
  whose lifting or whose drop is refused, a weapon or shield lost in a fight, the limit of
  advancement), and `checkSafeStats()` is shown to put them right. `FrozenHasCause`: no
  order of paralyses, saves, damage and restarts leaves somebody frozen for good. `NeverLate`:
  the overflow flag makes effects end in time when the clock starts again. It is set one turn
  late (`checktimers()` runs before the clock is read), so an effect that is due just before
  the clock starts again may last for the time between two looks, two turns and a save or two
  longer than it should (`Slack`), and not for another 49 days.
* `StockLevel`, `PayerGetsGoods`: no sequence of orders, however old the menus, gets goods or
  coins out of step: whoever loses coins is given goods worth at least as much in the same step, and
  what leaves the shelves goes to one player, who pays for all of it, is a GM, or has a bill too
  large for an `SI16` and pays what that leaves of it (`Settles`). The converse (whoever hands
  goods over is paid) is false of the code, see below. `QueuedOnce`, `Refills`:
  the restock manager forgets nobody and "half of what is missing and one more" arrives.
* `CountsAgree`, `AtMostLimit`, `Accounted`, `EachCounted`: neither deaths nor changes of
  type nor spawners made by spawners make a place count what is dead or forget what is alive,
  as long as it keeps its counts. `EachCounted` is about scripted areas only: the world save
  makes spawners forget what they made (below).
* `OwnText`: after torn posts, wasted numbers, removals and renumbering, who opens a listed
  post reads that one. `CleansOnlyOld`: maintenance keeps what is neither old nor removed, up
  to the first torn post, and nothing else; the one index it empties without looking is that
  which could not be renamed.
* `RunsAlive`, `NoDangling`: a receiver is deleted after its thread has ended, and no set, queue
  or destructor still to reach it keeps a pointer to it. The destructor that is *at* it does, and
  closes it after it was deleted (`it` is left out of `NoDangling`; with it, the property is false of
  the code, as the mutex the destructor does not take leads one to expect); `Reaped`, `ShutsDown`: every receiver that leaves is deleted, and a
  shutdown ends, whoever holds which mutex when it is ordered.

### Fairness

`PollLoop` assumes `WF_vars(Server)`: `while (keeprun)` goes on, and no step of the loop
waits for a client (the sockets are set to `FIONBIO`, and every `select()` of the loop has a
timeout of zero). It assumes `SF_vars(BeginSweep)`: the sweep is run when its timer has
expired at a turn of the main loop; the timer is set again after each sweep and expires
again and again, while between two turns the sweep is not enabled, so weak fairness would
say nothing. Nothing is assumed of the clients. (The sweep compares its timer without the
flag for a clock that starts again, so at a wrap of the 32-bit clock, every 49 days, a sweep
may be delayed; it comes round all the same.)

`Vendor` assumes `WF_vars(DoRestock)`: `checkauto()` calls `doRestock()` at every turn of the
main loop, and its timer runs out. Nobody has to trade, nor does anybody have to stop:
`Refills` says what follows when all have.

`ReceiverThreads` assumes weak fairness of each thread, of the killer and of the shutdown
once it was ordered: the operating system schedules them all. The `accept()` of a listener
has a timeout, after which it sees that its socket was closed. Acquiring a mutex is weakly
fair only because a thread that holds one gives it back without waiting for anything. No
peer has to connect or hang up, and nobody has to order a shutdown.

The other modules state no liveness.

### Runs that show a disagreement

| Run | What the code says | What it does |
|---|---|---|
| `crowd` | "rewritten to support more than 64 concurrent clients" (`B/src/network.cpp:1472`) | with 128 connections and more, every batch between the first and the last is empty: while the others stay, the clients in slots 64 to 127 (from 192 connections on, to 191, and so on) are never served (`EveryClientServed`, under the fairness of `poll`, with no noisy client, no error and nobody idle) |
| `duplicate` | packet 0x53 code 5: "character already in world" | `charplay()` calls `Disconnect(s)`, then `Disconnect(idx)` with a slot number from before the compaction: when idx > s the connection closed is somebody else's |

Met on the way and without a run; the models do all of this as the code does.

* Connections: `LogOut()` arms the timer of a logout, but then neither the account nor the
  client object knows the character, and the heartbeat that should end the logout runs for
  online characters only, although a comment calls -1 "in the world or already logged out".
  `LoginMain()` clears `currchar[s]` after `kick()` has moved the slots
  (`B/src/network.cpp:610`); `Disconnect()` and `charplay()` take an account offline while
  another connection plays its character (lines 392, 882); the idle sweep passes over the
  connection that moves into a closed slot until its next round (`B/nox-wizard.cpp:1365`;
  `IdleLeaves` shows that it is found later). A reload of the accounts at run time empties all
  character lists. Possession is saved on the possessor's side only, so after a restart two
  players can possess one NPC.
* Trade: an item dropped on a player who cannot trade is not bounced but left at (0,0,0),
  which the next save leaves out; `get_item()` looks for the other window in `moreb` of the
  item and not of the window, so that lifting an item out of a window resets no check mark; an
  item lifted from a window and refused goes back into the window even when that was deleted
  (`B/src/dragdrop.cpp:103`), and the next start removes it; `clearalltrades()` has an empty
  body (`B/src/trade.cpp:458`), so that trade windows outlive a restart.
* Effects: the first of two paralyses that ends frees its victim, and the next save freezes it
  again; whoever resisted a paralysis is frozen by the next save; `wear_item()` calls `Equip()`
  twice when items in the way are taken off, and `Equip()` keeps the bonus when the layer is
  taken; `SaveChar()` drops the bonus of worn items; the limit of advancement sets an
  attribute whatever effects are at work; a worn item has lost its bonus when the lifting is
  refused, and when its drop is refused, for `item_bounce3()` asks for the old container after
  restoring it, and `setContSerial()` has forgotten it (`B/src/dragdrop.cpp:103`, 108), so that the
  lines that give the bonus back are not reached; a weapon or shield that breaks, or a weapon
  struck from the hand, leaves its bonus behind (`B/src/objects/cchar/combat.cpp:219`, 247, 294);
  a hex on an attribute below 0 adds to it; the
  effects of combat blows (`COMBAT_PARALYZE`, `COMBAT_CONCUSSION`) have no code for their end,
  and armour, protection, invisibility, polymorph and incognito are not switched off for a
  save, so a restart makes them permanent; effects begun just before the clock starts again
  end at once.
* Vendors: an order to sell that is refused at a line ("Cheating scum") keeps the goods of the
  lines before it and pays nothing; the price of a line may be that of the line before; a part
  of a pile of goods that are not restocked is paid for and the rest is doubled
  (`DupeItem()` gives the seller the rest, the pile keeps its amount); a whole item that does
  not pile is handed over beside a new one; of bills from 2^15 coins on a part is taken, or nothing, or the buyer's pile grows
  (`cItem::DeleteAmount()` passes an `int` as `SI16`, `B/src/objects/citem.cpp:730`); order lines
  that name one item twice would each be compared with the whole stock (no menu makes them); one fewer than
  `RESTOCK_PER_TIME` is served; vendors made at run time are restocked after the next start
  only; `sellaction()` does not ask whose pack an item is in.
* Spawning: each world save sets the counts of spawners to 0 while what they made lives, so
  their population grows beyond `amount` with every save (`B/src/worldmain.cpp:2182`); a
  script with nothing but items disables its areas for good; a spawner placed at run time does
  nothing until the next save; deleting a spawner leaves its creatures.
* Message boards: the Unix loop over the files ends after the first; a torn post makes the next
  maintenance drop everything behind it, and hides what follows it from the list; when texts
  are missing, maintenance returns and leaves an index of no bytes, which refuses posts until
  the second start, and a `bbi.tmp` which on Windows makes the next index lose all its posts
  (`B/src/extras/msgboard.cpp:2455`, 2417); the number of a post is used up before the limit is checked; the parents
  of replies keep their old numbers; `MsgBoardOpen` may write one past `postAcked`; what is
  acknowledged is kept by slot, and `Disconnect()` does not move it; posts age by the day of
  the year. Escort quests and bounties have no caller.
* Hypnos: the destructor of a listener walks the set of threads without the mutex that
  `tpllistener.hpp:42` promises, and may close a receiver that was deleted while it was at it (the
  model has this, `CloseOne`; a crash there is no outcome of the model); receivers that outlive it lock a mutex in freed memory; the
  killer is stopped with receivers left in its queue; the scheduler never sets the time of the
  last run of an event and compares milliseconds with seconds.

## 5. Proofs

TLAPS checks every leaf; the assumptions are the named `ASSUME`s of the modules: constants
that stand for null values lie outside the sets they complete, bounds are natural numbers
(some of them positive), `Owner` maps characters to accounts, at most 5 characters per
account, players, windows and the three other containers are distinct, the objects of
`Spawn` are finitely many, so are the restocked kinds, the items and the shopkeepers of
`Vendor`, `PerTime` is positive, no order sells 2^15 items, the numbers of the files of `MsgBoard` do not overlap,
listeners are no receivers. TLC evaluates them in every run.

**Session** (`SessionProofs`): type correctness and five invariants, for any number of slots,
accounts, characters and NPCs, with reloads and restarts. None of the invariants is inductive
alone. `IInv` is the type invariant, the possession part `WorldOK` and `NetInv` =
`TableOK` + `Match` where `TableOK` is

* `Distinct`: open slots have different handles;
* `Single`: a player character is in one slot at most;
* `Known`: slots hold existing characters, NPCs or nothing;
* `AtHome`: a player character in the table possesses no NPC (it would be played twice);
* `Pending`: a pending logout belongs to an existing character that is in no slot, possesses
  nothing and is not the one its account has in the world.

The central lemma is `DisconnectInv`: *from `TableOK` alone*, `Disconnect()` establishes
`NetInv`. It rebuilds all client objects in slot order, so `Match` comes out of `Single`
without having gone in. That is why `charplay()` may call it twice in a row, with a stale
second slot, from a state in which it has already cleared a client object (where `Match`
fails). Each handler then has one lemma, and `NextIInv` puts them together.

`NoLockedAccount` and `SurvivorsKeepSession` are proved for worlds without NPCs to possess
(`NobodyLockedOut`, `SessionsSurvive`), reloads and restarts included; a possession changes the
character of a slot, which is what `SurvivorsKeepSession` forbids, so they are claimed of no
other world. `AInv` adds to `IInv` that accounts in use are held (`Held`), that a slot has no
account before its login and no character before its choice (`Fresh`), and that an account
lists its own characters only (`Listed`). The last makes `SetOnline()` in `charplay()` bring up
the account of the slot that asks and of no other; `Fresh` makes a login take the account of
nobody.

**Trade windows** (`SecureTradeProofs`): `TradeInv` = windows typed, paired, owned by the
living. It speaks of `win` and `dead` only. `endtrade()` deletes pairs, `Kill()` all pairs of
the victim; a set closed under `Peer` can be deleted without leaving half a trade.

**Atomic swaps** (`SecureTradeProofs`): `Spec => ImplementsAtomicSwap`, the refinement of
`AtomicSwap`. The invariant is `TradeInv` with typed containers and `BounceSafe`. The latter
is what makes bounces harmless: a bounce moves an item from wherever it is to wherever it was
before, so an item somebody owns must have come from a place nobody owns, or from the same
place, otherwise a refused drop could take it from its owner and give it to another player
without a deal. Each action becomes `Acquire` (a drop into a pack or window, a bounce back),
`Swap` (`Conclude` with both players online), `CallOff` (lifting, decay, death, cancelled
trades, a restart that finds items in deleted windows) or a stutter.

**Consent** (`SecureTradeProofs`, `GiversAgreed`): `OwnerAgreed`, when no two clients have the same item
on their cursors (`Races = FALSE`; with races it is not claimed). Lifting an item out of a
marked window leaves the mark, and a refused drop bounces the item back into it, so the
invariant `AgreeInv` has to follow items on cursors: what would come back into a marked window
was taken out by the window's owner and had been seen (`CursorBack`), because a client with an
item on its cursor sends no check mark, and no item is on two cursors (`HandsApart`) or on a
cursor and in a container (`HeldInWorld`).

**The poll loop** (`PollLoopProofs`): `TypeOK` and `NeverReadsDry`, for any size of the table and
of a batch. The invariant adds to the types that open slots have handles of their own
(`Good`) and what the test `oldnow==now` is worth (`Walk`): a batch lies within the table
`CheckMessage()` found, the table has not grown since, and *if it has as many connections as
then*, the slots still to be looked at hold what `select()` found readable. Closing a slot
always makes the table smaller and nothing else changes it between two `select()`s
(`ClosedRemains`, `MessagesRemain`), so equal size is equal table. Handles must be distinct
so that what `GetMsg()` reads in slot i is not the input of a later slot (`HeardOnce`).

**Effects** (`TempEffectsProofs`): `TypeOK`, `Balanced` and `FrozenHasCause`, for any number of
characters and any strengths, durations and clock. `Balanced` and the types are inductive
together, by what one more effect in the list adds (`EffectsOfOneMore`); the actions the code lets leave the
books wrong put their character into `drift`, and each way to lose, lift or bounce an item is
either one of these or restores the sum; `FrozenHasCause` needs
`SavedSober` (nobody is frozen in the saved world), because a restart brings the flag back
and no effect with it. `NeverLate` is proved from `CircleAssumption`: a turn or
a save takes less than half a round of the clock, so that a turn that compares its clock with
that of the turn before sees every wrap. The clock shows real time modulo `Wrap`,
which is not enough to say how late an effect is. The invariant `TimeInv` therefore names
three moments of real time that no variable keeps: when the clock started last before the last
turn, when that turn compared the clocks, and when it looked at the effects. Until the clock
starts again, everything listed was asked for in the same round and the next look is at most
`Period` after it is due; after that, one turn sees the flag and ends every effect.

**Spawning** (`SpawnProofs`): `TypeOK`, `CountsAgree`, `AtMostLimit`, `Accounted` and
`EachCounted`, inductive together, for any number of areas, spawners and objects. A count can
stay the size of its set only if a dying object is in the set its tag leads to and in no
other, which is what `Accounted` and `EachCounted` say.

**Threads** (`ReceiverThreadsProofs`): `TypeOK`, `RunsAlive` and `NoDangling`, for any number of
listeners and receivers. The invariant follows a receiver: from the set of its listener, which
it has left before it is handed over (`Placed`), through the queue of the killer, where it is
once at most (`HandedOnce`), to its deletion after its end (`KillerWaits`). What a destructor has
still to walk is a part of the set of the listener, so that leaving the set is leaving the walk.

**Shops** (`VendorProofs`): `TypeOK`, `StockLevel`, `QueuedOnce` and both halves of
`PayerGetsGoods`, for any number of players, shopkeepers, kinds, items and lines. `Inv` is
`StockLevel` with the types of stock, items, coins and menus. `Buy` and the restock manager are
short arguments; `Sell` is a recursion through the lines of an order, with `join` and `value`
left over from the lines before. What holds after each line is the set `Lefts` of its
accumulators: typed, the stock at its level and no shelf emptier than at the start of the
order, so that even the goods of one kind put on the shelf of another keep the level.
`QueuedOnce` is proved with the types of the queues only (`Queues`): what a round takes from
one queue it appends to the other, and refilling the empty queue moves the whole.

`GoodsArePaidFor` compares two states, for bills of any size: `PaysType` and `PaysBill` say that
`Pays` leaves coins of natural numbers and settles the bill, the case of a bill that an `SI16`
cannot hold included, for which `TakenIsPart` shows that no more than the bill is taken. A buyer's
goods become worth exactly what the shelves lost, by the sum over the items made (`Worth`).

**Message boards** (`MsgBoardProofs`): `TypeOK`, `OwnText` and the action property
`CleansOnlyOld`, for any files, numbers, days and lengths, on Windows and Unix. The invariant
`Sound` relates the two files of a pair: the numbers grow along each, none is above the head of
the index, and an entry and a post with one number have one text (`SameTexts`). `OwnText` alone
is not inductive: it says nothing of a torn post, whose number another post could get later;
that the head is never below a number in either file excludes it, which is why the head must be
written first. Maintenance is a recursion through the index. `Kept(f, i, a)` says what its
accumulator `a` is after `i` entries: as many entries as there are wanted ones before the first
torn one, numbered without gaps, each in its place with its text; and the rest of the texts
starts behind posts whose numbers some entry passed already, so that a text looked for later is
not missed (`FindNext`). Both files growing is what makes the search forwards right. A leftover
index is that of a pair that has no posts (`Left`): nothing in it finds a text, neither there nor
in another pair, whose numbers are of another kind, so that what is read in place of an index comes
out empty.

`Vendor` and `MsgBoard` sum over sets and recur through sequences. The induction theorems of the
library take a formula as a parameter, which the provers cannot instantiate; both proof modules
therefore prove induction for a *set* (`Upto`: a set that has 0, and `i + 1` with every `i < n`,
has all numbers up to n; `SubsetInduction` for finite sets; both from the least element of a
well-founded order) and turn the formula into the set of the numbers, or subsets, that satisfy
it. The existence of the recursive function is proved the same way (`Stepwise`). No `RECURSIVE`
operator is used.

Every safety property and action property of the passing runs is a theorem, with the
restrictions named above (`Npcs = {}` for two of `Session`, `Races = FALSE` for `OwnerAgreed`).
Only checked by TLC: liveness (`ServedIfCovered`, `IdleLeaves`, `Refills`, `Reaped`, `ShutsDown`), which is out of the prover's reach.

## 6. Not modelled

* The contents and lengths of packets; the output buffers; partial reads (a packet arrives
  whole or the connection ends); the console, the telnet interface and remote
  administration; creation and removal of accounts; the `batchcheck()` that follows `GetMsg()`
  in the loop; what a script may do in any handler.
* In trades: stacks of items and equipment; game masters, who may lift what they like.
* Of effects: those that are no arithmetic on an attribute or a paralysis. Of vendors: values
  by region and skill, vendors of players. Of spawning: the lists of what to make and the
  search for a place. Of message boards: the exchange of lists and acknowledgements with a
  client, and the search for the boards of a region.
* Parties: the packets are answered by scripts that are no part of the repository. Guilds:
  only placement, menu and resigning still have a caller.
* Houses, boats, walking and line of sight are geometry over map data files, and what could be
  stated is local to single functions (`buildhouse` keeps the state of a placement in a static
  variable that all players share, `B/deprecated/house.cpp:77`). Combat, magic and skills are
  formulas over attributes and random numbers. The script interpreter and the encryption
  (not compiled by default) are third-party code.
* Of Hypnos, everything but its threads: the rest does not compile at this commit, and its
  handlers are still the text of the NoX-Wizard ones. Nothing fills the list of its scheduler.
* Single lines that may go wrong without a second actor and are in no list: key D of the
  console, which closes every second connection (`B/nox-wizard.cpp:692`); the places of an
  account, which `charcreate()` counts and `chardel()` does not give back (line 255);
  `RemoveAccount()`, which takes for granted that the character of an account has a client
  (`B/deprecated/accounts.cpp:747`).
* The format of the files of a world save: each module says what a save keeps of its state.

The sources are large for what they do: of the 336,000 lines in `src/`, two thirds are
further copies of the same server (`tags/`, `branches/`), and of the copy modelled here the
largest part is the script engine with its bindings, commands, magic, skills and the
intelligence of NPCs.

## 7. How to run

    tlc -workers 2 -config MCSession.cfg MCSession
    tlapm SessionProofs.tla

`PROJECT.json` lists all runs with their configurations, the altered definition that makes
each property fail, the source lines behind every definition, the hazards and the theorems.
