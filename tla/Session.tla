------------------------------ MODULE Session ------------------------------
(***************************************************************************)
(* The connection table of the NoX-Wizard server and everything that hangs *)
(* on it: cNetwork (src/network.cpp) keeps one array per attribute of a    *)
(* connection, indexed by the slot number 0 .. now-1; cAccounts            *)
(* (deprecated/accounts.cpp) keeps the login state of each account; each   *)
(* character (src/objects/cchar.cpp) keeps a client object that names a    *)
(* slot.  Closing a connection compacts the arrays, so that every slot     *)
(* number held anywhere else has to be corrected.                          *)
(*                                                                         *)
(* The server is single-threaded: one action is one handler, run to its    *)
(* end.  The interleaving is that of the packets of different connections. *)
(*                                                                         *)
(* All paths below are under src/branches/noxwizard/src.                   *)
(***************************************************************************)
EXTENDS Integers, FiniteSets

CONSTANTS
    MaxClients,   \* MAXIMUM, the most connections open at once
    Fds,          \* the operating system's socket handles
    Accounts,     \* account numbers
    Chars,        \* serials of player characters
    Npcs,         \* serials of the NPCs a game master may possess
    Owner,        \* the account a player character belongs to
    RoleLimit,    \* ServerScp::g_nLimitRoleNumbers, characters per account
    Born,         \* the characters that exist when the server starts
    Reloads,      \* may the operator reload the accounts file?
    Restarts,     \* may the server be shut down and started again?
    NoFd, NoAcct, NoBody

ASSUME MaxClientsAssumption == MaxClients \in Nat \ {0}
ASSUME OwnerAssumption == Owner \in [Chars -> Accounts]
ASSUME BodiesAssumption == Chars \cap Npcs = {} /\ Born \subseteq Chars
ASSUME NullAssumption ==
    NoFd \notin Fds /\ NoAcct \notin Accounts /\ NoBody \notin Chars \cup Npcs
ASSUME RoleLimitAssumption == RoleLimit \in 1 .. 5
ASSUME SwitchAssumption == Reloads \in BOOLEAN /\ Restarts \in BOOLEAN

Bodies == Chars \cup Npcs

\* The arrays have MAXCLIENT = MAXIMUM + 1 entries.
Slots == 0 .. MaxClients
NoSlot == -1

(***************************************************************************)
(* What the server knows of the peer of a slot, folded from the flags      *)
(* newclient, firstpacket, compressOut and ingame of cClient:              *)
(*   "new"    accepted, the four seed bytes have not arrived               *)
(*   "first"  the next packet must be 0x80 or 0x91                         *)
(*   "login"  0x80 was handled: the server list                            *)
(*   "list"   0x91 was handled: the character list                         *)
(*   "game"   enterchar() was run                                          *)
(***************************************************************************)
Stages == {"new", "first", "login", "list", "game"}

VARIABLES
    net,        \* the slot table, the login states and the client objects
    alive,      \* the bodies that findCharBySerial() finds
    serials,    \* the character serials given out so far
    pgs,        \* cAccount::pgs, the characters listed for an account
    possessed,  \* cChar::possessedSerial
    possessor   \* cChar::possessorSerial

vars == <<net, alive, serials, pgs, possessed, possessor>>

NetRecords ==
    [ now      : 0 .. MaxClients,
      client   : [Slots -> Fds \cup {NoFd}],
      acctno   : [Slots -> Accounts \cup {NoAcct}],
      currchar : [Slots -> Bodies \cup {NoBody}],
      stage    : [Slots -> Stages],
      state    : [Accounts -> {"out", "entering", "ingame"}],
      online   : [Accounts -> Bodies \cup {NoBody}],
      obj      : [Bodies -> Slots \cup {NoSlot}],
      logout   : [Bodies -> {"none", "armed"}] ]

Live(n) == 0 .. n.now - 1
LiveFds(n) == {n.client[i] : i \in Live(n)}
AcctOf(b) == IF b \in Chars THEN Owner[b] ELSE NoAcct
IsNpc(b) == b \in Npcs /\ possessor[b] = NoBody

-----------------------------------------------------------------------------
(* cAccounts: each operation finds the account first and does nothing for  *)
(* a number that is not in the list.                                       *)

SetOffline(n, a) ==
    IF a \notin Accounts THEN n
    ELSE [n EXCEPT !.state[a] = "out", !.online[a] = NoBody]

SetOnline(n, b) ==
    IF AcctOf(b) \notin Accounts THEN n
    ELSE [n EXCEPT !.state[AcctOf(b)] = "ingame", !.online[AcctOf(b)] = b]

SetEntering(n, a) == [n EXCEPT !.state[a] = "entering"]

GetInWorld(n, a) == IF n.state[a] = "ingame" THEN n.online[a] ELSE NoBody

IsOnline(n, b) ==
    \/ n.obj[b] # NoSlot
    \/ AcctOf(b) \in Accounts /\ GetInWorld(n, AcctOf(b)) = b

-----------------------------------------------------------------------------
(* cNetwork::Disconnect and what it calls.                                 *)

\* LogOut(): `safe' stands for the places and keys that let a player leave
\* at once.
LogOut(n, s, safe) ==
    LET b == n.currchar[s]
        m == SetOffline(n, AcctOf(b))
    IN  IF safe THEN [m EXCEPT !.logout[b] = "none"]
        ELSE IF n.stage[s] = "game" THEN [m EXCEPT !.logout[b] = "armed"]
        ELSE m

\* (Altered on purpose: the account stays in use.  The operators whose names
\* end in "Bug" are the mutants PROJECT.json lists; Next uses none of them.)
DetachBug(n, s, safe) ==
    LET b == n.currchar[s]
    IN  IF b \notin Bodies THEN [n EXCEPT !.acctno[s] = NoAcct]
        ELSE [(IF IsOnline(n, b) THEN LogOut(n, s, safe) ELSE n)
                EXCEPT !.obj[b] = NoSlot, !.currchar[s] = NoBody, !.acctno[s] = NoAcct]

\* The part before the arrays are compacted.
Detach(n, s, safe) ==
    LET b == n.currchar[s]
        m == [SetOffline(n, n.acctno[s]) EXCEPT !.acctno[s] = NoAcct]
    IN  IF b \notin Bodies THEN m
        ELSE [(IF IsOnline(m, b) THEN LogOut(m, s, safe) ELSE m)
                EXCEPT !.obj[b] = NoSlot, !.currchar[s] = NoBody]

\* (Altered on purpose: the last open slot is not copied down.)
MovedBug(array, s, now) ==
    [j \in Slots |-> IF s <= j /\ j < now - 2 THEN array[j + 1] ELSE array[j]]

\* The body of the loop "for ( j = socket; j < now - 1; ++j )" for one array.
Moved(array, s, now) ==
    [j \in Slots |-> IF s <= j /\ j < now - 1 THEN array[j + 1] ELSE array[j]]

\* (Altered on purpose: acctno is left out of the loop.)
ShiftDownBug(n, s) ==
    [n EXCEPT !.client   = Moved(n.client, s, n.now),
              !.currchar = Moved(n.currchar, s, n.now),
              !.stage    = Moved(n.stage, s, n.now)]

ShiftDown(n, s) ==
    [n EXCEPT !.client   = Moved(n.client, s, n.now),
              !.acctno   = Moved(n.acctno, s, n.now),
              !.currchar = Moved(n.currchar, s, n.now),
              !.stage    = Moved(n.stage, s, n.now)]

\* The slots body b has in the smaller table, and the one its last new object
\* names.
LeftFor(n, b) == {i \in 0 .. n.now - 2 : n.currchar[i] = b}
LastFor(n, b) == CHOOSE i \in LeftFor(n, b) : \A j \in LeftFor(n, b) : j <= i

\* (Altered on purpose: the client objects are not made anew.)
RenumberBug(n) ==
    [n EXCEPT !.now = n.now - 1,
              !.currchar = [i \in Slots |-> IF i >= n.now THEN NoBody ELSE n.currchar[i]]]

\* Every character in the table loses its client object, now drops by one,
\* and the characters of the slots left get a new object, in slot order.
Renumber(n) ==
    [n EXCEPT
       !.now = n.now - 1,
       !.currchar = [i \in Slots |-> IF i >= n.now THEN NoBody ELSE n.currchar[i]],
       !.obj = [b \in Bodies |->
                  IF LeftFor(n, b) # {} THEN LastFor(n, b)
                  ELSE IF \E i \in Slots : n.currchar[i] = b THEN NoSlot
                  ELSE n.obj[b]]]

Disconnect(n, s, safe) ==
    IF s \notin Live(n) THEN n ELSE Renumber(ShiftDown(Detach(n, s, safe), s))

\* cChar::getSocket() and cChar::kick()
SocketOf(n, b) == IF IsNpc(b) \/ n.obj[b] \notin Live(n) THEN NoSlot ELSE n.obj[b]

Kick(n, b, safe) ==
    IF SocketOf(n, b) = NoSlot THEN n ELSE Disconnect(n, SocketOf(n, b), safe)

-----------------------------------------------------------------------------
(* The handlers of the login packets.                                      *)

\* LoginMain() after Authenticate() accepted account a.  An account in use
\* has its player kicked; then currchar[s] is cleared, whatever s names now.
LoginMain(n, s, a, safe) ==
    LET m == [n EXCEPT !.acctno[s] = a, !.stage[s] = "login"]
        b == GetInWorld(m, a)
    IN  IF m.state[a] = "out" THEN SetEntering(m, a)
        ELSE IF b \notin alive THEN m
        ELSE [Kick(m, b, safe) EXCEPT !.currchar[s] = NoBody]

\* CharList() and GoodAuth(): there is no test whether the account is in use.
CharList(n, s, a) ==
    SetEntering([n EXCEPT !.acctno[s] = a, !.stage[s] = "list"], a)

\* Authenticate() refused; the packet is 0x80 or 0x91 as `stage' says.
Refuse(n, s, stage) ==
    [n EXCEPT !.acctno[s] = NoAcct, !.currchar[s] = NoBody, !.stage[s] = stage]

\* startchar() and enterchar(): a character that possesses a body enters the
\* game in that body.  (The bodies possessed are those of Npcs, none of which
\* dies here; the code forgets a body that is gone.)
StartChar(n, s) ==
    LET b == n.currchar[s]
        p == possessed[b]
        m == IF p \in alive
             THEN SetOnline(SetOffline(
                    [n EXCEPT !.currchar[s] = p, !.obj = [@ EXCEPT ![p] = s, ![b] = NoSlot]],
                    AcctOf(b)), p)
             ELSE n
    IN  [m EXCEPT !.stage[s] = "game"]

\* The slots charplay() finds the chosen character in, and the first of them.
Holders(n, b) == {i \in Live(n) : n.currchar[i] = b}
FirstHolder(n, b) == CHOOSE i \in Holders(n, b) : \A j \in Holders(n, b) : i <= j

\* (Altered on purpose: the slots are not searched for the character.)
CharPlaySearchBug(n, s, b, safe) ==
    StartChar([SetOnline([SetOffline(n, n.acctno[s]) EXCEPT !.obj[b] = NoSlot], b)
                 EXCEPT !.logout[b] = "none", !.currchar[s] = b, !.obj[b] = s], s)

\* (Altered on purpose: a pending logout is not called off.)
CharPlayLogoutBug(n, s, b, safe) ==
    LET m == [SetOffline([n EXCEPT !.currchar[s] = NoBody], n.acctno[s])
                EXCEPT !.obj[b] = NoSlot]
    IN  IF Holders(m, b) # {}
        THEN Disconnect(Disconnect(m, s, safe), FirstHolder(m, b), safe)
        ELSE StartChar([SetOnline(m, b) EXCEPT !.currchar[s] = b, !.obj[b] = s], s)

\* charplay() with an existing character b of the account.
CharPlay(n, s, b, safe) ==
    LET m == [SetOffline([n EXCEPT !.currchar[s] = NoBody], n.acctno[s])
                EXCEPT !.obj[b] = NoSlot]
    IN  IF Holders(m, b) # {}
        THEN Disconnect(Disconnect(m, s, safe), FirstHolder(m, b), safe)
        ELSE StartChar([SetOnline(m, b) EXCEPT !.logout[b] = "none",
                                               !.currchar[s] = b,
                                               !.obj[b] = s], s)

-----------------------------------------------------------------------------
InitNet ==
    [ now      |-> 0,
      client   |-> [i \in Slots |-> NoFd],
      acctno   |-> [i \in Slots |-> NoAcct],
      currchar |-> [i \in Slots |-> NoBody],
      stage    |-> [i \in Slots |-> "new"],
      state    |-> [a \in Accounts |-> "out"],
      online   |-> [a \in Accounts |-> NoBody],
      obj      |-> [b \in Bodies |-> NoSlot],
      logout   |-> [b \in Bodies |-> "none"] ]

\* AddCharToAccount() for every character of the world file.
LoadedChars(bodies) == [a \in Accounts |-> {b \in bodies \cap Chars : Owner[b] = a}]

Init ==
    /\ net = InitNet
    /\ alive = Born \cup Npcs
    /\ serials = Born
    /\ pgs = LoadedChars(Born)
    /\ possessed = [b \in Bodies |-> NoBody]
    /\ possessor = [b \in Bodies |-> NoBody]

World == <<alive, serials, pgs, possessed, possessor>>

\* (Altered on purpose: the table is never full.)
CheckConnBug(fd) ==
    /\ fd \notin LiveFds(net)
    /\ net' = [net EXCEPT !.client[net.now] = fd, !.acctno[net.now] = NoAcct,
                          !.currchar[net.now] = NoBody, !.stage[net.now] = "new",
                          !.now = @ + 1]
    /\ UNCHANGED World

\* CheckConn(): a free slot and a new socket handle.
CheckConn(fd) ==
    /\ net.now < MaxClients
    /\ fd \notin LiveFds(net)
    /\ net' = [net EXCEPT !.client[net.now] = fd, !.acctno[net.now] = NoAcct,
                          !.currchar[net.now] = NoBody, !.stage[net.now] = "new",
                          !.now = @ + 1]
    /\ UNCHANGED World

\* GetMsg(): the seed that opens a connection.
Seed(s) ==
    /\ net.stage[s] = "new"
    /\ net' = [net EXCEPT !.stage[s] = "first"]
    /\ UNCHANGED World

\* GetMsg(): the peer hung up, a read failed, the first packet was garbage,
\* the client asked to leave, idled too long, runs a refused version or chose
\* an empty place of the character list.
Hangup(s) ==
    /\ \E safe \in BOOLEAN : net' = Disconnect(net, s, safe)
    /\ UNCHANGED World

\* GetMsg(): packet 0x80, the first packet of a connection.
FirstLoginRequest(s) ==
    /\ net.stage[s] = "first"
    /\ \/ \E a \in Accounts, safe \in BOOLEAN : net' = LoginMain(net, s, a, safe)
       \/ net' = Refuse(net, s, "login")
    /\ UNCHANGED World

\* GetMsg(): packet 0x91, the first packet of a connection.
LoginRequest(s) ==
    /\ net.stage[s] = "first"
    /\ \/ \E a \in Accounts : net' = CharList(net, s, a)
       \/ net' = Refuse(net, s, "list")
    /\ UNCHANGED World

\* The character select screen is shown to a connection that has an account.
Selecting(s) == net.stage[s] = "list" /\ net.acctno[s] # NoAcct

\* GetMsg(): packet 0x5D.
CharacterSelect(s) ==
    /\ Selecting(s)
    /\ \E b \in pgs[net.acctno[s]] \cap alive, safe \in BOOLEAN :
          net' = CharPlay(net, s, b, safe)
    /\ UNCHANGED World

\* GetMsg(): packet 0x00, charcreate().  The account stays "entering".
CreateCharacter(s) ==
    /\ Selecting(s)
    /\ LET a == net.acctno[s]
       IN  IF Cardinality(pgs[a]) >= RoleLimit
           THEN /\ net' = Disconnect(net, s, FALSE)
                /\ UNCHANGED World
           ELSE /\ \E b \in Chars :
                     /\ Owner[b] = a
                     /\ b \notin serials
                     /\ serials' = serials \cup {b}
                     /\ net' = StartChar([net EXCEPT !.currchar[s] = b, !.obj[b] = s], s)
                     /\ alive' = alive \cup {b}
                     /\ pgs' = [pgs EXCEPT ![a] = @ \cup {b}]
                /\ UNCHANGED <<possessed, possessor>>

\* GetMsg(): packet 0x83, chardel().  The serial stays in pgs; the object goes
\* with all it holds.
DeleteCharacter(s) ==
    /\ Selecting(s)
    /\ \E b \in pgs[net.acctno[s]] \cap alive :
          /\ ~ IsOnline(net, b)
          /\ alive' = alive \ {b}
          /\ possessed' = [possessed EXCEPT ![b] = NoBody]
          /\ net' = [net EXCEPT !.logout[b] = "none"]
    /\ UNCHANGED <<serials, pgs, possessor>>

\* cChar::possess() on an NPC by the body in slot s.  SetOnline() looks for the
\* account of the NPC, which has none.
Possess(s) ==
    LET b == net.currchar[s]
    IN  /\ b \in alive /\ SocketOf(net, b) # NoSlot /\ possessor[b] = NoBody
        /\ \E p \in Npcs \ {b} :
              /\ possessor[p] = NoBody
              /\ possessor' = [possessor EXCEPT ![p] = b]
              /\ possessed' = [possessed EXCEPT ![b] = p]
              /\ net' = SetOnline(SetOffline(
                          [net EXCEPT !.currchar[SocketOf(net, b)] = p,
                                      !.obj = [@ EXCEPT ![p] = SocketOf(net, b), ![b] = NoSlot],
                                      !.stage[SocketOf(net, b)] = "game"], AcctOf(b)), p)
        /\ UNCHANGED <<alive, serials, pgs>>

\* (Altered on purpose: the possessor's possessedSerial is cleared, the body's
\* possessorSerial is not.)
SwitchBackBug(s) ==
    LET p == net.currchar[s]
    IN  /\ p \in alive /\ SocketOf(net, p) # NoSlot
        /\ possessor[p] \in alive
        /\ LET b == possessor[p]
           IN  /\ possessed' = [possessed EXCEPT ![b] = NoBody]
               /\ net' = SetOnline(SetOffline(
                           [net EXCEPT !.currchar[SocketOf(net, p)] = b,
                                       !.obj = [@ EXCEPT ![b] = SocketOf(net, p), ![p] = NoSlot],
                                       !.stage[SocketOf(net, p)] = "game"], AcctOf(b)), b)
        /\ UNCHANGED <<alive, serials, pgs, possessor>>

\* cChar::possess() by a possessed body: back into the possessor.
SwitchBack(s) ==
    LET p == net.currchar[s]
    IN  /\ p \in alive /\ SocketOf(net, p) # NoSlot
        /\ possessor[p] \in alive
        /\ LET b == possessor[p]
           IN  /\ possessor' = [possessor EXCEPT ![p] = NoBody]
               /\ possessed' = [possessed EXCEPT ![b] = NoBody]
               /\ net' = SetOnline(SetOffline(
                           [net EXCEPT !.currchar[SocketOf(net, p)] = b,
                                       !.obj = [@ EXCEPT ![b] = SocketOf(net, p), ![p] = NoSlot],
                                       !.stage[SocketOf(net, p)] = "game"], AcctOf(b)), b)
        /\ UNCHANGED <<alive, serials, pgs>>

\* cAccounts::LoadAccounts() while the server runs, by the console's A key or
\* by CheckAccountFile().
ReloadAccounts ==
    /\ Reloads
    /\ net' = [net EXCEPT !.state = InitNet.state, !.online = InitNet.online]
    /\ pgs' = [a \in Accounts |-> {}]
    /\ UNCHANGED <<alive, serials, possessed, possessor>>

\* A shutdown, which saves the world, and the next start.  The save holds
\* possessedSerial but not possessorSerial, and an NPC is always saved as one.
Restart ==
    /\ Restarts
    /\ net' = InitNet
    /\ serials' = alive \cap Chars
    /\ pgs' = LoadedChars(alive)
    /\ possessor' = [b \in Bodies |-> NoBody]
    /\ UNCHANGED <<alive, possessed>>

Packet(s) ==
    \/ Seed(s) \/ FirstLoginRequest(s) \/ LoginRequest(s)
    \/ CharacterSelect(s) \/ CreateCharacter(s) \/ DeleteCharacter(s)
    \/ Possess(s) \/ SwitchBack(s) \/ Hangup(s)

Next ==
    \/ \E fd \in Fds : CheckConn(fd)
    \/ \E s \in Live(net) : Packet(s)
    \/ ReloadAccounts
    \/ Restart

Spec == Init /\ [][Next]_vars

-----------------------------------------------------------------------------
(* Type invariant.                                                         *)
TypeOK ==
    /\ net \in NetRecords
    /\ alive \subseteq Bodies
    /\ serials \subseteq Chars
    /\ pgs \in [Accounts -> SUBSET Chars]
    /\ possessed \in [Bodies -> Npcs \cup {NoBody}]
    /\ possessor \in [Bodies -> Bodies \cup {NoBody}]

\* Two open connections never share a socket handle: the compaction of
\* Disconnect() neither loses nor doubles one.
DistinctHandles ==
    \A i, j \in Live(net) : net.client[i] \in Fds /\ (net.client[i] = net.client[j] => i = j)

\* One player character is played through one slot: charplay() looks for the
\* character in every slot before it starts it, cChar::possess() puts it back
\* into one slot only.  (An NPC that is possessed may be in two.)
OneSlotPerCharacter ==
    \A i, j \in Live(net) :
        net.currchar[i] = net.currchar[j] /\ net.currchar[i] \in Chars => i = j

\* The client object of a player character that is played names the slot it is
\* played through, after any number of compactions.
ClientObjectsMatch ==
    \A i \in Live(net) : net.currchar[i] \in Chars => net.obj[net.currchar[i]] = i

\* An account that counts as in use is held by an open connection, whose end
\* will free it: nobody is locked out for good.
NoLockedAccount ==
    \A a \in Accounts : net.state[a] # "out" => \E i \in Live(net) : net.acctno[i] = a

\* pc_heartbeat() ends a pending logout only for the character its account has
\* in the world, and no such character ever has one: LogOut() arms the timer
\* and takes the account offline, charplay() brings it back and disarms.
LogoutNeverPending ==
    \A b \in Chars : net.logout[b] = "armed" => GetInWorld(net, Owner[b]) # b

\* Every possessed NPC can be given back: its possessor, unless it was deleted,
\* still names it, so that startchar() puts the player back into the NPC.
PossessorNamesBody ==
    \A p \in Npcs : possessor[p] \in alive => possessed[possessor[p]] = p

\* A connection that stays open keeps the account it logged in to, and comes by
\* a character only through its own packets: the compaction hands it neither
\* the account nor the character of a neighbour.
SurvivorsKeepSession ==
    [][ \A i \in Live(net), j \in Live(net') :
          net.client[i] = net'.client[j] =>
            /\ net.acctno[i] # NoAcct => net'.acctno[j] = net.acctno[i]
            /\ net'.currchar[j] \in {NoBody, net.currchar[i]} \/ net.currchar[i] = NoBody ]_vars

-----------------------------------------------------------------------------
(* What comments of the code promise and the code does not keep.           *)

\* "character already in world" (charplay): choosing a character that is played
\* closes the connection that asks and the one that plays, and no other.
DuplicateClosesItsOwn ==
    [][ \A s \in Live(net) : CharacterSelect(s) =>
          \A i \in Live(net) :
             net.client[i] \notin LiveFds(net') =>
               i = s \/ net.acctno[i] = net.acctno[s] ]_vars

============================================================================
