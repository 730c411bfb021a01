--------------------------- MODULE SessionProofs ---------------------------
(***************************************************************************)
(* The theorems about Session: type correctness and the safety invariants  *)
(* of the slot table, for any number of slots, sockets, accounts, player   *)
(* characters and NPCs, with and without reloads and restarts.             *)
(*                                                                         *)
(* The first part is what the operators of Session do to the slot table:   *)
(* Disconnect() with its compaction first, then the handlers of the login  *)
(* packets.  The theorems are drawn from it at the end.                    *)
(***************************************************************************)
EXTENDS Session, WellFoundedInduction, TLAPS

USE DEF Bodies, Slots, NoSlot

\* The types after an account has gone offline.
LEMMA SetOfflineType ==
    ASSUME NEW n \in NetRecords, NEW a
    PROVE  SetOffline(n, a) \in NetRecords
BY NullAssumption DEF NetRecords, SetOffline

\* The types after a character has come into the world.
LEMMA SetOnlineType ==
    ASSUME NEW n \in NetRecords, NEW b
    PROVE  SetOnline(n, b) \in NetRecords
BY NullAssumption DEF NetRecords, SetOnline, AcctOf

\* The types after the logout of a character.
LEMMA LogOutType ==
    ASSUME NEW n \in NetRecords, NEW s \in Slots, NEW safe \in BOOLEAN
    PROVE  LogOut(n, s, safe) \in NetRecords
BY SetOfflineType DEF LogOut, NetRecords

\* SetOffline() touches the login states only, and never brings one up.
LEMMA SetOfflineFrame ==
    ASSUME NEW n \in NetRecords, NEW a
    PROVE  LET m == SetOffline(n, a)
           IN  /\ m.now = n.now /\ m.client = n.client /\ m.acctno = n.acctno
               /\ m.currchar = n.currchar /\ m.stage = n.stage
               /\ m.obj = n.obj /\ m.logout = n.logout
               /\ \A c \in Accounts : m.state[c] \in {n.state[c], "out"}
               /\ \A c \in Accounts : GetInWorld(m, c) \in {GetInWorld(n, c), NoBody}
               /\ a \in Accounts => m.state[a] = "out" /\ GetInWorld(m, a) = NoBody
BY DEF SetOffline, NetRecords, GetInWorld

\* SetOnline() of a player character brings up its own account.
LEMMA SetOnlineFrame ==
    ASSUME NEW n \in NetRecords, NEW b \in Chars
    PROVE  LET m == SetOnline(n, b)
           IN  /\ m.now = n.now /\ m.client = n.client /\ m.acctno = n.acctno
               /\ m.currchar = n.currchar /\ m.stage = n.stage
               /\ m.obj = n.obj /\ m.logout = n.logout
               /\ m.state = [n.state EXCEPT ![Owner[b]] = "ingame"]
               /\ m.online = [n.online EXCEPT ![Owner[b]] = b]
<1>1. SetOnline(n, b) = [n EXCEPT !.state[Owner[b]] = "ingame", !.online[Owner[b]] = b]
  BY OwnerAssumption DEF SetOnline, AcctOf
<1> QED  BY <1>1 DEF NetRecords

\* LogOut() may arm the timer of the character that leaves, whose account it
\* takes offline.
LEMMA LogOutFrame ==
    ASSUME NEW n \in NetRecords, NEW s \in Slots, NEW safe \in BOOLEAN
    PROVE  LET m == LogOut(n, s, safe)
               b == n.currchar[s]
           IN  /\ m.now = n.now /\ m.client = n.client /\ m.acctno = n.acctno
               /\ m.currchar = n.currchar /\ m.stage = n.stage /\ m.obj = n.obj
               /\ \A c \in Accounts : m.state[c] \in {n.state[c], "out"}
               /\ \A c \in Accounts : GetInWorld(m, c) \in {GetInWorld(n, c), NoBody}
               /\ \A c \in Bodies : c # b => m.logout[c] = n.logout[c]
               /\ b \in Chars => GetInWorld(m, Owner[b]) = NoBody
<1> DEFINE b == n.currchar[s]
           m == SetOffline(n, AcctOf(b))
<1>1. m \in NetRecords
  BY SetOfflineType
<1>2. /\ m.now = n.now /\ m.client = n.client /\ m.acctno = n.acctno
      /\ m.currchar = n.currchar /\ m.stage = n.stage
      /\ m.obj = n.obj /\ m.logout = n.logout
      /\ \A c \in Accounts : m.state[c] \in {n.state[c], "out"}
      /\ \A c \in Accounts : GetInWorld(m, c) \in {GetInWorld(n, c), NoBody}
  BY SetOfflineFrame
<1>3. b \in Chars => GetInWorld(m, Owner[b]) = NoBody
  BY SetOfflineFrame, OwnerAssumption DEF AcctOf
<1>4. \A v : LET k == [m EXCEPT !.logout[b] = v]
             IN  /\ k.now = m.now /\ k.client = m.client /\ k.acctno = m.acctno
                 /\ k.currchar = m.currchar /\ k.stage = m.stage /\ k.obj = m.obj
                 /\ k.state = m.state /\ k.online = m.online
                 /\ \A c \in Bodies : c # b => k.logout[c] = m.logout[c]
  <2> HIDE DEF b, m
  <2> QED  BY <1>1 DEF NetRecords
<1>5. LogOut(n, s, safe) \in {m, [m EXCEPT !.logout[b] = "none"], [m EXCEPT !.logout[b] = "armed"]}
  BY DEF LogOut
<1> DEFINE k == LogOut(n, s, safe)
<1> HIDE DEF m, k, b
<1>6. /\ k.now = m.now /\ k.client = m.client /\ k.acctno = m.acctno
      /\ k.currchar = m.currchar /\ k.stage = m.stage /\ k.obj = m.obj
      /\ k.state = m.state /\ k.online = m.online
      /\ \A c \in Bodies : c # b => k.logout[c] = m.logout[c]
  <2>1. CASE k = m
    BY <2>1
  <2>2. CASE k = [m EXCEPT !.logout[b] = "none"]
    BY <1>4, <2>2
  <2>3. CASE k = [m EXCEPT !.logout[b] = "armed"]
    BY <1>4, <2>3
  <2> QED  BY <1>5, <2>1, <2>2, <2>3 DEF k
<1>7. \A c \in Accounts : GetInWorld(k, c) = GetInWorld(m, c)
  BY <1>6 DEF GetInWorld
<1> QED  BY <1>2, <1>3, <1>6, <1>7, OwnerAssumption DEF k, b

\* The types after the first part of Disconnect().
LEMMA DetachType ==
    ASSUME NEW n \in NetRecords, NEW s \in Slots, NEW safe \in BOOLEAN
    PROVE  Detach(n, s, safe) \in NetRecords
<1> DEFINE b == n.currchar[s]
           o == SetOffline(n, n.acctno[s])
           m == [o EXCEPT !.acctno[s] = NoAcct]
           k == IF IsOnline(m, b) THEN LogOut(m, s, safe) ELSE m
<1>1. o \in NetRecords
  BY SetOfflineType
<1>2. m \in NetRecords
  BY <1>1 DEF NetRecords
<1>3. k \in NetRecords
  BY <1>2, LogOutType
<1>4. [k EXCEPT !.obj[b] = NoSlot, !.currchar[s] = NoBody] \in NetRecords
  <2> HIDE DEF k, b
  <2> QED  BY <1>3 DEF NetRecords
<1> QED  BY <1>2, <1>4 DEF Detach

\* What the first part of Disconnect() leaves and what it clears.
LEMMA DetachFrame ==
    ASSUME NEW n \in NetRecords, NEW s \in Slots, NEW safe \in BOOLEAN
    PROVE  LET m == Detach(n, s, safe)
               b == n.currchar[s]
           IN  /\ m.now = n.now /\ m.client = n.client /\ m.stage = n.stage
               /\ m.acctno = [n.acctno EXCEPT ![s] = NoAcct]
               /\ m.currchar = [n.currchar EXCEPT ![s] = NoBody]
               /\ \A c \in Accounts : m.state[c] \in {n.state[c], "out"}
               /\ \A c \in Accounts : GetInWorld(m, c) \in {GetInWorld(n, c), NoBody}
               /\ n.acctno[s] \in Accounts => m.state[n.acctno[s]] = "out"
               /\ \A c \in Bodies : c # b => m.logout[c] = n.logout[c]
               /\ b \in Chars => \/ m.logout = n.logout
                                 \/ GetInWorld(m, Owner[b]) = NoBody
<1> DEFINE b == n.currchar[s]
           o == SetOffline(n, n.acctno[s])
           m == [o EXCEPT !.acctno[s] = NoAcct]
           k == IF IsOnline(m, b) THEN LogOut(m, s, safe) ELSE m
           r == [k EXCEPT !.obj[b] = NoSlot, !.currchar[s] = NoBody]
<1>1. o \in NetRecords
  BY SetOfflineType
<1>2. /\ m \in NetRecords
      /\ m.now = n.now /\ m.client = n.client /\ m.stage = n.stage
      /\ m.acctno = [n.acctno EXCEPT ![s] = NoAcct]
      /\ m.currchar = n.currchar /\ m.logout = n.logout
      /\ m.state = o.state /\ m.online = o.online
  <2>1. /\ m \in NetRecords
        /\ m.now = o.now /\ m.client = o.client /\ m.stage = o.stage
        /\ m.acctno = [o.acctno EXCEPT ![s] = NoAcct]
        /\ m.currchar = o.currchar /\ m.logout = o.logout
        /\ m.state = o.state /\ m.online = o.online
    <3> HIDE DEF o
    <3> QED  BY <1>1 DEF NetRecords
  <2> QED  BY <2>1, SetOfflineFrame
<1>3. /\ \A c \in Accounts : m.state[c] \in {n.state[c], "out"}
      /\ \A c \in Accounts : GetInWorld(m, c) \in {GetInWorld(n, c), NoBody}
      /\ n.acctno[s] \in Accounts => m.state[n.acctno[s]] = "out"
  BY <1>2, SetOfflineFrame DEF GetInWorld
<1> HIDE DEF m
<1>4. /\ k \in NetRecords
      /\ k.now = n.now /\ k.client = n.client /\ k.stage = n.stage
      /\ k.acctno = [n.acctno EXCEPT ![s] = NoAcct] /\ k.currchar = n.currchar
      /\ \A c \in Accounts : k.state[c] \in {m.state[c], "out"}
      /\ \A c \in Accounts : GetInWorld(k, c) \in {GetInWorld(m, c), NoBody}
      /\ \A c \in Bodies : c # b => k.logout[c] = n.logout[c]
      /\ b \in Chars => k.logout = n.logout \/ GetInWorld(k, Owner[b]) = NoBody
  BY <1>2, LogOutType, LogOutFrame
<1>5. /\ r.now = k.now /\ r.client = k.client /\ r.stage = k.stage
      /\ r.acctno = k.acctno /\ r.currchar = [k.currchar EXCEPT ![s] = NoBody]
      /\ r.state = k.state /\ r.online = k.online /\ r.logout = k.logout
  <2> HIDE DEF k, b
  <2> QED  BY <1>4 DEF NetRecords
<1>6. CASE b \notin Bodies
  <2>1. b = NoBody /\ n.currchar = [n.currchar EXCEPT ![s] = NoBody]
    BY <1>6 DEF NetRecords
  <2> QED  BY <1>2, <1>3, <1>6, <2>1 DEF Detach, m
<1>7. CASE b \in Bodies
  <2>1. Detach(n, s, safe) = r
    BY <1>7 DEF Detach, m
  <2> HIDE DEF r, k
  <2> QED  BY <1>3, <1>4, <1>5, <2>1 DEF GetInWorld
<1> QED  BY <1>6, <1>7

\* The types of an array after the compaction.
LEMMA MovedType ==
    ASSUME NEW S, NEW array \in [Slots -> S], NEW s \in Slots, NEW now \in Slots
    PROVE  Moved(array, s, now) \in [Slots -> S]
BY MaxClientsAssumption DEF Moved

\* The types of all arrays after the compaction.
LEMMA ShiftDownType ==
    ASSUME NEW n \in NetRecords, NEW s \in Slots
    PROVE  ShiftDown(n, s) \in NetRecords
<1> DEFINE mc == Moved(n.client, s, n.now)
           ma == Moved(n.acctno, s, n.now)
           mb == Moved(n.currchar, s, n.now)
           ms == Moved(n.stage, s, n.now)
<1>1. /\ mc \in [Slots -> Fds \cup {NoFd}]
      /\ ma \in [Slots -> Accounts \cup {NoAcct}]
      /\ mb \in [Slots -> Bodies \cup {NoBody}]
      /\ ms \in [Slots -> Stages]
  BY MovedType DEF NetRecords
<1> HIDE DEF mc, ma, mb, ms
<1>2. [n EXCEPT !.client = mc, !.acctno = ma, !.currchar = mb, !.stage = ms] \in NetRecords
  BY <1>1 DEF NetRecords
<1> QED  BY <1>2 DEF ShiftDown, mc, ma, mb, ms

\* A set of natural numbers that is not empty has a least element.
LEMMA Smallest ==
    ASSUME NEW T \in SUBSET Nat, T # {}
    PROVE  \E t \in T : \A u \in T : t <= u
<1> DEFINE R == {ss \in Nat \X Nat : ss[1] < ss[2]}
<1>1. IsWellFoundedOn(R, Nat)
  BY NatLessThanWellFounded DEF OpToRel
<1>2. PICK t \in T : \A u \in T : <<u, t>> \notin R
  <2> HIDE DEF R
  <2> QED  BY <1>1, WFMin
<1>3. ASSUME NEW u \in T PROVE t <= u
  <2>1. <<u, t>> \notin {ss \in Nat \X Nat : ss[1] < ss[2]}
    BY <1>2
  <2> QED  BY <2>1
<1> QED  BY <1>3

\* A set of slots has a last one.
LEMMA Largest ==
    ASSUME NEW S \in SUBSET Slots, S # {}
    PROVE  \E i \in S : \A j \in S : j <= i
<1> DEFINE T == {MaxClients - i : i \in S}
<1>1. T \in SUBSET Nat /\ T # {}
  <2>1. \A i \in S : MaxClients - i \in Nat
    BY MaxClientsAssumption
  <2> QED  BY <2>1
<1>2. PICK t \in T : \A u \in T : t <= u
  BY <1>1, Smallest
<1>3. PICK i \in S : t = MaxClients - i
  BY <1>2
<1>4. ASSUME NEW j \in S PROVE j <= i
  <2>1. MaxClients - i <= MaxClients - j
    BY <1>2, <1>3
  <2> QED  BY <2>1, MaxClientsAssumption
<1> QED  BY <1>4

\* The last slot with a character is one of those that have it.
LEMMA LastForType ==
    ASSUME NEW n \in NetRecords, NEW b, LeftFor(n, b) # {}
    PROVE  /\ LastFor(n, b) \in LeftFor(n, b)
           /\ LeftFor(n, b) \subseteq Slots
<1>1. LeftFor(n, b) \in SUBSET Slots
  BY MaxClientsAssumption DEF LeftFor, NetRecords
<1> QED  BY <1>1, Largest DEF LastFor

\* The types after the client objects were renumbered.
LEMMA RenumberType ==
    ASSUME NEW n \in NetRecords, n.now > 0
    PROVE  Renumber(n) \in NetRecords
<1> DEFINE cs == [i \in Slots |-> IF i >= n.now THEN NoBody ELSE n.currchar[i]]
           os == [b \in Bodies |->
                    IF LeftFor(n, b) # {} THEN LastFor(n, b)
                    ELSE IF \E i \in Slots : n.currchar[i] = b THEN NoSlot
                    ELSE n.obj[b]]
<1>1. os \in [Bodies -> Slots \cup {NoSlot}]
  BY LastForType DEF NetRecords
<1>2. cs \in [Slots -> Bodies \cup {NoBody}]
  BY DEF NetRecords
<1>3. n.now - 1 \in 0 .. MaxClients
  BY MaxClientsAssumption DEF NetRecords
<1> HIDE DEF cs, os
<1>4. [n EXCEPT !.now = n.now - 1, !.currchar = cs, !.obj = os] \in NetRecords
  BY <1>1, <1>2, <1>3 DEF NetRecords
<1> QED  BY <1>4 DEF Renumber, cs, os

\* What the renumbering leaves, and the slot each client object gets.
LEMMA RenumberFrame ==
    ASSUME NEW n \in NetRecords, n.now > 0
    PROVE  LET r == Renumber(n)
           IN  /\ r.now = n.now - 1
               /\ r.client = n.client /\ r.acctno = n.acctno /\ r.stage = n.stage
               /\ r.state = n.state /\ r.online = n.online /\ r.logout = n.logout
               /\ \A j \in Slots : j < n.now => r.currchar[j] = n.currchar[j]
               /\ \A c \in Bodies : LeftFor(n, c) # {} => r.obj[c] = LastFor(n, c)
<1> DEFINE cs == [i \in Slots |-> IF i >= n.now THEN NoBody ELSE n.currchar[i]]
           os == [b \in Bodies |->
                    IF LeftFor(n, b) # {} THEN LastFor(n, b)
                    ELSE IF \E i \in Slots : n.currchar[i] = b THEN NoSlot
                    ELSE n.obj[b]]
           r == [n EXCEPT !.now = n.now - 1, !.currchar = cs, !.obj = os]
<1>1. Renumber(n) = r
  BY DEF Renumber
<1>2. \A j \in Slots : j < n.now => cs[j] = n.currchar[j]
  BY MaxClientsAssumption DEF NetRecords
<1>3. \A c \in Bodies : LeftFor(n, c) # {} => os[c] = LastFor(n, c)
  OBVIOUS
<1> HIDE DEF cs, os
<1>4. /\ r.now = n.now - 1
      /\ r.client = n.client /\ r.acctno = n.acctno /\ r.stage = n.stage
      /\ r.state = n.state /\ r.online = n.online /\ r.logout = n.logout
      /\ r.currchar = cs /\ r.obj = os
  BY DEF NetRecords
<1> QED  BY <1>1, <1>2, <1>3, <1>4

\* The types after a disconnection.
LEMMA DisconnectType ==
    ASSUME NEW n \in NetRecords, NEW s, NEW safe \in BOOLEAN
    PROVE  Disconnect(n, s, safe) \in NetRecords
<1>1. CASE s \notin Live(n)
  BY <1>1 DEF Disconnect
<1>2. CASE s \in Live(n)
  <2>1. s \in Slots /\ n.now > 0
    BY <1>2, MaxClientsAssumption DEF Live, NetRecords
  <2> DEFINE m == Detach(n, s, safe)
             d == ShiftDown(m, s)
  <2>2. m \in NetRecords /\ m.now = n.now
    BY <2>1, DetachType, DetachFrame
  <2> HIDE DEF m
  <2>3. d \in NetRecords
    BY <2>1, <2>2, ShiftDownType
  <2>4. d.now = m.now
    BY <2>2 DEF ShiftDown, NetRecords
  <2> HIDE DEF d
  <2>5. Renumber(d) \in NetRecords
    BY <2>1, <2>2, <2>3, <2>4, RenumberType
  <2> QED  BY <1>2, <2>5 DEF Disconnect, d, m
<1> QED  BY <1>1, <1>2

\* The slot that slot j of the smaller table was, when slot s is closed.
From(s, j) == IF j < s THEN j ELSE j + 1

\* A disconnection as a whole: every slot left has what one slot had before.
LEMMA DisconnectFrame ==
    ASSUME NEW n \in NetRecords, NEW s \in Live(n), NEW safe \in BOOLEAN
    PROVE  LET d == Disconnect(n, s, safe)
               b == n.currchar[s]
           IN  /\ d.now = n.now - 1
               /\ \A j \in Live(d) :
                     /\ From(s, j) \in Live(n) \ {s}
                     /\ d.client[j] = n.client[From(s, j)]
                     /\ d.acctno[j] = n.acctno[From(s, j)]
                     /\ d.currchar[j] = n.currchar[From(s, j)]
                     /\ d.stage[j] = n.stage[From(s, j)]
               /\ \A c \in Accounts : d.state[c] \in {n.state[c], "out"}
               /\ \A c \in Accounts : GetInWorld(d, c) \in {GetInWorld(n, c), NoBody}
               /\ n.acctno[s] \in Accounts => d.state[n.acctno[s]] = "out"
               /\ \A c \in Bodies : c # b => d.logout[c] = n.logout[c]
               /\ b \in Chars => d.logout = n.logout \/ GetInWorld(d, Owner[b]) = NoBody
               /\ \A j \in Live(d) :
                     /\ d.currchar[j] \in Bodies
                     /\ \A i \in Live(d) : d.currchar[i] = d.currchar[j] => i = j
                     => d.obj[d.currchar[j]] = j
<1> DEFINE m == Detach(n, s, safe)
           e == ShiftDown(m, s)
           d == Renumber(e)
           b == n.currchar[s]
<1>1. /\ s \in Slots /\ s \in Nat /\ n.now \in Nat /\ s < n.now /\ n.now <= MaxClients
      /\ Disconnect(n, s, safe) = d
  BY MaxClientsAssumption DEF Live, NetRecords, Disconnect
<1>2. /\ m \in NetRecords
      /\ m.now = n.now /\ m.client = n.client /\ m.stage = n.stage
      /\ m.acctno = [n.acctno EXCEPT ![s] = NoAcct]
      /\ m.currchar = [n.currchar EXCEPT ![s] = NoBody]
      /\ \A c \in Accounts : m.state[c] \in {n.state[c], "out"}
      /\ \A c \in Accounts : GetInWorld(m, c) \in {GetInWorld(n, c), NoBody}
      /\ n.acctno[s] \in Accounts => m.state[n.acctno[s]] = "out"
      /\ \A c \in Bodies : c # b => m.logout[c] = n.logout[c]
      /\ b \in Chars => m.logout = n.logout \/ GetInWorld(m, Owner[b]) = NoBody
  <2>1. s \in Slots
    BY <1>1
  <2>2. m \in NetRecords
    BY <2>1, DetachType
  <2> QED  BY <2>1, <2>2, DetachFrame
<1> HIDE DEF m
<1>3. /\ e \in NetRecords
      /\ e.now = n.now /\ e.state = m.state /\ e.online = m.online /\ e.logout = m.logout
      /\ e.client = Moved(n.client, s, n.now) /\ e.stage = Moved(n.stage, s, n.now)
      /\ e.acctno = Moved(m.acctno, s, n.now) /\ e.currchar = Moved(m.currchar, s, n.now)
  BY <1>1, <1>2, ShiftDownType DEF ShiftDown, NetRecords
<1> HIDE DEF e
<1>4. /\ d.now = n.now - 1
      /\ d.client = e.client /\ d.acctno = e.acctno /\ d.stage = e.stage
      /\ d.state = m.state /\ d.online = m.online /\ d.logout = m.logout
      /\ \A j \in Slots : j < n.now => d.currchar[j] = e.currchar[j]
      /\ \A c \in Bodies : LeftFor(e, c) # {} => d.obj[c] = LastFor(e, c)
  <2>1. e.now > 0
    BY <1>1, <1>3
  <2> QED  BY <1>3, <2>1, RenumberFrame
<1> HIDE DEF d
<1>5. ASSUME NEW j \in Live(d)
      PROVE  /\ From(s, j) \in Live(n) \ {s}
             /\ d.client[j] = n.client[From(s, j)]
             /\ d.acctno[j] = n.acctno[From(s, j)]
             /\ d.currchar[j] = n.currchar[From(s, j)]
             /\ d.stage[j] = n.stage[From(s, j)]
  <2>1. j \in Nat /\ j < n.now - 1
    BY <1>1, <1>4 DEF Live
  <2>2. j \in Slots /\ From(s, j) \in Live(n) \ {s} /\ From(s, j) \in Slots
    BY <1>1, <2>1, MaxClientsAssumption DEF Live, From
  <2>4. ASSUME NEW array PROVE Moved(array, s, n.now)[j] = array[From(s, j)]
    <3>1. Moved(array, s, n.now)[j] = IF s <= j /\ j < n.now - 1 THEN array[j + 1] ELSE array[j]
      BY <2>2 DEF Moved
    <3> QED  BY <1>1, <2>1, <3>1 DEF From
  <2>3. /\ m.acctno[From(s, j)] = n.acctno[From(s, j)]
        /\ m.currchar[From(s, j)] = n.currchar[From(s, j)]
    BY <1>2, <2>2 DEF NetRecords
  <2>5. e.currchar[j] = m.currchar[From(s, j)] /\ e.acctno[j] = m.acctno[From(s, j)]
    BY <1>3, <2>4
  <2>6. e.client[j] = n.client[From(s, j)] /\ e.stage[j] = n.stage[From(s, j)]
    BY <1>3, <2>4
  <2>7. d.currchar[j] = e.currchar[j]
    BY <1>1, <1>4, <2>1, <2>2
  <2> QED  BY <1>4, <2>2, <2>3, <2>5, <2>6, <2>7
<1>6. ASSUME NEW j \in Live(d), d.currchar[j] \in Bodies,
             \A i \in Live(d) : d.currchar[i] = d.currchar[j] => i = j
      PROVE  d.obj[d.currchar[j]] = j
  <2> DEFINE c == d.currchar[j]
  <2>0. /\ 0 .. e.now - 2 = Live(d)
        /\ \A i \in Live(d) : d.currchar[i] = e.currchar[i]
    BY <1>1, <1>3, <1>4, MaxClientsAssumption DEF Live
  <2>1. LeftFor(e, c) = {i \in Live(d) : d.currchar[i] = c}
    BY <2>0 DEF LeftFor
  <2>2. LeftFor(e, c) = {j}
    BY <1>6, <2>1
  <2>3. LastFor(e, c) = j
    BY <1>3, <2>2, LastForType
  <2> QED  BY <1>4, <1>6, <2>2, <2>3
<1>7. \A c \in Accounts : GetInWorld(d, c) = GetInWorld(m, c)
  BY <1>4 DEF GetInWorld
<1> QED  BY <1>1, <1>2, <1>4, <1>5, <1>6, <1>7, OwnerAssumption

-----------------------------------------------------------------------------
\* The invariant of the slot table, for the serials S given out so far and the
\* possessors P.

Distinct(n) ==
    \A i, j \in Live(n) : n.client[i] \in Fds /\ (n.client[i] = n.client[j] => i = j)

Single(n) ==
    \A i, j \in Live(n) :
        n.currchar[i] = n.currchar[j] /\ n.currchar[i] \in Chars => i = j

Match(n) == \A i \in Live(n) : n.currchar[i] \in Chars => n.obj[n.currchar[i]] = i

Known(n, S) == \A i \in Live(n) : n.currchar[i] \in S \cup Npcs \cup {NoBody}

\* A player character in the table does not possess an NPC.
AtHome(n, P) ==
    \A i \in Live(n), p \in Bodies : n.currchar[i] \in Chars => P[p] # n.currchar[i]

\* A pending logout belongs to a character that is out of everybody's reach.
Pending(n, S, P) ==
    \A b \in Chars : n.logout[b] = "armed" =>
        /\ b \in S
        /\ \A i \in Live(n) : n.currchar[i] # b
        /\ \A p \in Bodies : P[p] # b
        /\ GetInWorld(n, Owner[b]) # b

\* What the compaction needs; it makes the client objects match by itself.
TableOK(n, S, P) ==
    /\ n \in NetRecords
    /\ Distinct(n) /\ Single(n) /\ Known(n, S) /\ AtHome(n, P) /\ Pending(n, S, P)

NetInv(n, S, P) == TableOK(n, S, P) /\ Match(n)

\* Where client objects name their slots no character is in two.
LEMMA MatchIsSingle == ASSUME NEW n, Match(n) PROVE Single(n)
BY DEF Match, Single

\* Disconnect() makes the client objects match from a table where they need not,
\* which charplay() relies on when it calls it twice.
LEMMA DisconnectInv ==
    ASSUME NEW n, NEW S, NEW P, NEW s, NEW safe \in BOOLEAN,
           TableOK(n, S, P), s \in Live(n)
    PROVE  NetInv(Disconnect(n, s, safe), S, P)
<1> DEFINE d == Disconnect(n, s, safe)
           b == n.currchar[s]
<1>0. n \in NetRecords
  BY DEF TableOK
<1>1. d \in NetRecords
  BY <1>0, DisconnectType
<1>2. /\ d.now = n.now - 1
      /\ \A j \in Live(d) :
            /\ From(s, j) \in Live(n) \ {s}
            /\ d.client[j] = n.client[From(s, j)]
            /\ d.acctno[j] = n.acctno[From(s, j)]
            /\ d.currchar[j] = n.currchar[From(s, j)]
            /\ d.stage[j] = n.stage[From(s, j)]
      /\ \A c \in Accounts : GetInWorld(d, c) \in {GetInWorld(n, c), NoBody}
      /\ \A c \in Bodies : c # b => d.logout[c] = n.logout[c]
      /\ b \in Chars => d.logout = n.logout \/ GetInWorld(d, Owner[b]) = NoBody
      /\ \A j \in Live(d) :
            /\ d.currchar[j] \in Bodies
            /\ \A i \in Live(d) : d.currchar[i] = d.currchar[j] => i = j
            => d.obj[d.currchar[j]] = j
  BY <1>0, DisconnectFrame
<1>3. \A i, j \in Live(d) : From(s, i) = From(s, j) => i = j
  BY <1>0, <1>1 DEF From, Live, NetRecords
<1> HIDE DEF d
<1>4. Distinct(d)
  BY <1>2, <1>3 DEF TableOK, Distinct
<1>5. Single(d)
  BY <1>2, <1>3 DEF TableOK, Single
<1>6. Match(d)
  BY <1>2, <1>5 DEF Match, Single
<1>7. Known(d, S)
  BY <1>2 DEF TableOK, Known
<1>8. AtHome(d, P)
  BY <1>2 DEF TableOK, AtHome
<1>9. ASSUME NEW c \in Chars, d.logout[c] = "armed"
      PROVE  /\ c \in S
             /\ \A i \in Live(d) : d.currchar[i] # c
             /\ \A p \in Bodies : P[p] # c
             /\ GetInWorld(d, Owner[c]) # c
  <2>1. Owner[c] \in Accounts /\ c # NoBody /\ c \in Bodies
    BY OwnerAssumption, NullAssumption
  <2>2. CASE n.logout[c] = "armed"
    <3>1. /\ c \in S
          /\ \A i \in Live(n) : n.currchar[i] # c
          /\ \A p \in Bodies : P[p] # c
          /\ GetInWorld(n, Owner[c]) # c
      BY <2>2 DEF TableOK, Pending
    <3> QED  BY <1>2, <2>1, <3>1
  <2>3. CASE n.logout[c] # "armed"
    <3>1. c = b /\ d.logout # n.logout
      BY <1>2, <1>9, <2>1, <2>3
    <3>2. GetInWorld(d, Owner[c]) = NoBody
      BY <1>2, <3>1
    <3>3. c \in S /\ \A p \in Bodies : P[p] # c
      BY <3>1, <2>1, BodiesAssumption DEF TableOK, Known, AtHome
    <3>4. \A i \in Live(d) : d.currchar[i] # c
      BY <1>2, <3>1 DEF TableOK, Single
    <3> QED  BY <2>1, <3>2, <3>3, <3>4
  <2> QED  BY <2>2, <2>3
<1> QED  BY <1>1, <1>4, <1>5, <1>6, <1>7, <1>8, <1>9 DEF NetInv, TableOK, Pending, d

\* An open slot is a slot.
LEMMA LiveIsSlot ==
    ASSUME NEW n \in NetRecords, NEW s \in Live(n)
    PROVE  s \in Slots
BY MaxClientsAssumption DEF Live, NetRecords

\* A step that moves no player character and starts no logout.
LEMMA QuietTable ==
    ASSUME NEW n, NEW m \in NetRecords, NEW S, NEW P, TableOK(n, S, P),
           m.now = n.now, m.client = n.client,
           \A i \in Live(n) : m.currchar[i] \in {n.currchar[i], NoBody},
           \A b \in Chars : m.logout[b] = "armed" =>
               n.logout[b] = "armed" /\ GetInWorld(m, Owner[b]) \in {GetInWorld(n, Owner[b]), NoBody}
    PROVE  TableOK(m, S, P)
<1>1. Live(m) = Live(n)
  BY DEF Live
<1>2. Distinct(m)
  BY <1>1 DEF TableOK, Distinct
<1>3. \A i \in Live(n) : m.currchar[i] \in Chars => m.currchar[i] = n.currchar[i]
  BY NullAssumption
<1>4. Single(m)
  BY <1>1, <1>3 DEF TableOK, Single
<1>5. Known(m, S)
  BY <1>1 DEF TableOK, Known
<1>6. AtHome(m, P)
  BY <1>1, <1>3 DEF TableOK, AtHome
<1>7. Pending(m, S, P)
  BY <1>1, NullAssumption DEF TableOK, Pending
<1> QED  BY <1>2, <1>4, <1>5, <1>6, <1>7 DEF TableOK

\* A change that puts no character into a slot.
LEMMA QuietStep ==
    ASSUME NEW n, NEW m \in NetRecords, NEW S, NEW P, NetInv(n, S, P),
           m.now = n.now, m.client = n.client,
           \A i \in Live(n) : m.currchar[i] \in {n.currchar[i], NoBody},
           \A i \in Live(n) : m.currchar[i] \in Chars =>
                               m.obj[m.currchar[i]] = n.obj[m.currchar[i]],
           \A b \in Chars : m.logout[b] = "armed" =>
               n.logout[b] = "armed" /\ GetInWorld(m, Owner[b]) \in {GetInWorld(n, Owner[b]), NoBody}
    PROVE  NetInv(m, S, P)
<1>1. Live(m) = Live(n)
  BY DEF Live
<1>2. \A i \in Live(n) : m.currchar[i] \in Chars => m.currchar[i] = n.currchar[i]
  BY NullAssumption
<1>3. Match(m)
  BY <1>1, <1>2 DEF NetInv, Match
<1>4. TableOK(m, S, P)
  BY QuietTable DEF NetInv
<1> QED  BY <1>3, <1>4 DEF NetInv

\* A step that gives body x to slot s, and to no other.
LEMMA EnterStep ==
    ASSUME NEW n, NEW q \in NetRecords, NEW S, NEW P, NEW T, NEW Q,
           NetInv(n, S, P), S \subseteq T, NEW s \in Live(n), NEW x \in Bodies,
           q.now = n.now, q.client = n.client,
           q.currchar = [n.currchar EXCEPT ![s] = x],
           q.obj[x] = s,
           x \in Chars => x \in T,
           \A p \in Bodies : x \in Chars => Q[p] # x,
           \A i \in Live(n) \ {s} : n.currchar[i] \in Chars =>
               /\ n.currchar[i] # x
               /\ q.obj[n.currchar[i]] = n.obj[n.currchar[i]]
               /\ \A p \in Bodies : Q[p] # n.currchar[i],
           Pending(q, T, Q)
    PROVE  NetInv(q, T, Q)
<1>1. /\ n.currchar \in [Slots -> Bodies \cup {NoBody}]
      /\ Live(n) \subseteq Slots
  BY LiveIsSlot DEF NetInv, TableOK, NetRecords
<1>2. /\ Live(q) = Live(n)
      /\ q.currchar[s] = x
      /\ \A i \in Live(n) \ {s} : q.currchar[i] = n.currchar[i]
  BY <1>1 DEF Live
<1>3. Distinct(q)
  BY <1>2 DEF NetInv, TableOK, Distinct
<1>4. Match(q)
  BY <1>2 DEF NetInv, Match
<1>5. Known(q, T)
  BY <1>2 DEF NetInv, TableOK, Known
<1>6. AtHome(q, Q)
  BY <1>2 DEF AtHome
<1> QED  BY <1>3, <1>4, <1>5, <1>6, MatchIsSingle DEF NetInv, TableOK

-----------------------------------------------------------------------------
\* The handlers.

\* A handler that clears currchar of one slot and nothing else of the world.
LEMMA BlankStep ==
    ASSUME NEW n, NEW m \in NetRecords, NEW S, NEW P, NetInv(n, S, P), NEW s \in Slots,
           m.now = n.now, m.client = n.client, m.obj = n.obj, m.logout = n.logout,
           m.currchar = [n.currchar EXCEPT ![s] = NoBody],
           m.state = n.state, m.online = n.online
    PROVE  NetInv(m, S, P)
<1>1. n \in NetRecords
  BY DEF NetInv, TableOK
<1>2. \A i \in Live(n) : m.currchar[i] \in {n.currchar[i], NoBody}
  <2> TAKE i \in Live(n)
  <2>1. i \in Slots
    BY <1>1, LiveIsSlot
  <2>2. n.currchar \in [Slots -> Bodies \cup {NoBody}]
    BY <1>1 DEF NetRecords
  <2> QED  BY <2>1, <2>2
<1>3. \A i \in Live(n) : m.currchar[i] \in Chars => m.obj[m.currchar[i]] = n.obj[m.currchar[i]]
  OBVIOUS
<1>4. \A b \in Chars : m.logout[b] = "armed" =>
          n.logout[b] = "armed" /\ GetInWorld(m, Owner[b]) \in {GetInWorld(n, Owner[b]), NoBody}
  BY DEF GetInWorld
<1> QED  BY <1>2, <1>3, <1>4, QuietStep

\* The character list is sent.
LEMMA ListInv ==
    ASSUME NEW n, NEW S, NEW P, NetInv(n, S, P), NEW s \in Live(n), NEW a \in Accounts
    PROVE  NetInv(CharList(n, s, a), S, P)
<1>1. n \in NetRecords /\ s \in Slots
  BY LiveIsSlot DEF NetInv, TableOK
<1> DEFINE m == CharList(n, s, a)
<1>2. /\ m \in NetRecords /\ m.now = n.now /\ m.client = n.client
      /\ m.currchar = n.currchar /\ m.obj = n.obj /\ m.logout = n.logout
      /\ m.online = n.online /\ m.state = [n.state EXCEPT ![a] = "entering"]
  BY <1>1 DEF CharList, SetEntering, NetRecords, Stages
<1> HIDE DEF m
<1>3. \A c \in Accounts : GetInWorld(m, c) \in {GetInWorld(n, c), NoBody}
  BY <1>1, <1>2 DEF GetInWorld, NetRecords
<1>4. NetInv(m, S, P)
  BY <1>2, <1>3, QuietStep, OwnerAssumption
<1> QED  BY <1>4 DEF m

\* A login is refused.
LEMMA RefuseInv ==
    ASSUME NEW n, NEW S, NEW P, NetInv(n, S, P), NEW s \in Live(n), NEW stage \in Stages
    PROVE  NetInv(Refuse(n, s, stage), S, P)
<1>1. n \in NetRecords /\ s \in Slots
  BY LiveIsSlot DEF NetInv, TableOK
<1> DEFINE m == Refuse(n, s, stage)
<1>2. /\ m \in NetRecords /\ m.now = n.now /\ m.client = n.client
      /\ m.currchar = [n.currchar EXCEPT ![s] = NoBody]
      /\ m.obj = n.obj /\ m.logout = n.logout
      /\ m.online = n.online /\ m.state = n.state
  BY <1>1 DEF Refuse, NetRecords
<1> HIDE DEF m
<1>3. NetInv(m, S, P)
  BY <1>1, <1>2, BlankStep
<1> QED  BY <1>3 DEF m

\* A login, with the kick of who holds the account.
LEMMA LoginInv ==
    ASSUME NEW n, NEW S, NEW P, NetInv(n, S, P), NEW s \in Live(n), NEW a \in Accounts,
           NEW safe \in BOOLEAN
    PROVE  NetInv(LoginMain(n, s, a, safe), S, P)
<1>1. n \in NetRecords /\ s \in Slots
  BY LiveIsSlot DEF NetInv, TableOK
<1> DEFINE m == [n EXCEPT !.acctno[s] = a, !.stage[s] = "login"]
           e == SetEntering(m, a)
           b == GetInWorld(m, a)
           k == Kick(m, b, safe)
           c == [k EXCEPT !.currchar[s] = NoBody]
<1>2. /\ m \in NetRecords /\ m.now = n.now /\ m.client = n.client
      /\ m.currchar = n.currchar /\ m.obj = n.obj /\ m.logout = n.logout
      /\ m.online = n.online /\ m.state = n.state
  BY <1>1 DEF NetRecords, Stages
<1> HIDE DEF m
<1>3. NetInv(m, S, P)
  <2>1. \A x \in Accounts : GetInWorld(m, x) = GetInWorld(n, x)
    BY <1>2 DEF GetInWorld
  <2> QED  BY <1>2, <2>1, QuietStep, OwnerAssumption
<1>4. NetInv(e, S, P)
  <2>1. /\ e \in NetRecords /\ e.now = m.now /\ e.client = m.client
        /\ e.currchar = m.currchar /\ e.obj = m.obj /\ e.logout = m.logout
        /\ e.online = m.online /\ e.state = [m.state EXCEPT ![a] = "entering"]
    BY <1>2 DEF SetEntering, NetRecords
  <2>2. \A x \in Accounts : GetInWorld(e, x) \in {GetInWorld(m, x), NoBody}
    BY <1>2, <2>1 DEF GetInWorld, NetRecords
  <2> HIDE DEF e
  <2> QED  BY <1>3, <2>1, <2>2, QuietStep, OwnerAssumption
<1>5. NetInv(k, S, P)
  <2>1. CASE SocketOf(m, b) = NoSlot
    BY <1>3, <2>1 DEF Kick
  <2>2. CASE SocketOf(m, b) # NoSlot
    <3>1. SocketOf(m, b) \in Live(m) /\ k = Disconnect(m, SocketOf(m, b), safe)
      BY <2>2 DEF SocketOf, Kick
    <3> QED  BY <1>3, <3>1, DisconnectInv DEF NetInv
  <2> QED  BY <2>1, <2>2
<1> HIDE DEF k
<1>6. NetInv(c, S, P)
  <2>1. k \in NetRecords
    BY <1>5 DEF NetInv, TableOK
  <2>2. /\ c \in NetRecords /\ c.now = k.now /\ c.client = k.client
        /\ c.currchar = [k.currchar EXCEPT ![s] = NoBody]
        /\ c.obj = k.obj /\ c.logout = k.logout
        /\ c.online = k.online /\ c.state = k.state
    BY <2>1, <1>1 DEF NetRecords
  <2> HIDE DEF c
  <2> QED  BY <1>1, <1>5, <2>2, BlankStep
<1> QED  BY <1>3, <1>4, <1>6 DEF LoginMain, m, k

-----------------------------------------------------------------------------
(* startchar() and the handlers that end in it.                            *)

\* n is m with body b put into slot s.  The slot is b's own, or that of the
\* NPC b possesses.
LEMMA StartInv ==
    ASSUME NEW m, NEW n \in NetRecords, NEW S, NEW P, NEW T,
           NetInv(m, S, P), S \subseteq T, NEW s \in Live(m), NEW b \in Chars, b \in T,
           alive \subseteq Bodies, possessed \in [Bodies -> Npcs \cup {NoBody}],
           n.now = m.now, n.client = m.client,
           n.currchar = [m.currchar EXCEPT ![s] = b],
           n.obj = [m.obj EXCEPT ![b] = s],
           \A i \in Live(m) : m.currchar[i] # b,
           \A c \in Chars : n.logout[c] = "armed" => m.logout[c] = "armed" /\ c # b,
           \A a \in Accounts : GetInWorld(n, a) \in {GetInWorld(m, a), NoBody, b},
           possessed[b] \notin alive => \A p \in Bodies : P[p] # b
    PROVE  NetInv(StartChar(n, s), T, P)
<1> DEFINE p == possessed[b]
           o == [n EXCEPT !.currchar[s] = p, !.obj = [@ EXCEPT ![p] = s, ![b] = NoSlot]]
           r == SetOffline(o, Owner[b])
           q(k) == [k EXCEPT !.stage[s] = "game"]
<1>1. /\ m \in NetRecords /\ s \in Slots /\ b \in Bodies /\ n.currchar[s] = b
      /\ Live(m) \subseteq Slots
  BY LiveIsSlot DEF NetInv, TableOK, NetRecords
<1>2. ASSUME NEW k \in NetRecords
      PROVE  /\ q(k) \in NetRecords
             /\ q(k).now = k.now /\ q(k).client = k.client /\ q(k).currchar = k.currchar
             /\ q(k).obj = k.obj /\ q(k).logout = k.logout
             /\ q(k).state = k.state /\ q(k).online = k.online
  BY <1>1, <1>2 DEF NetRecords, Stages
<1>3. \A i \in Live(m) \ {s} : m.currchar[i] \in Chars =>
          \A z \in Bodies : P[z] # m.currchar[i]
  BY DEF NetInv, TableOK, AtHome
\* A logout that is pending in n is one that was pending in m, of another body.
<1>4. ASSUME NEW k \in NetRecords, k.now = m.now, k.logout = n.logout,
             NEW x \in Bodies, x \in Chars => x = b,
             k.currchar = [m.currchar EXCEPT ![s] = x],
             \A a \in Accounts : GetInWorld(k, a) \in {GetInWorld(n, a), NoBody}
      PROVE  Pending(k, T, P)
  <2> SUFFICES ASSUME NEW c \in Chars, k.logout[c] = "armed"
               PROVE  /\ c \in T
                      /\ \A i \in Live(k) : k.currchar[i] # c
                      /\ \A z \in Bodies : P[z] # c
                      /\ GetInWorld(k, Owner[c]) # c
    BY DEF Pending
  <2>1. m.logout[c] = "armed" /\ c # b
    BY <1>4
  <2>2. /\ c \in S
        /\ \A i \in Live(m) : m.currchar[i] # c
        /\ \A z \in Bodies : P[z] # c
        /\ GetInWorld(m, Owner[c]) # c
    BY <2>1 DEF NetInv, TableOK, Pending
  <2>3. GetInWorld(k, Owner[c]) # c
    <3>1. Owner[c] \in Accounts /\ c # NoBody
      BY OwnerAssumption, NullAssumption
    <3>2. GetInWorld(n, Owner[c]) # c
      BY <2>1, <2>2, <3>1
    <3> QED  BY <1>4, <3>1, <3>2
  <2>4. \A i \in Live(k) : k.currchar[i] # c
    <3>1. Live(k) = Live(m)
      BY <1>4 DEF Live
    <3>2. m.currchar \in [Slots -> Bodies \cup {NoBody}]
      BY <1>1 DEF NetRecords
    <3> QED  BY <1>1, <1>4, <2>1, <2>2, <3>1, <3>2
  <2> QED  BY <2>2, <2>3, <2>4
<1>5. CASE p \in alive
  <2>1. p \in Npcs /\ p \notin Chars /\ p \in Bodies /\ b # p
    BY <1>1, <1>5, NullAssumption, BodiesAssumption
  <2>2. /\ o \in NetRecords /\ o.now = n.now /\ o.client = n.client
        /\ o.currchar = [n.currchar EXCEPT ![s] = p]
        /\ o.obj = [n.obj EXCEPT ![p] = s, ![b] = NoSlot]
        /\ o.logout = n.logout /\ o.state = n.state /\ o.online = n.online
    <3> HIDE DEF p
    <3> QED  BY <1>1, <2>1 DEF NetRecords
  <2>3. StartChar(n, s) = q(r)
    BY <1>1, <1>5, <2>1, NullAssumption DEF StartChar, SetOnline, AcctOf
  <2> HIDE DEF o
  <2>4. r \in NetRecords
    BY <2>2, SetOfflineType
  <2>5. /\ r.now = o.now /\ r.client = o.client /\ r.currchar = o.currchar
        /\ r.obj = o.obj /\ r.logout = o.logout
        /\ \A c \in Accounts : GetInWorld(r, c) \in {GetInWorld(o, c), NoBody}
    BY <2>2, SetOfflineFrame
  <2> DEFINE k == q(r)
  <2> HIDE DEF r, p
  <2>6. /\ k \in NetRecords
        /\ k.now = r.now /\ k.client = r.client /\ k.currchar = r.currchar
        /\ k.obj = r.obj /\ k.logout = r.logout
        /\ k.state = r.state /\ k.online = r.online
    BY <1>2, <2>4
  <2> HIDE DEF k
  <2>7. \A c \in Accounts : GetInWorld(k, c) \in {GetInWorld(n, c), NoBody}
    BY <2>2, <2>5, <2>6 DEF GetInWorld
  <2>8. k.currchar = [m.currchar EXCEPT ![s] = p]
    BY <1>1, <2>2, <2>5, <2>6 DEF NetRecords
  <2>9. Pending(k, T, P)
    <3>1. k.now = m.now /\ k.logout = n.logout
      BY <2>2, <2>5, <2>6
    <3> QED  BY <1>4, <2>1, <2>6, <2>7, <2>8, <3>1
  <2>10. k.obj = [[m.obj EXCEPT ![b] = s] EXCEPT ![p] = s, ![b] = NoSlot]
    BY <2>2, <2>5, <2>6
  <2>11. /\ k.obj[p] = s
         /\ \A c \in Chars : c # b => k.obj[c] = m.obj[c]
    <3>1. m.obj \in [Bodies -> Slots \cup {NoSlot}]
      BY <1>1 DEF NetRecords
    <3> QED  BY <1>1, <2>1, <2>10, <3>1
  <2>12. NetInv(k, T, P)
    <3>1. k.now = m.now /\ k.client = m.client
      BY <2>2, <2>5, <2>6
    <3> QED  BY <1>3, <2>1, <2>6, <2>8, <2>9, <2>11, <3>1, EnterStep
  <2> QED  BY <2>3, <2>12 DEF k
<1>6. CASE p \notin alive
  <2> DEFINE k == q(n)
  <2>1. StartChar(n, s) = k
    BY <1>1, <1>6 DEF StartChar
  <2>2. /\ k \in NetRecords
        /\ k.now = n.now /\ k.client = n.client /\ k.currchar = n.currchar
        /\ k.obj = n.obj /\ k.logout = n.logout
        /\ k.state = n.state /\ k.online = n.online
    BY <1>2
  <2> HIDE DEF k
  <2>3. \A c \in Accounts : GetInWorld(k, c) \in {GetInWorld(n, c), NoBody}
    BY <2>2 DEF GetInWorld
  <2>4. Pending(k, T, P)
    BY <1>1, <1>4, <2>2, <2>3
  <2>5. k.obj[b] = s /\ \A c \in Chars : c # b => k.obj[c] = m.obj[c]
    BY <1>1, <2>2 DEF NetRecords
  <2>6. \A z \in Bodies : P[z] # b
    BY <1>6
  <2>7. NetInv(k, T, P)
    <3>1. /\ k.now = m.now /\ k.client = m.client
          /\ k.currchar = [m.currchar EXCEPT ![s] = b]
      BY <2>2
    <3>2. \A i \in Live(m) \ {s} : m.currchar[i] \in Chars =>
             /\ m.currchar[i] # b
             /\ k.obj[m.currchar[i]] = m.obj[m.currchar[i]]
             /\ \A z \in Bodies : P[z] # m.currchar[i]
      BY <1>3, <2>5
    <3>3. b \in Bodies /\ k \in NetRecords /\ k.obj[b] = s /\ Pending(k, T, P)
      BY <1>1, <2>2, <2>4, <2>5
    <3>4. \A z \in Bodies : b \in Chars => P[z] # b
      BY <2>6
    <3> HIDE DEF p, o, r, q
    <3> QED  BY <3>1, <3>2, <3>3, <3>4, EnterStep, SMTT(30)
  <2> QED  BY <2>1, <2>7
<1> QED  BY <1>5, <1>6

\* charplay(): a character is chosen, whoever plays it.
LEMMA CharPlayInv ==
    ASSUME NEW n, NEW S, NEW P, NetInv(n, S, P), NEW s \in Live(n),
           NEW b \in Chars, b \in S, NEW safe \in BOOLEAN,
           alive \subseteq Bodies, possessed \in [Bodies -> Npcs \cup {NoBody}],
           possessed[b] \notin alive => \A p \in Bodies : P[p] # b
    PROVE  NetInv(CharPlay(n, s, b, safe), S, P)
<1> DEFINE u == [n EXCEPT !.currchar[s] = NoBody]
           v == SetOffline(u, n.acctno[s])
           m == [v EXCEPT !.obj[b] = NoSlot]
<1>1. /\ n \in NetRecords /\ s \in Slots /\ b \in Bodies /\ Live(n) \subseteq Slots
      /\ TableOK(n, S, P)
  BY LiveIsSlot DEF NetInv, TableOK
<1>2. /\ u \in NetRecords /\ u.now = n.now /\ u.client = n.client
      /\ u.currchar = [n.currchar EXCEPT ![s] = NoBody]
      /\ u.obj = n.obj /\ u.logout = n.logout /\ u.state = n.state /\ u.online = n.online
  BY <1>1 DEF NetRecords
<1> HIDE DEF u
<1>3. /\ v \in NetRecords /\ v.now = n.now /\ v.client = n.client
      /\ v.currchar = [n.currchar EXCEPT ![s] = NoBody]
      /\ v.obj = n.obj /\ v.logout = n.logout
      /\ \A a \in Accounts : GetInWorld(v, a) \in {GetInWorld(n, a), NoBody}
  <2>1. \A a \in Accounts : GetInWorld(u, a) = GetInWorld(n, a)
    BY <1>2 DEF GetInWorld
  <2> QED  BY <1>2, <2>1, SetOfflineType, SetOfflineFrame
<1> HIDE DEF v
<1>4. /\ m \in NetRecords /\ m.now = n.now /\ m.client = n.client
      /\ m.currchar = [n.currchar EXCEPT ![s] = NoBody]
      /\ m.obj = [n.obj EXCEPT ![b] = NoSlot] /\ m.logout = n.logout
      /\ \A a \in Accounts : GetInWorld(m, a) \in {GetInWorld(n, a), NoBody}
  <2>1. /\ m \in NetRecords /\ m.now = v.now /\ m.client = v.client
        /\ m.currchar = v.currchar /\ m.obj = [v.obj EXCEPT ![b] = NoSlot]
        /\ m.logout = v.logout /\ m.state = v.state /\ m.online = v.online
    BY <1>1, <1>3 DEF NetRecords
  <2> QED  BY <1>3, <2>1 DEF GetInWorld
<1> HIDE DEF m
<1>5. /\ \A i \in Live(n) : m.currchar[i] \in {n.currchar[i], NoBody}
      /\ \A c \in Chars : m.logout[c] = "armed" =>
            n.logout[c] = "armed" /\ GetInWorld(m, Owner[c]) \in {GetInWorld(n, Owner[c]), NoBody}
      /\ Live(m) = Live(n)
  <2>1. n.currchar \in [Slots -> Bodies \cup {NoBody}]
    BY <1>1 DEF NetRecords
  <2>2. \A i \in Live(n) : m.currchar[i] \in {n.currchar[i], NoBody}
    BY <1>1, <1>4, <2>1
  <2> QED  BY <1>4, <2>2, OwnerAssumption DEF Live
<1>6. CASE Holders(m, b) # {}
  <2> DEFINE d == Disconnect(m, s, safe)
             h == FirstHolder(m, b)
  <2>1. TableOK(m, S, P)
    BY <1>1, <1>4, <1>5, QuietTable
  <2>2. NetInv(d, S, P)
    BY <1>5, <2>1, DisconnectInv
  <2>3. CharPlay(n, s, b, safe) = Disconnect(d, h, safe)
    BY <1>6 DEF CharPlay, m, v, u
  <2> HIDE DEF d, h
  <2>4. CASE h \in Live(d)
    BY <2>2, <2>3, <2>4, DisconnectInv DEF NetInv
  <2>5. CASE h \notin Live(d)
    BY <2>2, <2>3, <2>5 DEF Disconnect
  <2> QED  BY <2>4, <2>5
<1>7. CASE Holders(m, b) = {}
  <2> DEFINE o == SetOnline(m, b)
             w == [o EXCEPT !.logout[b] = "none", !.currchar[s] = b, !.obj[b] = s]
  <2>1. CharPlay(n, s, b, safe) = StartChar(w, s)
    BY <1>7 DEF CharPlay, m, v, u
  <2>2. \A i \in Live(m) : m.currchar[i] # b
    BY <1>7 DEF Holders
  <2>3. NetInv(m, S, P)
    <3>1. n.obj \in [Bodies -> Slots \cup {NoSlot}]
      BY <1>1 DEF NetRecords
    <3>2. \A i \in Live(n) : m.currchar[i] \in Chars => m.obj[m.currchar[i]] = n.obj[m.currchar[i]]
      BY <1>4, <1>5, <2>2, <3>1
    <3> QED  BY <1>4, <1>5, <3>2, QuietStep
  <2>4. /\ o \in NetRecords /\ o.now = m.now /\ o.client = m.client
        /\ o.currchar = m.currchar /\ o.obj = m.obj /\ o.logout = m.logout
        /\ o.state = [m.state EXCEPT ![Owner[b]] = "ingame"]
        /\ o.online = [m.online EXCEPT ![Owner[b]] = b]
    BY <1>4, SetOnlineType, SetOnlineFrame
  <2> HIDE DEF o
  <2>5. /\ w \in NetRecords /\ w.now = o.now /\ w.client = o.client
        /\ w.currchar = [o.currchar EXCEPT ![s] = b] /\ w.obj = [o.obj EXCEPT ![b] = s]
        /\ w.logout = [o.logout EXCEPT ![b] = "none"]
        /\ w.state = o.state /\ w.online = o.online
    BY <1>1, <2>4 DEF NetRecords
  <2> HIDE DEF w
  <2>6. \A a \in Accounts : GetInWorld(w, a) \in {GetInWorld(m, a), NoBody, b}
    BY <1>4, <2>4, <2>5, OwnerAssumption DEF GetInWorld, NetRecords
  <2>7. \A c \in Chars : w.logout[c] = "armed" => m.logout[c] = "armed" /\ c # b
    BY <1>1, <1>4, <2>4, <2>5 DEF NetRecords
  <2>8. /\ w.now = m.now /\ w.client = m.client
        /\ w.currchar = [m.currchar EXCEPT ![s] = b] /\ w.obj = [m.obj EXCEPT ![b] = s]
        /\ s \in Live(m)
    BY <1>5, <2>4, <2>5
  <2>9. NetInv(StartChar(w, s), S, P)
    BY <2>2, <2>3, <2>5, <2>6, <2>7, <2>8, StartInv
  <2> QED  BY <2>1, <2>9
<1> QED  BY <1>6, <1>7

\* charcreate(): the new character has a serial nobody has.
LEMMA CreateInv ==
    ASSUME NEW n, NEW S, NEW P, NetInv(n, S, P), NEW s \in Live(n),
           NEW b \in Chars, b \notin S,
           alive \subseteq Bodies, possessed \in [Bodies -> Npcs \cup {NoBody}],
           \A p \in Bodies : P[p] # b
    PROVE  NetInv(StartChar([n EXCEPT !.currchar[s] = b, !.obj[b] = s], s), S \cup {b}, P)
<1> DEFINE w == [n EXCEPT !.currchar[s] = b, !.obj[b] = s]
<1>1. n \in NetRecords /\ s \in Slots /\ b \in Bodies /\ TableOK(n, S, P)
  BY LiveIsSlot DEF NetInv, TableOK
<1>2. /\ w \in NetRecords /\ w.now = n.now /\ w.client = n.client
      /\ w.currchar = [n.currchar EXCEPT ![s] = b] /\ w.obj = [n.obj EXCEPT ![b] = s]
      /\ w.logout = n.logout /\ w.state = n.state /\ w.online = n.online
  BY <1>1 DEF NetRecords
<1> HIDE DEF w
<1>3. \A i \in Live(n) : n.currchar[i] # b
  BY <1>1, BodiesAssumption, NullAssumption DEF TableOK, Known
<1>4. \A c \in Chars : w.logout[c] = "armed" => n.logout[c] = "armed" /\ c # b
  BY <1>1, <1>2 DEF TableOK, Pending
<1>5. \A a \in Accounts : GetInWorld(w, a) \in {GetInWorld(n, a), NoBody, b}
  BY <1>2 DEF GetInWorld
<1>6. NetInv(StartChar(w, s), S \cup {b}, P)
  <2>1. b \in S \cup {b} /\ S \subseteq S \cup {b}
    OBVIOUS
  <2> QED  BY <1>2, <1>3, <1>4, <1>5, <2>1, StartInv
<1> QED  BY <1>6 DEF w

-----------------------------------------------------------------------------
(* The inductive invariant.                                                *)

\* A body is possessed by a character that exists or existed since the start,
\* and a possessor that was not deleted names the body.
WorldOK ==
    /\ Npcs \subseteq alive
    /\ alive \cap Chars \subseteq serials
    /\ \A p \in Bodies : possessor[p] \in serials \cup {NoBody}
    /\ \A p \in Bodies : possessor[p] \in alive => possessed[possessor[p]] = p

IInv == TypeOK /\ NetInv(net, serials, possessor) /\ WorldOK

\* A character whose possessedSerial names no body is the possessor of none.
LEMMA FreeCharacter ==
    ASSUME IInv, NEW b \in alive, possessed[b] \notin alive
    PROVE  \A p \in Bodies : possessor[p] # b
<1> SUFFICES ASSUME NEW p \in Bodies, possessor[p] = b PROVE FALSE
  OBVIOUS
<1>1. possessed[b] = p /\ possessed[b] \in Npcs \cup {NoBody}
  BY DEF IInv, TypeOK, WorldOK
<1> QED  BY <1>1, NullAssumption DEF IInv, WorldOK

\* The server starts with an empty table.
LEMMA InitIInv == Init => IInv
<1> SUFFICES ASSUME Init PROVE IInv
  OBVIOUS
<1>1. InitNet \in NetRecords
  BY MaxClientsAssumption DEF InitNet, NetRecords, Stages
<1>2. NetInv(net, serials, possessor)
  <2>1. /\ net.now = 0 /\ \A b \in Bodies : net.logout[b] = "none"
    BY DEF Init, InitNet
  <2>2. Live(net) = {}
    BY <2>1 DEF Live
  <2>3. /\ Distinct(net) /\ Single(net) /\ Match(net) /\ Known(net, serials)
        /\ AtHome(net, possessor) /\ Pending(net, serials, possessor)
    BY <2>1, <2>2 DEF Distinct, Single, Match, Known, AtHome, Pending
  <2> QED  BY <1>1, <2>3 DEF NetInv, TableOK, Init
<1>3. TypeOK
  BY <1>1, BodiesAssumption DEF Init, TypeOK, LoadedChars
<1>4. WorldOK
  BY BodiesAssumption, NullAssumption DEF Init, WorldOK
<1> QED  BY <1>2, <1>3, <1>4 DEF IInv

\* What is left to show when the world stays as it is.
LEMMA NetStep ==
    ASSUME IInv, UNCHANGED World, NetInv(net', serials, possessor)
    PROVE  IInv'
<1>1. TypeOK'
  BY DEF IInv, TypeOK, World, NetInv, TableOK
<1>2. WorldOK'
  BY DEF IInv, WorldOK, World
<1>3. NetInv(net', serials', possessor')
  BY DEF World
<1> QED  BY <1>1, <1>2, <1>3 DEF IInv

\* A new connection (CheckConn).
LEMMA CheckConnIInv ==
    ASSUME IInv, NEW fd \in Fds, CheckConn(fd)
    PROVE  IInv'
<1> DEFINE k == net.now
<1>1. /\ net \in NetRecords /\ k \in Slots /\ k \in Nat /\ k < MaxClients
      /\ Live(net) \subseteq Slots
  <2>1. net \in NetRecords /\ k < MaxClients
    BY DEF IInv, TypeOK, CheckConn
  <2>2. k \in Slots /\ k \in Nat
    BY <2>1, MaxClientsAssumption DEF NetRecords
  <2> QED  BY <2>1, <2>2, LiveIsSlot
<1>2. /\ net'.now = k + 1
      /\ net'.client = [net.client EXCEPT ![k] = fd]
      /\ net'.acctno = [net.acctno EXCEPT ![k] = NoAcct]
      /\ net'.currchar = [net.currchar EXCEPT ![k] = NoBody]
      /\ net'.stage = [net.stage EXCEPT ![k] = "new"]
      /\ net'.obj = net.obj /\ net'.logout = net.logout
      /\ net'.state = net.state /\ net'.online = net.online
      /\ net' \in NetRecords
  <2>1. k + 1 \in 0 .. MaxClients
    BY <1>1, MaxClientsAssumption
  <2> QED  BY <1>1, <2>1 DEF CheckConn, NetRecords, Stages
<1>3. /\ Live(net') = Live(net) \cup {k} /\ k \notin Live(net)
      /\ \A i \in Live(net) : /\ net'.client[i] = net.client[i]
                              /\ net'.currchar[i] = net.currchar[i]
      /\ net'.client[k] = fd /\ net'.currchar[k] = NoBody
  <2>1. /\ net.client \in [Slots -> Fds \cup {NoFd}]
        /\ net.currchar \in [Slots -> Bodies \cup {NoBody}]
    BY <1>1 DEF NetRecords
  <2>2. Live(net') = Live(net) \cup {k} /\ k \notin Live(net)
    BY <1>1, <1>2 DEF Live
  <2> QED  BY <1>1, <1>2, <2>1, <2>2
<1>4. NoBody \notin Chars
  BY NullAssumption
<1>5. TableOK(net, serials, possessor) /\ Match(net)
  BY DEF IInv, NetInv
<1>6. Distinct(net')
  <2>1. \A i \in Live(net) : net.client[i] # fd
    BY DEF CheckConn, LiveFds
  <2> QED  BY <1>3, <1>5, <2>1 DEF TableOK, Distinct
<1>7. Match(net')
  BY <1>2, <1>3, <1>4, <1>5 DEF Match
<1>8. Known(net', serials) /\ AtHome(net', possessor)
  BY <1>3, <1>4, <1>5 DEF TableOK, Known, AtHome
<1>9. Pending(net', serials, possessor)
  <2>1. \A a \in Accounts : GetInWorld(net', a) = GetInWorld(net, a)
    BY <1>2 DEF GetInWorld
  <2> QED  BY <1>2, <1>3, <1>4, <1>5, <2>1, OwnerAssumption DEF TableOK, Pending
<1>10. NetInv(net', serials, possessor)
  BY <1>2, <1>6, <1>7, <1>8, <1>9, MatchIsSingle DEF NetInv, TableOK
<1> QED  BY <1>10, NetStep DEF CheckConn

\* The packets that leave the world as it is.
LEMMA LoginPacketsIInv ==
    ASSUME IInv, NEW s \in Live(net),
           Seed(s) \/ Hangup(s) \/ FirstLoginRequest(s) \/ LoginRequest(s)
    PROVE  IInv'
<1>1. /\ net \in NetRecords /\ s \in Slots /\ NetInv(net, serials, possessor)
      /\ TableOK(net, serials, possessor)
  BY LiveIsSlot DEF IInv, TypeOK, NetInv
<1>2. CASE Seed(s)
  <2>1. /\ net' \in NetRecords /\ net'.now = net.now /\ net'.client = net.client
        /\ net'.currchar = net.currchar /\ net'.obj = net.obj /\ net'.logout = net.logout
        /\ net'.state = net.state /\ net'.online = net.online
    BY <1>1, <1>2 DEF Seed, NetRecords, Stages
  <2>2. \A a \in Accounts : GetInWorld(net', a) = GetInWorld(net, a)
    BY <2>1 DEF GetInWorld
  <2>3. NetInv(net', serials, possessor)
    BY <1>1, <2>1, <2>2, QuietStep, OwnerAssumption
  <2> QED  BY <1>2, <2>3, NetStep DEF Seed
<1>3. CASE Hangup(s)
  <2>1. PICK safe \in BOOLEAN : net' = Disconnect(net, s, safe)
    BY <1>3 DEF Hangup
  <2>2. NetInv(net', serials, possessor)
    BY <1>1, <2>1, DisconnectInv
  <2> QED  BY <1>3, <2>2, NetStep DEF Hangup
<1>4. CASE FirstLoginRequest(s)
  <2>1. "login" \in Stages
    BY DEF Stages
  <2>2. NetInv(net', serials, possessor)
    BY <1>1, <1>4, <2>1, LoginInv, RefuseInv DEF FirstLoginRequest
  <2> QED  BY <1>4, <2>2, NetStep DEF FirstLoginRequest
<1>5. CASE LoginRequest(s)
  <2>1. "list" \in Stages
    BY DEF Stages
  <2>2. NetInv(net', serials, possessor)
    BY <1>1, <1>5, <2>1, ListInv, RefuseInv DEF LoginRequest
  <2> QED  BY <1>5, <2>2, NetStep DEF LoginRequest
<1> QED  BY <1>2, <1>3, <1>4, <1>5

\* A choice from the character list.
LEMMA SelectIInv ==
    ASSUME IInv, NEW s \in Live(net), CharacterSelect(s)
    PROVE  IInv'
<1>1. net.acctno[s] \in Accounts
  <2>1. s \in Slots /\ net \in NetRecords
    BY LiveIsSlot DEF IInv, TypeOK
  <2> QED  BY <2>1 DEF CharacterSelect, Selecting, NetRecords
<1>2. PICK b \in pgs[net.acctno[s]] \cap alive, safe \in BOOLEAN :
         net' = CharPlay(net, s, b, safe)
  BY DEF CharacterSelect
<1>3. /\ b \in Chars /\ b \in serials /\ NetInv(net, serials, possessor)
      /\ alive \subseteq Bodies /\ possessed \in [Bodies -> Npcs \cup {NoBody}]
  BY <1>1, <1>2 DEF IInv, TypeOK, WorldOK
<1>4. possessed[b] \notin alive => \A p \in Bodies : possessor[p] # b
  BY <1>2, FreeCharacter
<1>5. NetInv(net', serials, possessor)
  BY <1>2, <1>3, <1>4, CharPlayInv
<1> QED  BY <1>5, NetStep DEF CharacterSelect

\* A character is created.
LEMMA CreateIInv ==
    ASSUME IInv, NEW s \in Live(net), CreateCharacter(s)
    PROVE  IInv'
<1> DEFINE a == net.acctno[s]
<1>0. /\ NetInv(net, serials, possessor) /\ TableOK(net, serials, possessor)
      /\ alive \subseteq Bodies /\ possessed \in [Bodies -> Npcs \cup {NoBody}]
  BY DEF IInv, TypeOK, NetInv
<1>1. CASE Cardinality(pgs[a]) >= RoleLimit
  <2>1. net' = Disconnect(net, s, FALSE) /\ UNCHANGED World
    BY <1>1 DEF CreateCharacter
  <2>2. NetInv(net', serials, possessor)
    BY <1>0, <2>1, DisconnectInv
  <2> QED  BY <2>1, <2>2, NetStep
<1>2. CASE ~ (Cardinality(pgs[a]) >= RoleLimit)
  <2>1. PICK b \in Chars :
          /\ Owner[b] = a
          /\ b \notin serials
          /\ serials' = serials \cup {b}
          /\ net' = StartChar([net EXCEPT !.currchar[s] = b, !.obj[b] = s], s)
          /\ alive' = alive \cup {b}
          /\ pgs' = [pgs EXCEPT ![a] = @ \cup {b}]
    BY <1>2 DEF CreateCharacter
  <2>2. possessed' = possessed /\ possessor' = possessor
    BY <1>2 DEF CreateCharacter
  <2>3. \A p \in Bodies : possessor[p] # b
    BY <2>1, NullAssumption DEF IInv, WorldOK
  <2>4. NetInv(net', serials', possessor')
    <3>1. NetInv(StartChar([net EXCEPT !.currchar[s] = b, !.obj[b] = s], s),
                 serials \cup {b}, possessor)
      BY <1>0, <2>1, <2>3, CreateInv
    <3> QED  BY <2>1, <2>2, <3>1
  <2>5. TypeOK'
    BY <2>1, <2>2, <2>4 DEF IInv, TypeOK, NetInv, TableOK
  <2>6. WorldOK'
    <3>1. b \in Bodies /\ alive \subseteq alive' /\ serials \subseteq serials'
      BY <2>1
    <3>2. \A p \in Bodies : possessor[p] \in alive' => possessor[p] \in alive
      BY <2>1, <2>3
    <3> QED  BY <2>1, <2>2, <3>1, <3>2 DEF IInv, WorldOK
  <2> QED  BY <2>4, <2>5, <2>6 DEF IInv
<1> QED  BY <1>1, <1>2

\* A character is deleted.
LEMMA DeleteIInv ==
    ASSUME IInv, NEW s \in Live(net), DeleteCharacter(s)
    PROVE  IInv'
<1>1. net.acctno[s] \in Accounts /\ net \in NetRecords
  <2>1. s \in Slots /\ net \in NetRecords
    BY LiveIsSlot DEF IInv, TypeOK
  <2> QED  BY <2>1 DEF DeleteCharacter, Selecting, NetRecords
<1>2. PICK b \in pgs[net.acctno[s]] \cap alive :
          /\ alive' = alive \ {b}
          /\ possessed' = [possessed EXCEPT ![b] = NoBody]
          /\ net' = [net EXCEPT !.logout[b] = "none"]
  BY DEF DeleteCharacter
<1>3. b \in Chars /\ b \in Bodies
  BY <1>1, <1>2 DEF IInv, TypeOK
<1>4. /\ serials' = serials /\ pgs' = pgs /\ possessor' = possessor
  BY DEF DeleteCharacter
<1>5. /\ net' \in NetRecords /\ net'.now = net.now /\ net'.client = net.client
      /\ net'.currchar = net.currchar /\ net'.obj = net.obj
      /\ net'.logout = [net.logout EXCEPT ![b] = "none"]
      /\ net'.state = net.state /\ net'.online = net.online
  BY <1>1, <1>2, <1>3 DEF NetRecords
<1>6. NetInv(net', serials', possessor')
  <2>1. \A c \in Accounts : GetInWorld(net', c) = GetInWorld(net, c)
    BY <1>5 DEF GetInWorld
  <2>2. \A c \in Chars : net'.logout[c] = "armed" => net.logout[c] = "armed"
    BY <1>1, <1>3, <1>5 DEF NetRecords
  <2> QED  BY <1>4, <1>5, <2>1, <2>2, QuietStep, OwnerAssumption DEF IInv
<1>7. TypeOK'
  BY <1>2, <1>4, <1>5 DEF IInv, TypeOK
<1>8. WorldOK'
  <2>1. Npcs \subseteq alive' /\ alive' \cap Chars \subseteq serials'
    BY <1>2, <1>3, <1>4, BodiesAssumption DEF IInv, WorldOK
  <2>2. \A p \in Bodies : possessor'[p] \in alive' => possessed'[possessor'[p]] = p
    BY <1>2, <1>4 DEF IInv, WorldOK, TypeOK
  <2> QED  BY <1>4, <2>1, <2>2 DEF IInv, WorldOK
<1> QED  BY <1>6, <1>7, <1>8 DEF IInv

\* cChar::possess(): a player, who is in the slot named by its client object,
\* goes over to an NPC.
LEMMA PossessIInv ==
    ASSUME IInv, NEW s \in Live(net), Possess(s)
    PROVE  IInv'
<1> DEFINE b == net.currchar[s]
           k == net.obj[b]
           o(p) == [net EXCEPT !.currchar[k] = p,
                               !.obj = [@ EXCEPT ![p] = k, ![b] = NoSlot],
                               !.stage[k] = "game"]
<1>1. /\ net \in NetRecords /\ TableOK(net, serials, possessor) /\ Match(net)
      /\ alive \subseteq Bodies /\ Live(net) \subseteq Slots
      /\ possessor \in [Bodies -> Bodies \cup {NoBody}]
      /\ possessed \in [Bodies -> Npcs \cup {NoBody}]
  BY LiveIsSlot DEF IInv, TypeOK, NetInv
<1>2. /\ b \in alive /\ b \in Chars /\ b \in serials /\ possessor[b] = NoBody
      /\ SocketOf(net, b) = s /\ k = s
  <2>1. b \in alive /\ SocketOf(net, b) # NoSlot /\ possessor[b] = NoBody
    BY DEF Possess
  <2>2. b \in Chars
    BY <1>1, <2>1 DEF SocketOf, IsNpc
  <2>3. k = s
    BY <1>1, <2>2 DEF Match
  <2> QED  BY <2>1, <2>2, <2>3 DEF SocketOf, IInv, WorldOK
<1>3. PICK p \in Npcs \ {b} :
          /\ possessor[p] = NoBody
          /\ possessor' = [possessor EXCEPT ![p] = b]
          /\ possessed' = [possessed EXCEPT ![b] = p]
          /\ net' = SetOnline(SetOffline(o(p), AcctOf(b)), p)
  BY <1>2 DEF Possess
<1>4. alive' = alive /\ serials' = serials /\ pgs' = pgs
  BY DEF Possess
<1>5. p \in Bodies /\ p \notin Chars /\ b \in Bodies /\ b # p
  BY <1>2, <1>3, BodiesAssumption
<1>6. /\ o(p) \in NetRecords /\ o(p).now = net.now /\ o(p).client = net.client
      /\ o(p).currchar = [net.currchar EXCEPT ![s] = p]
      /\ o(p).obj = [net.obj EXCEPT ![p] = s, ![b] = NoSlot]
      /\ o(p).logout = net.logout /\ o(p).state = net.state /\ o(p).online = net.online
  <2> HIDE DEF b
  <2> QED  BY <1>1, <1>2, <1>5 DEF NetRecords, Stages
<1> HIDE DEF o
<1>7. net' = SetOffline(o(p), AcctOf(b))
  BY <1>3, <1>5, NullAssumption DEF SetOnline, AcctOf
<1>8. /\ net' \in NetRecords /\ net'.now = net.now /\ net'.client = net.client
      /\ net'.currchar = [net.currchar EXCEPT ![s] = p]
      /\ net'.obj = [net.obj EXCEPT ![p] = s, ![b] = NoSlot]
      /\ net'.logout = net.logout
      /\ \A a \in Accounts : GetInWorld(net', a) \in {GetInWorld(net, a), NoBody}
  <2>1. \A a \in Accounts : GetInWorld(o(p), a) = GetInWorld(net, a)
    BY <1>6 DEF GetInWorld
  <2> QED  BY <1>6, <1>7, <2>1, SetOfflineType, SetOfflineFrame
<1> HIDE DEF b, k
<1>9. \A i \in Live(net) \ {s} : net.currchar[i] \in Chars => net.currchar[i] # b
  BY <1>1, <1>2 DEF TableOK, Single, b
<1>10. \A z \in Bodies : possessor'[z] = IF z = p THEN b ELSE possessor[z]
  BY <1>1, <1>3, <1>5
<1>11. Pending(net', serials, possessor')
  <2> SUFFICES ASSUME NEW c \in Chars, net'.logout[c] = "armed"
               PROVE  /\ c \in serials
                      /\ \A i \in Live(net') : net'.currchar[i] # c
                      /\ \A z \in Bodies : possessor'[z] # c
                      /\ GetInWorld(net', Owner[c]) # c
    BY DEF Pending
  <2>1. /\ c \in serials
        /\ \A i \in Live(net) : net.currchar[i] # c
        /\ \A z \in Bodies : possessor[z] # c
        /\ GetInWorld(net, Owner[c]) # c
    BY <1>1, <1>8 DEF TableOK, Pending
  <2>2. c # b /\ c # p /\ c # NoBody /\ Owner[c] \in Accounts
    BY <1>5, <2>1, NullAssumption, OwnerAssumption DEF b
  <2>3. \A i \in Live(net') : net'.currchar[i] # c
    <3>1. Live(net') = Live(net) /\ net.currchar \in [Slots -> Bodies \cup {NoBody}]
      BY <1>1, <1>8 DEF Live, NetRecords
    <3> QED  BY <1>1, <1>8, <2>1, <2>2, <3>1
  <2> QED  BY <1>8, <1>10, <2>1, <2>2, <2>3
<1>12. NetInv(net', serials, possessor')
  <2>1. net'.obj[p] = s /\ \A c \in Chars : c # b => net'.obj[c] = net.obj[c]
    BY <1>1, <1>5, <1>8 DEF NetRecords
  <2>2. \A i \in Live(net) \ {s} : net.currchar[i] \in Chars =>
            /\ net.currchar[i] # p
            /\ net'.obj[net.currchar[i]] = net.obj[net.currchar[i]]
            /\ \A z \in Bodies : possessor'[z] # net.currchar[i]
    BY <1>1, <1>5, <1>9, <1>10, <2>1 DEF TableOK, AtHome
  <2>3. NetInv(net, serials, possessor)
    BY DEF IInv
  <2>4. /\ \A z \in Bodies : p \in Chars => possessor'[z] # p
        /\ p \in Chars => p \in serials
    BY <1>5
  <2> DEFINE q == net'
             Q == possessor'
  <2>6. /\ q \in NetRecords /\ q.now = net.now /\ q.client = net.client
        /\ q.currchar = [net.currchar EXCEPT ![s] = p]
        /\ q.obj[p] = s
    BY <1>8, <2>1
  <2>7. /\ \A z \in Bodies : p \in Chars => Q[z] # p
        /\ \A i \in Live(net) \ {s} : net.currchar[i] \in Chars =>
              /\ net.currchar[i] # p
              /\ q.obj[net.currchar[i]] = net.obj[net.currchar[i]]
              /\ \A z \in Bodies : Q[z] # net.currchar[i]
    BY <2>2, <2>4
  <2>8. Pending(q, serials, Q)
    BY <1>11
  <2> HIDE DEF q, Q
  <2>9. s \in Live(net) /\ p \in Bodies /\ serials \subseteq serials
    BY <1>5
  <2>10. NetInv(q, serials, Q)
    BY <2>3, <2>4, <2>6, <2>7, <2>8, <2>9, EnterStep
  <2> QED  BY <2>10 DEF q, Q
<1>13. TypeOK'
  BY <1>1, <1>3, <1>4, <1>5, <1>8 DEF IInv, TypeOK
<1>14. WorldOK'
  <2>1. \A z \in Bodies : possessor[z] # b
    BY <1>1, <1>2 DEF TableOK, AtHome, b
  <2>2. \A z \in Bodies : possessor'[z] \in alive => possessed'[possessor'[z]] = z
    <3>1. possessed'[b] = p /\ \A y \in Bodies : y # b => possessed'[y] = possessed[y]
      BY <1>1, <1>3, <1>5
    <3> QED  BY <1>1, <1>10, <2>1, <3>1 DEF IInv, WorldOK
  <2> QED  BY <1>2, <1>4, <1>10, <2>2 DEF IInv, WorldOK
<1> QED  BY <1>4, <1>12, <1>13, <1>14 DEF IInv

\* cChar::possess() by a possessed body: the possessor, which is in no slot,
\* takes the slot that the client object of the body names.
LEMMA SwitchBackIInv ==
    ASSUME IInv, NEW s \in Live(net), SwitchBack(s)
    PROVE  IInv'
<1> DEFINE p == net.currchar[s]
           k == SocketOf(net, p)
           b == possessor[p]
           o == [net EXCEPT !.currchar[k] = b,
                            !.obj = [@ EXCEPT ![b] = k, ![p] = NoSlot],
                            !.stage[k] = "game"]
<1>1. /\ net \in NetRecords /\ TableOK(net, serials, possessor) /\ Match(net)
      /\ alive \subseteq Bodies /\ Live(net) \subseteq Slots
      /\ possessor \in [Bodies -> Bodies \cup {NoBody}]
      /\ possessed \in [Bodies -> Npcs \cup {NoBody}]
  BY LiveIsSlot DEF IInv, TypeOK, NetInv
<1>2. /\ p \in alive /\ b \in alive /\ k # NoSlot
      /\ possessor' = [possessor EXCEPT ![p] = NoBody]
      /\ possessed' = [possessed EXCEPT ![b] = NoBody]
      /\ net' = SetOnline(SetOffline(o, AcctOf(b)), b)
      /\ alive' = alive /\ serials' = serials /\ pgs' = pgs
  <2>1. /\ p \in alive /\ b \in alive /\ k # NoSlot
        /\ alive' = alive /\ serials' = serials /\ pgs' = pgs
    BY DEF SwitchBack
  <2>2. /\ possessor' = [possessor EXCEPT ![p] = NoBody]
        /\ possessed' = [possessed EXCEPT ![b] = NoBody]
    BY DEF SwitchBack
  <2>3. net' = SetOnline(SetOffline(o, AcctOf(b)), b)
    BY DEF SwitchBack
  <2> QED  BY <2>1, <2>2, <2>3
<1>3. /\ p \in Npcs /\ p \in Bodies /\ p \notin Chars
      /\ b \in Chars /\ b \in Bodies /\ b \in serials /\ b # p
      /\ possessed[b] = p
  <2>1. p \in Bodies /\ b \in Bodies
    BY <1>1, <1>2
  <2>2. possessed[b] = p /\ b \in serials
    BY <1>2, <2>1, NullAssumption DEF IInv, WorldOK
  <2>3. p \in Npcs /\ p \notin Chars
    BY <1>1, <2>1, <2>2, NullAssumption, BodiesAssumption
  <2> QED  BY <2>1, <2>2, <2>3 DEF IInv, TypeOK
<1>4. k \in Live(net) /\ k \in Slots
  BY <1>1, <1>2 DEF SocketOf
<1> HIDE DEF p, k, b
<1>5. /\ o \in NetRecords /\ o.now = net.now /\ o.client = net.client
      /\ o.currchar = [net.currchar EXCEPT ![k] = b]
      /\ o.obj = [net.obj EXCEPT ![b] = k, ![p] = NoSlot]
      /\ o.logout = net.logout /\ o.state = net.state /\ o.online = net.online
  BY <1>1, <1>3, <1>4 DEF NetRecords, Stages
<1> HIDE DEF o
<1> DEFINE r == SetOffline(o, AcctOf(b))
<1>6. /\ r \in NetRecords /\ r.now = net.now /\ r.client = net.client
      /\ r.currchar = o.currchar /\ r.obj = o.obj /\ r.logout = net.logout
      /\ \A a \in Accounts : GetInWorld(r, a) \in {GetInWorld(net, a), NoBody}
  <2>1. \A a \in Accounts : GetInWorld(o, a) = GetInWorld(net, a)
    BY <1>5 DEF GetInWorld
  <2> QED  BY <1>5, <2>1, SetOfflineType, SetOfflineFrame
<1> HIDE DEF r
<1>7. /\ net' \in NetRecords /\ net'.now = net.now /\ net'.client = net.client
      /\ net'.currchar = [net.currchar EXCEPT ![k] = b]
      /\ net'.obj = [net.obj EXCEPT ![b] = k, ![p] = NoSlot]
      /\ net'.logout = net.logout
      /\ \A a \in Accounts : GetInWorld(net', a) \in {GetInWorld(net, a), NoBody, b}
  <2>1. /\ net' \in NetRecords /\ net'.now = net.now /\ net'.client = net.client
        /\ net'.currchar = o.currchar /\ net'.obj = o.obj /\ net'.logout = net.logout
        /\ net'.state = [r.state EXCEPT ![Owner[b]] = "ingame"]
        /\ net'.online = [r.online EXCEPT ![Owner[b]] = b]
    BY <1>2, <1>3, <1>6, SetOnlineType, SetOnlineFrame DEF r
  <2>2. \A a \in Accounts : GetInWorld(net', a) \in {GetInWorld(r, a), b}
    BY <1>3, <1>6, <2>1, OwnerAssumption DEF GetInWorld, NetRecords
  <2> QED  BY <1>5, <1>6, <2>1, <2>2
<1>8. \A z \in Bodies : possessor'[z] = IF z = p THEN NoBody ELSE possessor[z]
  BY <1>1, <1>2, <1>3
<1>9. \A i \in Live(net) : net.currchar[i] # b
  BY <1>1, <1>3 DEF TableOK, AtHome, b
<1>10. \A z \in Bodies : z # p => possessor[z] # b
  BY <1>2, <1>3 DEF IInv, WorldOK
<1>11. Pending(net', serials, possessor')
  <2> SUFFICES ASSUME NEW c \in Chars, net'.logout[c] = "armed"
               PROVE  /\ c \in serials
                      /\ \A i \in Live(net') : net'.currchar[i] # c
                      /\ \A z \in Bodies : possessor'[z] # c
                      /\ GetInWorld(net', Owner[c]) # c
    BY DEF Pending
  <2>1. /\ c \in serials
        /\ \A i \in Live(net) : net.currchar[i] # c
        /\ \A z \in Bodies : possessor[z] # c
        /\ GetInWorld(net, Owner[c]) # c
    BY <1>1, <1>7 DEF TableOK, Pending
  <2>2. c # b /\ c # NoBody /\ Owner[c] \in Accounts
    BY <1>3, <2>1, NullAssumption, OwnerAssumption DEF b
  <2>3. \A i \in Live(net') : net'.currchar[i] # c
    <3>1. Live(net') = Live(net) /\ net.currchar \in [Slots -> Bodies \cup {NoBody}]
      BY <1>1, <1>7 DEF Live, NetRecords
    <3> QED  BY <1>1, <1>7, <2>1, <2>2, <3>1
  <2> QED  BY <1>7, <1>8, <2>1, <2>2, <2>3
<1>12. NetInv(net', serials, possessor')
  <2>1. net'.obj[b] = k /\ \A c \in Chars : c # b => net'.obj[c] = net.obj[c]
    BY <1>1, <1>3, <1>7 DEF NetRecords
  <2>2. \A i \in Live(net) \ {k} : net.currchar[i] \in Chars =>
            /\ net.currchar[i] # b
            /\ net'.obj[net.currchar[i]] = net.obj[net.currchar[i]]
            /\ \A z \in Bodies : possessor'[z] # net.currchar[i]
    BY <1>1, <1>8, <1>9, <2>1, NullAssumption DEF TableOK, AtHome
  <2>3. \A z \in Bodies : possessor'[z] # b
    BY <1>3, <1>8, <1>10, NullAssumption
  <2>4. NetInv(net, serials, possessor)
    BY DEF IInv
  <2> DEFINE q == net'
             Q == possessor'
  <2>6. /\ q \in NetRecords /\ q.now = net.now /\ q.client = net.client
        /\ q.currchar = [net.currchar EXCEPT ![k] = b]
        /\ q.obj[b] = k
    BY <1>7, <2>1
  <2>7. /\ \A z \in Bodies : b \in Chars => Q[z] # b
        /\ \A i \in Live(net) \ {k} : net.currchar[i] \in Chars =>
              /\ net.currchar[i] # b
              /\ q.obj[net.currchar[i]] = net.obj[net.currchar[i]]
              /\ \A z \in Bodies : Q[z] # net.currchar[i]
    BY <2>2, <2>3
  <2>8. Pending(q, serials, Q)
    BY <1>11
  <2> HIDE DEF q, Q
  <2>9. k \in Live(net) /\ b \in Bodies /\ b \in serials /\ serials \subseteq serials
    BY <1>3, <1>4
  <2>10. NetInv(q, serials, Q)
    BY <2>4, <2>6, <2>7, <2>8, <2>9, EnterStep
  <2> QED  BY <2>10 DEF q, Q
<1>13. TypeOK'
  BY <1>1, <1>2, <1>3, <1>7 DEF IInv, TypeOK
<1>14. WorldOK'
  <2>1. \A z \in Bodies : possessor'[z] \in alive => possessed'[possessor'[z]] = z
    <3>1. \A y \in Bodies : y # b => possessed'[y] = possessed[y]
      BY <1>1, <1>2, <1>3
    <3> QED  BY <1>1, <1>8, <1>10, <3>1, NullAssumption DEF IInv, WorldOK
  <2> QED  BY <1>2, <1>8, <2>1 DEF IInv, WorldOK
<1> QED  BY <1>2, <1>12, <1>13, <1>14 DEF IInv

\* The accounts are read again.
LEMMA ReloadIInv == IInv /\ ReloadAccounts => IInv'
<1> SUFFICES ASSUME IInv, ReloadAccounts PROVE IInv'
  OBVIOUS
<1>1. /\ net \in NetRecords /\ NetInv(net, serials, possessor)
      /\ alive' = alive /\ serials' = serials
      /\ possessed' = possessed /\ possessor' = possessor
  BY DEF IInv, TypeOK, ReloadAccounts
<1>2. /\ InitNet.state = [a \in Accounts |-> "out"]
      /\ InitNet.online = [a \in Accounts |-> NoBody]
  BY DEF InitNet
<1>3. /\ net' \in NetRecords /\ net'.now = net.now /\ net'.client = net.client
      /\ net'.currchar = net.currchar /\ net'.obj = net.obj /\ net'.logout = net.logout
      /\ net'.state = [a \in Accounts |-> "out"]
  BY <1>1, <1>2 DEF ReloadAccounts, NetRecords
<1>4. \A a \in Accounts : GetInWorld(net', a) = NoBody
  BY <1>3 DEF GetInWorld
<1>5. NetInv(net', serials, possessor)
  BY <1>1, <1>3, <1>4, QuietStep, OwnerAssumption
<1>6. TypeOK' /\ WorldOK'
  BY <1>1, <1>3 DEF IInv, TypeOK, WorldOK, ReloadAccounts
<1> QED  BY <1>1, <1>5, <1>6 DEF IInv

\* The server starts again from the saved world.
LEMMA RestartIInv == IInv /\ Restart => IInv'
<1> SUFFICES ASSUME IInv, Restart PROVE IInv'
  OBVIOUS
<1>1. /\ net' = InitNet /\ serials' = alive \cap Chars
      /\ pgs' = LoadedChars(alive) /\ alive' = alive
      /\ possessor' = [b \in Bodies |-> NoBody] /\ possessed' = possessed
  BY DEF Restart
<1>2. InitNet \in NetRecords
  BY MaxClientsAssumption DEF InitNet, NetRecords, Stages
<1>3. NetInv(InitNet, serials', possessor')
  <2>1. /\ InitNet.now = 0 /\ \A b \in Bodies : InitNet.logout[b] = "none"
    BY DEF InitNet
  <2>2. Live(InitNet) = {}
    BY <2>1 DEF Live
  <2>3. /\ Distinct(InitNet) /\ Single(InitNet) /\ Match(InitNet) /\ Known(InitNet, serials')
        /\ AtHome(InitNet, possessor') /\ Pending(InitNet, serials', possessor')
    BY <2>1, <2>2 DEF Distinct, Single, Match, Known, AtHome, Pending
  <2> QED  BY <1>2, <2>3 DEF NetInv, TableOK
<1>4. TypeOK'
  BY <1>1, <1>2 DEF IInv, TypeOK, LoadedChars
<1>5. WorldOK'
  BY <1>1, NullAssumption DEF IInv, TypeOK, WorldOK
<1> QED  BY <1>1, <1>3, <1>4, <1>5 DEF IInv

\* Every step.
LEMMA NextIInv == IInv /\ [Next]_vars => IInv'
<1> SUFFICES ASSUME IInv, [Next]_vars PROVE IInv'
  OBVIOUS
<1>1. CASE \E fd \in Fds : CheckConn(fd)
  BY <1>1, CheckConnIInv
<1>2. CASE \E s \in Live(net) : Packet(s)
  <2>1. PICK s \in Live(net) : Packet(s)
    BY <1>2
  <2>2. CASE Seed(s) \/ Hangup(s) \/ FirstLoginRequest(s) \/ LoginRequest(s)
    BY <2>2, LoginPacketsIInv
  <2>3. CASE CharacterSelect(s)
    BY <2>3, SelectIInv
  <2>4. CASE CreateCharacter(s)
    BY <2>4, CreateIInv
  <2>5. CASE DeleteCharacter(s)
    BY <2>5, DeleteIInv
  <2>6. CASE Possess(s)
    BY <2>6, PossessIInv
  <2>7. CASE SwitchBack(s)
    BY <2>7, SwitchBackIInv
  <2> QED  BY <2>1, <2>2, <2>3, <2>4, <2>5, <2>6, <2>7 DEF Packet
<1>3. CASE ReloadAccounts
  BY <1>3, ReloadIInv
<1>4. CASE Restart
  BY <1>4, RestartIInv
<1>5. CASE UNCHANGED vars
  <2>1. UNCHANGED World /\ net' = net
    BY <1>5 DEF vars, World
  <2> QED  BY <2>1, NetStep DEF IInv
<1> QED  BY <1>1, <1>2, <1>3, <1>4, <1>5 DEF Next

\* The inductive invariant holds in every reachable state.
THEOREM Inductive == Spec => []IInv
BY InitIInv, NextIInv, PTL DEF Spec

-----------------------------------------------------------------------------
(* The theorems.                                                           *)

\* Every handler leaves the slot table, the accounts and the world well typed.
THEOREM TypeCorrect == Spec => []TypeOK
<1>1. IInv => TypeOK
  BY DEF IInv
<1> QED  BY <1>1, Inductive, PTL

\* Disconnect() neither loses nor doubles a socket handle, whatever slot it
\* closes and however many are open.
THEOREM HandlesStayDistinct == Spec => []DistinctHandles
<1>1. IInv => DistinctHandles
  BY DEF IInv, NetInv, TableOK, Distinct, DistinctHandles
<1> QED  BY <1>1, Inductive, PTL

\* No order of logins, compactions, possessions, reloads and restarts puts a
\* player character into two slots.
THEOREM CharacterInOneSlot == Spec => []OneSlotPerCharacter
<1>1. IInv => OneSlotPerCharacter
  BY DEF IInv, NetInv, TableOK, Single, OneSlotPerCharacter
<1> QED  BY <1>1, Inductive, PTL

\* The client objects follow every compaction.
THEOREM ObjectsFollowSlots == Spec => []ClientObjectsMatch
<1>1. IInv => ClientObjectsMatch
  BY DEF IInv, NetInv, Match, ClientObjectsMatch
<1> QED  BY <1>1, Inductive, PTL

\* pc_heartbeat() finds no pending logout on a character in the world.
THEOREM NoPendingLogoutInWorld == Spec => []LogoutNeverPending
<1>1. IInv => LogoutNeverPending
  BY DEF IInv, NetInv, TableOK, Pending, LogoutNeverPending
<1> QED  BY <1>1, Inductive, PTL

\* A possessed NPC can be given back to a possessor that was not deleted.
THEOREM PossessorKnowsBody == Spec => []PossessorNamesBody
<1>1. IInv => PossessorNamesBody
  BY DEF IInv, WorldOK, PossessorNamesBody
<1> QED  BY <1>1, Inductive, PTL

-----------------------------------------------------------------------------
(* Who holds an account.  Where no NPC can be possessed, StartChar() leaves *)
(* accounts and characters as they are, and a slot keeps what it has until  *)
(* it is closed.                                                            *)

Held(n) ==
    \A a \in Accounts : n.state[a] # "out" => \E i \in Live(n) : n.acctno[i] = a

\* Before the login there is no account, before the choice no character.
Fresh(n) ==
    \A i \in Live(n) :
        /\ n.stage[i] \in {"new", "first"} => n.acctno[i] = NoAcct
        /\ n.stage[i] \in {"new", "first", "list"} => n.currchar[i] = NoBody

Tidy(n) == n \in NetRecords /\ Held(n) /\ Fresh(n)

Listed == \A a \in Accounts : \A b \in pgs[a] : Owner[b] = a

AInv == Npcs = {} /\ Tidy(net) /\ Listed

\* Every slot of m is a slot of n: the same one, and one that may have come by
\* an account or a character where it had none.
SameSlot(n, m, i, j) ==
    /\ m.client[j] = n.client[i] /\ m.acctno[j] = n.acctno[i]
    /\ m.currchar[j] = n.currchar[i] /\ m.stage[j] = n.stage[i]

Shrinks(n, m) == \A j \in Live(m) : \E i \in Live(n) : SameSlot(n, m, i, j)

Follows(n, m, i, j) ==
    /\ n.acctno[i] # NoAcct => m.acctno[j] = n.acctno[i]
    /\ m.currchar[j] \in {NoBody, n.currchar[i]} \/ n.currchar[i] = NoBody

Descends(n, m) ==
    \A j \in Live(m) : \E i \in Live(n) : m.client[j] = n.client[i] /\ Follows(n, m, i, j)

Survives(n, m) ==
    \A i \in Live(n), j \in Live(m) : n.client[i] = m.client[j] => Follows(n, m, i, j)

\* A handler that ends with a disconnection.
LEMMA ShrinksFollows ==
    ASSUME NEW n, NEW m, NEW k, Descends(n, m), Shrinks(m, k)
    PROVE  Descends(n, k)
<1> SUFFICES ASSUME NEW j \in Live(k)
             PROVE  \E i \in Live(n) : k.client[j] = n.client[i] /\ Follows(n, k, i, j)
  BY DEF Descends
<1>1. PICK l \in Live(m) : SameSlot(m, k, l, j)
  BY DEF Shrinks
<1>2. PICK i \in Live(n) : m.client[l] = n.client[i] /\ Follows(n, m, i, l)
  BY DEF Descends
<1> QED  BY <1>1, <1>2 DEF SameSlot, Follows

\* Doing nothing.
LEMMA SelfDescends == ASSUME NEW n PROVE Descends(n, n) /\ Shrinks(n, n)
BY DEF Descends, Follows, Shrinks, SameSlot

\* With distinct handles, sessions are found by their handle.
LEMMA DescendsSurvives ==
    ASSUME NEW n, NEW m, Distinct(n), Descends(n, m)
    PROVE  Survives(n, m)
<1> SUFFICES ASSUME NEW i \in Live(n), NEW j \in Live(m), n.client[i] = m.client[j]
             PROVE  Follows(n, m, i, j)
  BY DEF Survives
<1>1. PICK k \in Live(n) : m.client[j] = n.client[k] /\ Follows(n, m, k, j)
  BY DEF Descends
<1>2. k = i
  BY <1>1 DEF Distinct
<1> QED  BY <1>1, <1>2

\* The end of a connection frees its account and leaves the others theirs.
LEMMA DisconnectTidy ==
    ASSUME NEW n, NEW s, NEW safe \in BOOLEAN, Tidy(n)
    PROVE  Tidy(Disconnect(n, s, safe)) /\ Shrinks(n, Disconnect(n, s, safe))
<1> DEFINE d == Disconnect(n, s, safe)
<1>1. CASE s \notin Live(n)
  BY <1>1, SelfDescends DEF Disconnect
<1>2. CASE s \in Live(n)
  <2>1. n \in NetRecords /\ d \in NetRecords
    BY DisconnectType DEF Tidy
  <2>2. /\ d.now = n.now - 1
        /\ \A j \in Live(d) : From(s, j) \in Live(n) \ {s} /\ SameSlot(n, d, From(s, j), j)
        /\ \A a \in Accounts : d.state[a] \in {n.state[a], "out"}
        /\ n.acctno[s] \in Accounts => d.state[n.acctno[s]] = "out"
    BY <1>2, <2>1, DisconnectFrame DEF SameSlot
  <2> HIDE DEF d
  <2>3. Shrinks(n, d)
    BY <2>2 DEF Shrinks
  <2>4. Fresh(d)
    BY <2>2 DEF Tidy, Fresh, SameSlot
  <2>5. ASSUME NEW i \in Live(n), i # s
        PROVE  \E j \in Live(d) : From(s, j) = i
    <3> DEFINE j == IF i < s THEN i ELSE i - 1
    <3>1. s \in Nat /\ i \in Nat /\ i < n.now /\ s < n.now /\ n.now \in Nat
      BY <1>2, <2>1 DEF Live, NetRecords
    <3>2. j \in 0 .. n.now - 2
      BY <3>1, <2>5
    <3>3. j \in Live(d)
      BY <2>2, <3>1, <3>2 DEF Live
    <3>4. From(s, j) = i
      BY <3>1, <2>5 DEF From
    <3> QED  BY <3>3, <3>4
  <2>6. Held(d)
    <3> SUFFICES ASSUME NEW a \in Accounts, d.state[a] # "out"
                 PROVE  \E j \in Live(d) : d.acctno[j] = a
      BY DEF Held
    <3>1. n.state[a] # "out" /\ n.acctno[s] # a
      BY <2>2
    <3>2. PICK i \in Live(n) : n.acctno[i] = a
      BY <3>1 DEF Tidy, Held
    <3>3. PICK j \in Live(d) : From(s, j) = i
      BY <2>5, <3>1, <3>2
    <3> QED  BY <2>2, <3>2, <3>3 DEF SameSlot
  <2> QED  BY <2>1, <2>3, <2>4, <2>6 DEF Tidy, d
<1> QED  BY <1>1, <1>2

\* A handler that changes what slot s has.
LEMMA SlotTidy ==
    ASSUME NEW n, NEW m \in NetRecords, Tidy(n), NEW s \in Live(n),
           m.now = n.now, m.client = n.client,
           \A i \in Live(n) \ {s} : /\ m.acctno[i] = n.acctno[i]
                                    /\ m.currchar[i] = n.currchar[i]
                                    /\ m.stage[i] = n.stage[i],
           m.stage[s] \notin {"new", "first"},
           m.stage[s] = "list" => m.currchar[s] = NoBody,
           n.acctno[s] # NoAcct => m.acctno[s] = n.acctno[s],
           m.currchar[s] \in {NoBody, n.currchar[s]} \/ n.currchar[s] = NoBody,
           \A a \in Accounts : m.state[a] \in {n.state[a], "out"} \/ m.acctno[s] = a
    PROVE  Tidy(m) /\ Descends(n, m)
<1>1. Live(m) = Live(n)
  BY DEF Live
<1>2. \A i \in Live(n) : Follows(n, m, i, i)
  BY DEF Follows
<1>3. Descends(n, m)
  BY <1>1, <1>2 DEF Descends
<1>4. Fresh(m)
  BY <1>1 DEF Tidy, Fresh
<1>5. Held(m)
  <2> SUFFICES ASSUME NEW a \in Accounts, m.state[a] # "out", m.acctno[s] # a
               PROVE  \E i \in Live(n) : m.acctno[i] = a
    BY <1>1 DEF Held
  <2>1. PICK i \in Live(n) : n.acctno[i] = a
    BY DEF Tidy, Held
  <2>2. i # s
    BY <2>1, NullAssumption
  <2> QED  BY <2>1, <2>2
<1> QED  BY <1>3, <1>4, <1>5 DEF Tidy

\* Without NPCs a character enters the game as itself.
LEMMA StartPlain ==
    ASSUME Npcs = {}, NEW n \in NetRecords, NEW s \in Slots, n.currchar[s] \in Bodies,
           alive \subseteq Bodies, possessed \in [Bodies -> Npcs \cup {NoBody}]
    PROVE  StartChar(n, s) = [n EXCEPT !.stage[s] = "game"]
<1>1. possessed[n.currchar[s]] \notin alive
  BY NullAssumption
<1> QED  BY <1>1 DEF StartChar

\* A login that kicks whoever holds the account.
LEMMA LoginTidy ==
    ASSUME NEW n, Tidy(n), NEW s \in Live(n), n.stage[s] = "first",
           NEW a \in Accounts, NEW safe \in BOOLEAN
    PROVE  Tidy(LoginMain(n, s, a, safe)) /\ Descends(n, LoginMain(n, s, a, safe))
<1> DEFINE m == [n EXCEPT !.acctno[s] = a, !.stage[s] = "login"]
           e == SetEntering(m, a)
           b == GetInWorld(m, a)
           k == Kick(m, b, safe)
           c == [k EXCEPT !.currchar[s] = NoBody]
<1>1. n \in NetRecords /\ s \in Slots /\ n.acctno[s] = NoAcct /\ Live(n) \subseteq Slots
  BY LiveIsSlot DEF Tidy, Fresh
<1>2. /\ m \in NetRecords /\ m.now = n.now /\ m.client = n.client
      /\ m.acctno = [n.acctno EXCEPT ![s] = a] /\ m.stage = [n.stage EXCEPT ![s] = "login"]
      /\ m.currchar = n.currchar /\ m.state = n.state
  BY <1>1 DEF NetRecords, Stages
<1> HIDE DEF m
<1>3. /\ m.acctno[s] = a /\ m.stage[s] = "login"
      /\ \A i \in Live(n) \ {s} : m.acctno[i] = n.acctno[i] /\ m.stage[i] = n.stage[i]
  <2>1. n.acctno \in [Slots -> Accounts \cup {NoAcct}] /\ n.stage \in [Slots -> Stages]
    BY <1>1 DEF NetRecords
  <2> QED  BY <1>1, <1>2, <2>1
<1>4. Tidy(m) /\ Descends(n, m)
  BY <1>1, <1>2, <1>3, SlotTidy
<1>5. Tidy(e) /\ Descends(n, e)
  <2>1. /\ e \in NetRecords /\ e.now = m.now /\ e.client = m.client /\ e.acctno = m.acctno
        /\ e.currchar = m.currchar /\ e.stage = m.stage
        /\ e.state = [m.state EXCEPT ![a] = "entering"]
    BY <1>2 DEF SetEntering, NetRecords
  <2>2. \A x \in Accounts : e.state[x] \in {n.state[x], "out"} \/ e.acctno[s] = x
    BY <1>1, <1>2, <1>3, <2>1 DEF NetRecords
  <2> HIDE DEF e
  <2>3. /\ e.now = n.now /\ e.client = n.client /\ e.currchar = n.currchar
        /\ e.stage[s] = "login"
        /\ \A i \in Live(n) \ {s} : e.acctno[i] = n.acctno[i] /\ e.stage[i] = n.stage[i]
    BY <1>2, <1>3, <2>1
  <2> QED  BY <1>1, <2>1, <2>2, <2>3, SlotTidy
<1>6. Tidy(k) /\ Shrinks(m, k)
  BY <1>4, DisconnectTidy, SelfDescends DEF Kick
<1>7. Descends(n, k)
  BY <1>4, <1>6, ShrinksFollows
<1> HIDE DEF k, e
<1>8. /\ c \in NetRecords /\ c.now = k.now /\ c.client = k.client /\ c.acctno = k.acctno
      /\ c.currchar = [k.currchar EXCEPT ![s] = NoBody] /\ c.stage = k.stage
      /\ c.state = k.state
  BY <1>1, <1>6 DEF Tidy, NetRecords
<1>9. \A j \in Live(k) : c.currchar[j] \in {NoBody, k.currchar[j]}
  <2>1. k.currchar \in [Slots -> Bodies \cup {NoBody}] /\ Live(k) \subseteq Slots
    BY <1>6, LiveIsSlot DEF Tidy, NetRecords
  <2> QED  BY <1>1, <1>8, <2>1
<1> HIDE DEF c
<1>10. Live(c) = Live(k)
  BY <1>8 DEF Live
<1>11. Tidy(c)
  <2>1. Held(c)
    BY <1>6, <1>8, <1>10 DEF Tidy, Held
  <2>2. Fresh(c)
    BY <1>6, <1>8, <1>9, <1>10 DEF Tidy, Fresh
  <2> QED  BY <1>8, <2>1, <2>2 DEF Tidy
<1>12. Descends(n, c)
  <2> SUFFICES ASSUME NEW j \in Live(k)
               PROVE  \E i \in Live(n) : c.client[j] = n.client[i] /\ Follows(n, c, i, j)
    BY <1>10 DEF Descends
  <2>1. PICK i \in Live(n) : k.client[j] = n.client[i] /\ Follows(n, k, i, j)
    BY <1>7 DEF Descends
  <2>2. Follows(n, c, i, j)
    BY <1>8, <1>9, <2>1 DEF Follows
  <2> QED  BY <1>8, <2>1, <2>2
<1>13. LoginMain(n, s, a, safe) \in {e, m, c}
  BY DEF LoginMain, m, e, c, k
<1> QED  BY <1>4, <1>5, <1>11, <1>12, <1>13

\* The character list is sent to the connection that logged in.
LEMMA ListTidy ==
    ASSUME NEW n, Tidy(n), NEW s \in Live(n), n.stage[s] = "first", NEW a \in Accounts
    PROVE  Tidy(CharList(n, s, a)) /\ Descends(n, CharList(n, s, a))
<1> DEFINE m == CharList(n, s, a)
<1>1. /\ n \in NetRecords /\ s \in Slots /\ Live(n) \subseteq Slots
      /\ n.acctno[s] = NoAcct /\ n.currchar[s] = NoBody
  BY LiveIsSlot DEF Tidy, Fresh
<1>2. /\ m \in NetRecords /\ m.now = n.now /\ m.client = n.client
      /\ m.acctno = [n.acctno EXCEPT ![s] = a] /\ m.stage = [n.stage EXCEPT ![s] = "list"]
      /\ m.currchar = n.currchar /\ m.state = [n.state EXCEPT ![a] = "entering"]
  BY <1>1 DEF CharList, SetEntering, NetRecords, Stages
<1> HIDE DEF m
<1>3. /\ m.acctno[s] = a /\ m.stage[s] = "list"
      /\ \A i \in Live(n) \ {s} : m.acctno[i] = n.acctno[i] /\ m.stage[i] = n.stage[i]
      /\ \A x \in Accounts : m.state[x] \in {n.state[x], "out"} \/ m.acctno[s] = x
  <2>1. /\ n.acctno \in [Slots -> Accounts \cup {NoAcct}] /\ n.stage \in [Slots -> Stages]
        /\ n.state \in [Accounts -> {"out", "entering", "ingame"}]
    BY <1>1 DEF NetRecords
  <2>2. /\ m.acctno[s] = a /\ m.stage[s] = "list"
        /\ \A i \in Live(n) \ {s} : m.acctno[i] = n.acctno[i] /\ m.stage[i] = n.stage[i]
    BY <1>1, <1>2, <2>1
  <2>3. \A x \in Accounts : x # a => m.state[x] = n.state[x]
    BY <1>2, <2>1
  <2> QED  BY <2>2, <2>3
<1>4. Tidy(m) /\ Descends(n, m)
  <2>1. m.currchar[s] = NoBody /\ n.acctno[s] = NoAcct /\ n.currchar[s] = NoBody
    BY <1>1, <1>2
  <2>2. /\ m.now = n.now /\ m.client = n.client /\ m.stage[s] \notin {"new", "first"}
        /\ \A i \in Live(n) \ {s} : /\ m.acctno[i] = n.acctno[i] /\ m.stage[i] = n.stage[i]
                                     /\ m.currchar[i] = n.currchar[i]
    BY <1>2, <1>3
  <2>3. n.acctno[s] # NoAcct => m.acctno[s] = n.acctno[s]
    BY <2>1
  <2>4. m.currchar[s] \in {NoBody, n.currchar[s]} \/ n.currchar[s] = NoBody
    BY <2>1
  <2>5. m \in NetRecords /\ \A x \in Accounts : m.state[x] \in {n.state[x], "out"} \/ m.acctno[s] = x
    BY <1>2, <1>3
  <2> QED  BY <2>1, <2>2, <2>3, <2>4, <2>5, SlotTidy
<1> QED  BY <1>4 DEF m

\* A refused connection has no account.
LEMMA RefuseTidy ==
    ASSUME NEW n, Tidy(n), NEW s \in Live(n), n.stage[s] = "first",
           NEW stage \in {"login", "list"}
    PROVE  Tidy(Refuse(n, s, stage)) /\ Descends(n, Refuse(n, s, stage))
<1> DEFINE m == Refuse(n, s, stage)
<1>1. n \in NetRecords /\ s \in Slots /\ Live(n) \subseteq Slots /\ n.acctno[s] = NoAcct
  BY LiveIsSlot DEF Tidy, Fresh
<1>2. /\ m \in NetRecords /\ m.now = n.now /\ m.client = n.client
      /\ m.acctno = [n.acctno EXCEPT ![s] = NoAcct] /\ m.stage = [n.stage EXCEPT ![s] = stage]
      /\ m.currchar = [n.currchar EXCEPT ![s] = NoBody] /\ m.state = n.state
  BY <1>1 DEF Refuse, NetRecords, Stages
<1> HIDE DEF m
<1>3. /\ m.stage[s] = stage /\ m.currchar[s] = NoBody
      /\ \A i \in Live(n) \ {s} : /\ m.acctno[i] = n.acctno[i] /\ m.stage[i] = n.stage[i]
                                  /\ m.currchar[i] = n.currchar[i]
  <2>1. /\ n.acctno \in [Slots -> Accounts \cup {NoAcct}] /\ n.stage \in [Slots -> Stages]
        /\ n.currchar \in [Slots -> Bodies \cup {NoBody}]
    BY <1>1 DEF NetRecords
  <2> QED  BY <1>1, <1>2, <2>1
<1>4. Tidy(m) /\ Descends(n, m)
  BY <1>1, <1>2, <1>3, SlotTidy
<1> QED  BY <1>4 DEF m

\* charplay(): the account is brought back by a slot that holds it.
LEMMA CharPlayTidy ==
    ASSUME Npcs = {}, NEW n, Tidy(n), NEW s \in Live(n), n.stage[s] = "list",
           NEW b \in Chars, Owner[b] = n.acctno[s], NEW safe \in BOOLEAN,
           alive \subseteq Bodies, possessed \in [Bodies -> Npcs \cup {NoBody}]
    PROVE  Tidy(CharPlay(n, s, b, safe)) /\ Descends(n, CharPlay(n, s, b, safe))
<1> DEFINE u == [n EXCEPT !.currchar[s] = NoBody]
           v == SetOffline(u, n.acctno[s])
           m == [v EXCEPT !.obj[b] = NoSlot]
           o == SetOnline(m, b)
           w == [o EXCEPT !.logout[b] = "none", !.currchar[s] = b, !.obj[b] = s]
           z == [w EXCEPT !.stage[s] = "game"]
<1>1. /\ n \in NetRecords /\ s \in Slots /\ b \in Bodies /\ Live(n) \subseteq Slots
      /\ n.currchar[s] = NoBody
  BY LiveIsSlot DEF Tidy, Fresh
<1>2. /\ u \in NetRecords /\ u.now = n.now /\ u.client = n.client /\ u.acctno = n.acctno
      /\ u.currchar = [n.currchar EXCEPT ![s] = NoBody] /\ u.stage = n.stage
      /\ u.state = n.state
  BY <1>1 DEF NetRecords
<1> HIDE DEF u
<1>3. /\ v \in NetRecords /\ v.now = n.now /\ v.client = n.client /\ v.acctno = n.acctno
      /\ v.currchar = [n.currchar EXCEPT ![s] = NoBody] /\ v.stage = n.stage
      /\ \A a \in Accounts : v.state[a] \in {n.state[a], "out"}
  BY <1>2, SetOfflineType, SetOfflineFrame
<1> HIDE DEF v
<1>4. /\ m \in NetRecords /\ m.now = v.now /\ m.client = v.client /\ m.acctno = v.acctno
      /\ m.currchar = v.currchar /\ m.stage = v.stage /\ m.state = v.state
  BY <1>1, <1>3 DEF NetRecords
<1> HIDE DEF m
<1>5. /\ n.currchar \in [Slots -> Bodies \cup {NoBody}] /\ n.stage \in [Slots -> Stages]
  BY <1>1 DEF NetRecords
<1>6. Tidy(m) /\ Descends(n, m)
  <2>1. /\ m.currchar[s] = NoBody
        /\ \A i \in Live(n) \ {s} : m.currchar[i] = n.currchar[i]
    BY <1>1, <1>3, <1>4, <1>5
  <2> QED  BY <1>1, <1>3, <1>4, <2>1, SlotTidy
<1>7. CASE Holders(m, b) # {}
  <2> DEFINE d == Disconnect(m, s, safe)
             e == Disconnect(d, FirstHolder(m, b), safe)
  <2>1. CharPlay(n, s, b, safe) = e
    BY <1>7 DEF CharPlay, m, v, u
  <2>2. Tidy(d) /\ Descends(n, d)
    BY <1>6, DisconnectTidy, ShrinksFollows
  <2> HIDE DEF d
  <2>3. Tidy(e) /\ Descends(n, e)
    BY <2>2, DisconnectTidy, ShrinksFollows
  <2> QED  BY <2>1, <2>3
<1>8. CASE Holders(m, b) = {}
  <2>1. CharPlay(n, s, b, safe) = StartChar(w, s)
    BY <1>8 DEF CharPlay, m, v, u
  <2>2. /\ o \in NetRecords /\ o.now = m.now /\ o.client = m.client /\ o.acctno = m.acctno
        /\ o.currchar = m.currchar /\ o.stage = m.stage
        /\ o.state = [m.state EXCEPT ![Owner[b]] = "ingame"]
    BY <1>4, SetOnlineType, SetOnlineFrame
  <2> HIDE DEF o
  <2>3. /\ w \in NetRecords /\ w.now = o.now /\ w.client = o.client /\ w.acctno = o.acctno
        /\ w.currchar = [o.currchar EXCEPT ![s] = b] /\ w.stage = o.stage
        /\ w.state = o.state
    BY <1>1, <2>2 DEF NetRecords
  <2> HIDE DEF w
  <2>4. w.currchar[s] = b
    BY <1>1, <2>2, <2>3 DEF NetRecords
  <2>5. StartChar(w, s) = z
    BY <1>1, <2>3, <2>4, StartPlain
  <2>6. /\ z \in NetRecords /\ z.now = w.now /\ z.client = w.client /\ z.acctno = w.acctno
        /\ z.currchar = w.currchar /\ z.stage = [w.stage EXCEPT ![s] = "game"]
        /\ z.state = w.state
    BY <1>1, <2>3 DEF NetRecords, Stages
  <2> HIDE DEF z
  <2>7. /\ z.stage[s] = "game" /\ z.acctno = n.acctno
        /\ \A i \in Live(n) \ {s} : z.currchar[i] = n.currchar[i] /\ z.stage[i] = n.stage[i]
    <3>1. /\ z.acctno = n.acctno /\ z.stage = [n.stage EXCEPT ![s] = "game"]
          /\ z.currchar = [[n.currchar EXCEPT ![s] = NoBody] EXCEPT ![s] = b]
      BY <1>3, <1>4, <2>2, <2>3, <2>6
    <3> QED  BY <1>1, <1>5, <3>1
  <2>8. \A a \in Accounts : z.state[a] \in {n.state[a], "out"} \/ z.acctno[s] = a
    <3>1. m.state \in [Accounts -> {"out", "entering", "ingame"}]
      BY <1>4 DEF NetRecords
    <3> QED  BY <1>3, <1>4, <2>2, <2>3, <2>6, <2>7, <3>1
  <2>9. Tidy(z) /\ Descends(n, z)
    <3>1. z \in NetRecords /\ z.now = n.now /\ z.client = n.client
      BY <1>3, <1>4, <2>2, <2>3, <2>6
    <3> QED  BY <1>1, <2>7, <2>8, <3>1, SlotTidy
  <2> QED  BY <2>1, <2>5, <2>9
<1> QED  BY <1>7, <1>8

\* A created character belongs to the account of its slot.
LEMMA CreateTidy ==
    ASSUME Npcs = {}, NEW n, Tidy(n), NEW s \in Live(n), n.stage[s] = "list",
           NEW b \in Chars,
           alive \subseteq Bodies, possessed \in [Bodies -> Npcs \cup {NoBody}]
    PROVE  LET c == StartChar([n EXCEPT !.currchar[s] = b, !.obj[b] = s], s)
           IN  Tidy(c) /\ Descends(n, c)
<1> DEFINE w == [n EXCEPT !.currchar[s] = b, !.obj[b] = s]
           z == [w EXCEPT !.stage[s] = "game"]
<1>1. /\ n \in NetRecords /\ s \in Slots /\ b \in Bodies /\ Live(n) \subseteq Slots
      /\ n.currchar[s] = NoBody
  BY LiveIsSlot DEF Tidy, Fresh
<1>2. /\ w \in NetRecords /\ w.now = n.now /\ w.client = n.client /\ w.acctno = n.acctno
      /\ w.currchar = [n.currchar EXCEPT ![s] = b] /\ w.stage = n.stage /\ w.state = n.state
  BY <1>1 DEF NetRecords
<1> HIDE DEF w
<1>3. /\ n.currchar \in [Slots -> Bodies \cup {NoBody}] /\ n.stage \in [Slots -> Stages]
  BY <1>1 DEF NetRecords
<1>4. StartChar(w, s) = z
  BY <1>1, <1>2, <1>3, StartPlain
<1>5. /\ z \in NetRecords /\ z.now = w.now /\ z.client = w.client /\ z.acctno = w.acctno
      /\ z.currchar = w.currchar /\ z.stage = [w.stage EXCEPT ![s] = "game"]
      /\ z.state = w.state
  BY <1>1, <1>2 DEF NetRecords, Stages
<1> HIDE DEF z
<1>6. /\ z.stage[s] = "game"
      /\ \A i \in Live(n) \ {s} : z.currchar[i] = n.currchar[i] /\ z.stage[i] = n.stage[i]
  BY <1>1, <1>2, <1>3, <1>5
<1>7. Tidy(z) /\ Descends(n, z)
  BY <1>1, <1>2, <1>5, <1>6, SlotTidy
<1> QED  BY <1>4, <1>7 DEF w

\* A step that opens no slot keeps the table tidy and lets it descend.
LEMMA PacketTidy ==
    ASSUME IInv, AInv, NEW s \in Live(net), Packet(s)
    PROVE  AInv' /\ Descends(net, net')
<1>1. /\ net \in NetRecords /\ Tidy(net) /\ Npcs = {} /\ s \in Slots
      /\ alive \subseteq Bodies /\ possessed \in [Bodies -> Npcs \cup {NoBody}]
      /\ pgs \in [Accounts -> SUBSET Chars]
  BY LiveIsSlot DEF IInv, TypeOK, AInv
<1>2. ASSUME Tidy(net'), Descends(net, net'), pgs' = pgs
      PROVE  AInv' /\ Descends(net, net')
  BY <1>2 DEF AInv, Listed
<1>3. Selecting(s) => net.stage[s] = "list" /\ net.acctno[s] \in Accounts
  BY <1>1 DEF Selecting, NetRecords
<1>4. CASE Seed(s)
  <2>1. /\ net' \in NetRecords /\ net'.now = net.now /\ net'.client = net.client
        /\ net'.acctno = net.acctno /\ net'.currchar = net.currchar
        /\ net'.stage = [net.stage EXCEPT ![s] = "first"] /\ net'.state = net.state
        /\ net.stage[s] = "new" /\ pgs' = pgs
    BY <1>1, <1>4 DEF Seed, NetRecords, Stages, World
  <2>2. Live(net') = Live(net) /\ Live(net) \subseteq Slots
    BY <1>1, <2>1, LiveIsSlot DEF Live
  <2>3. Held(net')
    BY <1>1, <2>1, <2>2 DEF Tidy, Held
  <2>4. Fresh(net')
    BY <1>1, <2>1, <2>2 DEF Tidy, Fresh, NetRecords
  <2>5. Descends(net, net')
    BY <2>1, <2>2 DEF Descends, Follows
  <2> QED  BY <1>2, <2>1, <2>3, <2>4, <2>5 DEF Tidy
<1>5. CASE Hangup(s)
  <2>1. PICK safe \in BOOLEAN : net' = Disconnect(net, s, safe)
    BY <1>5 DEF Hangup
  <2>2. Tidy(net') /\ Descends(net, net')
    BY <1>1, <2>1, DisconnectTidy, SelfDescends, ShrinksFollows
  <2> QED  BY <1>2, <1>5, <2>2 DEF Hangup, World
<1>6. CASE FirstLoginRequest(s)
  <2>1. Tidy(net') /\ Descends(net, net')
    BY <1>1, <1>6, LoginTidy, RefuseTidy DEF FirstLoginRequest
  <2> QED  BY <1>2, <1>6, <2>1 DEF FirstLoginRequest, World
<1>7. CASE LoginRequest(s)
  <2>1. Tidy(net') /\ Descends(net, net')
    BY <1>1, <1>7, ListTidy, RefuseTidy DEF LoginRequest
  <2> QED  BY <1>2, <1>7, <2>1 DEF LoginRequest, World
<1>8. CASE CharacterSelect(s)
  <2>1. PICK b \in pgs[net.acctno[s]] \cap alive, safe \in BOOLEAN :
           net' = CharPlay(net, s, b, safe)
    BY <1>8 DEF CharacterSelect
  <2>2. net.stage[s] = "list" /\ b \in Chars /\ Owner[b] = net.acctno[s]
    BY <1>1, <1>3, <1>8, <2>1 DEF CharacterSelect, AInv, Listed
  <2>3. Tidy(net') /\ Descends(net, net')
    BY <1>1, <2>1, <2>2, CharPlayTidy
  <2> QED  BY <1>2, <1>8, <2>3 DEF CharacterSelect, World
<1>9. CASE CreateCharacter(s)
  <2> DEFINE a == net.acctno[s]
  <2>1. a \in Accounts /\ net.stage[s] = "list"
    BY <1>3, <1>9 DEF CreateCharacter
  <2>2. CASE Cardinality(pgs[a]) >= RoleLimit
    <3>1. net' = Disconnect(net, s, FALSE) /\ pgs' = pgs
      BY <1>9, <2>2 DEF CreateCharacter, World
    <3>2. Tidy(net') /\ Descends(net, net')
      BY <1>1, <3>1, DisconnectTidy, SelfDescends, ShrinksFollows
    <3> QED  BY <1>2, <3>1, <3>2
  <2>3. CASE ~ (Cardinality(pgs[a]) >= RoleLimit)
    <3>1. PICK b \in Chars :
             /\ Owner[b] = a
             /\ net' = StartChar([net EXCEPT !.currchar[s] = b, !.obj[b] = s], s)
             /\ pgs' = [pgs EXCEPT ![a] = @ \cup {b}]
      BY <1>9, <2>3 DEF CreateCharacter
    <3>2. Tidy(net') /\ Descends(net, net')
      BY <1>1, <2>1, <3>1, CreateTidy
    <3>3. Listed'
      BY <1>1, <2>1, <3>1 DEF AInv, Listed
    <3> QED  BY <1>1, <3>2, <3>3 DEF AInv
  <2> QED  BY <2>2, <2>3
<1>10. CASE DeleteCharacter(s)
  <2>1. PICK b \in pgs[net.acctno[s]] \cap alive : net' = [net EXCEPT !.logout[b] = "none"]
    BY <1>10 DEF DeleteCharacter
  <2>2. /\ net' \in NetRecords /\ net'.now = net.now /\ net'.client = net.client
        /\ net'.acctno = net.acctno /\ net'.currchar = net.currchar
        /\ net'.stage = net.stage /\ net'.state = net.state /\ pgs' = pgs
    BY <1>1, <1>10, <2>1 DEF DeleteCharacter, NetRecords
  <2>3. Live(net') = Live(net)
    BY <2>2 DEF Live
  <2>4. Held(net') /\ Fresh(net') /\ Descends(net, net')
    BY <1>1, <2>2, <2>3 DEF Tidy, Held, Fresh, Descends, Follows
  <2> QED  BY <1>2, <2>2, <2>4 DEF Tidy
<1>11. ~ Possess(s)
  BY <1>1 DEF Possess
<1>12. ~ SwitchBack(s)
  <2> SUFFICES ASSUME SwitchBack(s) PROVE FALSE
    OBVIOUS
  <2> DEFINE p == net.currchar[s]
             b == possessor[p]
  <2>1. p \in alive /\ b \in alive
    BY DEF SwitchBack
  <2>2. possessed[b] = p
    BY <1>1, <2>1 DEF IInv, WorldOK
  <2> QED  BY <1>1, <2>1, <2>2, NullAssumption
<1> QED  BY <1>4, <1>5, <1>6, <1>7, <1>8, <1>9, <1>10, <1>11, <1>12 DEF Packet

\* A new connection has neither account nor character.
LEMMA CheckConnTidy ==
    ASSUME IInv, AInv, NEW fd \in Fds, CheckConn(fd)
    PROVE  AInv' /\ Survives(net, net')
<1> DEFINE k == net.now
<1>1. /\ net \in NetRecords /\ Tidy(net) /\ k \in Slots /\ k \in Nat /\ k < MaxClients
      /\ Live(net) \subseteq Slots /\ Distinct(net)
  <2>1. net \in NetRecords /\ k < MaxClients /\ Tidy(net) /\ Distinct(net)
    BY DEF IInv, TypeOK, NetInv, TableOK, CheckConn, AInv
  <2>2. k \in Slots /\ k \in Nat
    BY <2>1, MaxClientsAssumption DEF NetRecords
  <2> QED  BY <2>1, <2>2, LiveIsSlot
<1>2. /\ net'.now = k + 1
      /\ net'.client = [net.client EXCEPT ![k] = fd]
      /\ net'.acctno = [net.acctno EXCEPT ![k] = NoAcct]
      /\ net'.currchar = [net.currchar EXCEPT ![k] = NoBody]
      /\ net'.stage = [net.stage EXCEPT ![k] = "new"]
      /\ net'.state = net.state /\ net' \in NetRecords
  <2>1. k + 1 \in 0 .. MaxClients
    BY <1>1, MaxClientsAssumption
  <2> QED  BY <1>1, <2>1 DEF CheckConn, NetRecords, Stages
<1>3. /\ Live(net') = Live(net) \cup {k} /\ k \notin Live(net)
      /\ \A i \in Live(net) : SameSlot(net, net', i, i)
      /\ net'.client[k] = fd /\ net'.acctno[k] = NoAcct /\ net'.currchar[k] = NoBody
  <2>1. Live(net') = Live(net) \cup {k} /\ k \notin Live(net)
    BY <1>1, <1>2 DEF Live
  <2> QED  BY <1>1, <1>2, <2>1 DEF NetRecords, SameSlot
<1>4. Held(net') /\ Fresh(net')
  BY <1>1, <1>2, <1>3 DEF Tidy, Held, Fresh, SameSlot
<1>5. Survives(net, net')
  <2>1. \A i \in Live(net) : net.client[i] # fd
    BY DEF CheckConn, LiveFds
  <2>2. \A i, j \in Live(net) : net.client[i] = net.client[j] => i = j
    BY <1>1 DEF Distinct
  <2> QED  BY <1>3, <2>1, <2>2 DEF Survives, Follows, SameSlot
<1> QED  BY <1>2, <1>4, <1>5 DEF AInv, Tidy, Listed, CheckConn, World

\* Every step, and what survives it.
LEMMA NextAInv == IInv /\ AInv /\ [Next]_vars => AInv' /\ Survives(net, net')
<1> SUFFICES ASSUME IInv, AInv, [Next]_vars PROVE AInv' /\ Survives(net, net')
  OBVIOUS
<1>1. net \in NetRecords /\ Tidy(net) /\ Distinct(net)
  BY DEF IInv, TypeOK, NetInv, TableOK, AInv
<1>2. CASE \E fd \in Fds : CheckConn(fd)
  BY <1>2, CheckConnTidy
<1>3. CASE \E s \in Live(net) : Packet(s)
  BY <1>1, <1>3, PacketTidy, DescendsSurvives
<1>4. CASE ReloadAccounts
  <2>1. /\ net' \in NetRecords /\ net'.now = net.now /\ net'.client = net.client
        /\ net'.acctno = net.acctno /\ net'.currchar = net.currchar
        /\ net'.stage = net.stage /\ \A a \in Accounts : net'.state[a] = "out"
        /\ pgs' = [a \in Accounts |-> {}]
    BY <1>1, <1>4 DEF ReloadAccounts, InitNet, NetRecords
  <2>2. Live(net') = Live(net)
    BY <2>1 DEF Live
  <2>3. Held(net') /\ Fresh(net') /\ Descends(net, net')
    BY <1>1, <2>1, <2>2 DEF Tidy, Held, Fresh, Descends, Follows
  <2>4. Listed'
    BY <2>1 DEF Listed
  <2> QED  BY <1>1, <2>1, <2>3, <2>4, DescendsSurvives DEF AInv, Tidy
<1>5. CASE Restart
  <2>1. net' = InitNet /\ pgs' = LoadedChars(alive)
    BY <1>5 DEF Restart
  <2>2. /\ InitNet \in NetRecords /\ InitNet.now = 0
        /\ \A a \in Accounts : InitNet.state[a] = "out"
    BY MaxClientsAssumption DEF InitNet, NetRecords, Stages
  <2>3. Live(net') = {}
    BY <2>1, <2>2 DEF Live
  <2>4. Held(net') /\ Fresh(net') /\ Survives(net, net')
    BY <2>1, <2>2, <2>3 DEF Held, Fresh, Survives
  <2>5. Listed'
    BY <2>1 DEF Listed, LoadedChars
  <2> QED  BY <2>1, <2>2, <2>4, <2>5 DEF AInv, Tidy
<1>6. CASE UNCHANGED vars
  <2>1. net' = net /\ pgs' = pgs
    BY <1>6 DEF vars
  <2> QED  BY <1>1, <2>1, SelfDescends, DescendsSurvives DEF AInv, Listed
<1> QED  BY <1>2, <1>3, <1>4, <1>5, <1>6 DEF Next

\* At the start no account is in use.
LEMMA InitAInv == Init /\ Npcs = {} => AInv
<1> SUFFICES ASSUME Init, Npcs = {} PROVE AInv
  OBVIOUS
<1>1. /\ net \in NetRecords /\ net.now = 0 /\ \A a \in Accounts : net.state[a] = "out"
  BY MaxClientsAssumption DEF Init, InitNet, NetRecords, Stages
<1>2. Live(net) = {}
  BY <1>1 DEF Live
<1>3. Held(net) /\ Fresh(net)
  BY <1>1, <1>2 DEF Held, Fresh
<1>4. Listed
  BY DEF Init, Listed, LoadedChars
<1> QED  BY <1>1, <1>3, <1>4 DEF AInv, Tidy

\* Without possession no account stays in use after the connection that holds
\* it has ended, whichever of the handlers that set and clear the state word
\* came in between.
THEOREM NobodyLockedOut == Spec /\ Npcs = {} => []NoLockedAccount
<1>1. AInv => NoLockedAccount
  BY DEF AInv, Tidy, Held, NoLockedAccount
<1> QED  BY <1>1, Inductive, InitAInv, NextAInv, PTL DEF Spec

\* Without possession no step gives a connection the account or the character
\* of another one, whatever it closes.
THEOREM SessionsSurvive == Spec /\ Npcs = {} => SurvivorsKeepSession
<1>1. IInv /\ AInv /\ [Next]_vars =>
        [ \A i \in Live(net), j \in Live(net') :
            net.client[i] = net'.client[j] =>
              /\ net.acctno[i] # NoAcct => net'.acctno[j] = net.acctno[i]
              /\ net'.currchar[j] \in {NoBody, net.currchar[i]} \/ net.currchar[i] = NoBody ]_vars
  BY NextAInv DEF Survives, Follows
<1> QED  BY <1>1, Inductive, InitAInv, NextAInv, PTL DEF Spec, SurvivorsKeepSession

=============================================================================
