--------------------------- MODULE PollLoopProofs ---------------------------
(***************************************************************************)
(* The loop variables and descriptor sets of the main loop stay in their   *)
(* ranges, and GetMsg() finds the input select() promised, for any size of *)
(* the table and of a batch.  The second needs to know what the test       *)
(* oldnow==now is worth (Walk): a table that has as many connections as    *)
(* when select() was called is the same table, since closing a slot always *)
(* makes it smaller and CheckConn() comes between two calls only.          *)
(***************************************************************************)
EXTENDS PollLoop, TLAPS

\* A table of n connections with handles of their own.
Good(n, c) ==
    /\ n \in 0 .. MaxClients
    /\ c \in [Slots -> Fds \cup {NoFd}]
    /\ \A s \in 0 .. n - 1 : c[s] \in Fds
    /\ \A r, s \in 0 .. n - 1 : c[r] = c[s] => r = s

\* What connections may leave of the table t.
Remains(t, u) ==
    /\ Good(u[1], u[2])
    /\ u[1] <= t[1]
    /\ u[1] = t[1] => u[2] = t[2]

\* The slots the loop has still to look at hold what select() found readable,
\* unless some connection has gone since.
Walk ==
    /\ lp <= Loops
    /\ pc \in {"select", "serve"} => now <= oldnow
    /\ pc = "serve" =>
          /\ i < Bound
          /\ now = oldnow => \A s \in i .. Bound - 1 : client[s] \in all => client[s] \in ready

Inv == TypeOK /\ Good(now, client) /\ Walk

-----------------------------------------------------------------------------
(* Batches.                                                                *)

\* Quotient and remainder: what is before the last batch fits.
LEMMA Division ==
    ASSUME NEW n \in Nat, NEW b \in Nat \ {0}
    PROVE  /\ n \div b \in 0 .. n
           /\ \A l \in Nat : l < n \div b => b <= n
<1> DEFINE q == n \div b
<1>1. q \in Int /\ 0 <= q /\ b * q <= n
  BY Z3
<1>2. \A l \in Nat : l < q => b <= n
  BY <1>1, Z3
<1>3. q <= n
  BY <1>1, Z3
<1> QED
  BY <1>1, <1>2, <1>3

\* A batch lies within the table CheckMessage() found.
LEMMA BatchInTable ==
    ASSUME TypeOK, lp <= Loops
    PROVE  /\ Loops \in 0 .. oldnow /\ First \in Nat /\ Bound \in 0 .. oldnow
           /\ MaxClients \in Nat /\ oldnow \in Nat /\ lp \in Nat /\ i \in Nat
<1>1. MaxClients \in Nat /\ oldnow \in Nat /\ lp \in Nat /\ i \in Nat /\ Batch \in Nat \ {0}
  BY SizesAssumption DEF TypeOK
<1>2. Loops \in 0 .. oldnow /\ (lp < Loops => Batch <= oldnow)
  BY <1>1, Division DEF Loops
<1>3. First \in Nat
  BY <1>1, Z3 DEF First
<1> QED
  BY <1>1, <1>2, <1>3 DEF Bound

-----------------------------------------------------------------------------
(* Closing slots.                                                          *)

\* Closing any slot leaves a smaller table, or the same (Disconnect).
LEMMA ClosedRemains ==
    ASSUME NEW t, Good(t[1], t[2]), NEW s \in Int
    PROVE  Remains(t, Closed(t, s))
<1> DEFINE n == t[1]
           c == t[2]
           d == [j \in Slots |-> IF s <= j /\ j < n - 1 THEN c[j + 1] ELSE c[j]]
<1>1. MaxClients \in Nat /\ n \in Int /\ 0 <= n /\ n <= MaxClients
  BY SizesAssumption DEF Good
<1>2. CASE s \notin 0 .. n - 1
  BY <1>2, <1>1 DEF Closed, Remains
<1>3. CASE s \in 0 .. n - 1
  <2>1. Closed(t, s) = <<n - 1, d>>
    BY <1>3 DEF Closed
  <2>2. n - 1 \in 0 .. MaxClients
    BY <1>1, <1>3
  <2>3. \A j \in 0 .. n - 2 : d[j] = IF s <= j THEN c[j + 1] ELSE c[j]
    BY <1>1 DEF Slots
  <2>4. d \in [Slots -> Fds \cup {NoFd}]
    <3>1. \A j \in Slots : j < n - 1 => j + 1 \in Slots
      BY <1>1 DEF Slots
    <3> QED
      BY <3>1 DEF Good
  <2>5. \A j \in 0 .. n - 2 : d[j] \in Fds
    BY <2>3, <1>1 DEF Good
  <2>6. \A j, k \in 0 .. n - 2 : d[j] = d[k] => j = k
    <3> SUFFICES ASSUME NEW j \in 0 .. n - 2, NEW k \in 0 .. n - 2, d[j] = d[k]
                 PROVE  j = k
      OBVIOUS
    <3> DEFINE J == IF s <= j THEN j + 1 ELSE j
               K == IF s <= k THEN k + 1 ELSE k
    <3>1. J \in 0 .. n - 1 /\ K \in 0 .. n - 1
      BY <1>1
    <3>2. c[J] = c[K]
      BY <2>3
    <3>3. J = K
      BY <3>1, <3>2 DEF Good
    <3> QED
      BY <3>3, <1>1
  <2> HIDE DEF d
  <2>7. Good(n - 1, d)
    <3>1. (n - 1) - 1 = n - 2
      BY <1>1
    <3> QED
      BY <2>2, <2>4, <2>5, <2>6, <3>1 DEF Good
  <2> QED
    BY <2>1, <2>7, <1>1 DEF Remains
<1> QED
  BY <1>2, <1>3

\* Two changes of the table one after the other are one.
LEMMA RemainsTransitive ==
    ASSUME NEW t, NEW u, NEW v, Good(t[1], t[2]), Remains(t, u), Remains(u, v)
    PROVE  Remains(t, v)
BY SizesAssumption DEF Remains, Good

\* GetMsg() closes connections, and opens none.
LEMMA MessagesRemain ==
    ASSUME NEW t, Good(t[1], t[2]), NEW s \in Int, NEW u \in MessageTables(t, s)
    PROVE  Remains(t, u)
<1>1. Remains(t, t)
  BY SizesAssumption DEF Remains, Good
<1>2. \A k \in Int : Remains(t, Closed(t, k))
  BY ClosedRemains
<1>3. \A k \in Int : Remains(t, Closed(Closed(t, s), k))
  <2> TAKE k \in Int
  <2> DEFINE v == Closed(t, s)
  <2>1. Remains(t, v)
    BY <1>2
  <2>2. Good(v[1], v[2])
    BY <2>1 DEF Remains
  <2> HIDE DEF v
  <2>3. Remains(v, Closed(v, k))
    BY <2>2, ClosedRemains
  <2>4. Remains(t, Closed(v, k))
    BY <2>1, <2>3, RemainsTransitive
  <2> QED
    BY <2>4 DEF v
<1>4. 0 .. t[1] - 1 \subseteq Int
  OBVIOUS
<1> QED
  BY <1>1, <1>2, <1>3, <1>4 DEF MessageTables

\* The table after the test of errsock.
LEMMA AfterErrorRemains ==
    ASSUME Inv
    PROVE  Remains(table, AfterError) /\ Good(table[1], table[2])
<1>1. table[1] = now /\ table[2] = client /\ i \in Int
  BY DEF table, Inv, TypeOK
<1>2. Good(table[1], table[2])
  BY <1>1 DEF Inv
<1>3. Remains(table, table)
  BY <1>1, <1>2, SizesAssumption DEF Remains, Good
<1> QED
  BY <1>1, <1>2, <1>3, ClosedRemains DEF AfterError

-----------------------------------------------------------------------------
(* Steps.                                                                  *)

\* A new table and the sets of those it still has are well typed.
LEMMA TableTyped ==
    ASSUME NEW t, Good(t[1], t[2]), NEW heard, NEW asked, Install(t), Forget(t, heard, asked)
    PROVE  /\ Good(now', client') /\ now' \in 0 .. MaxClients
           /\ client' \in [Slots -> Fds \cup {NoFd}]
           /\ login' \subseteq LiveFds' /\ ready' \subseteq LiveFds'
           /\ urgent' \subseteq LiveFds' /\ idle' \subseteq LiveFds'
<1>1. LiveFds' = Handles(t)
  BY DEF Install, LiveFds, Live, Handles
<1> QED
  BY <1>1 DEF Install, Forget, Good

\* The end of a batch leaves the loop, or goes on to one that exists.
LEMMA NextBatchKeeps ==
    ASSUME Inv, pc \in {"select", "serve"}, NextBatch, now' \in Int, now' <= now
    PROVE  /\ Walk' /\ pc' \in Places
           /\ i' \in 0 .. MaxClients /\ lp' \in 0 .. MaxClients /\ oldnow' \in 0 .. MaxClients
           /\ all' \subseteq Fds /\ errsock' \subseteq Fds
<1>1. Loops \in 0 .. oldnow /\ oldnow \in 0 .. MaxClients /\ MaxClients \in Nat /\ lp \in Nat
  BY BatchInTable DEF Inv, Walk, TypeOK
<1>2. now \in Int /\ now <= oldnow
  BY SizesAssumption DEF Inv, TypeOK, Walk
<1>3. CASE lp < Loops
  <2>1. pc' = "select" /\ lp' = lp + 1 /\ i' = 0 /\ all' = {} /\ errsock' = {} /\ oldnow' = oldnow
    BY <1>3 DEF NextBatch
  <2>2. Loops' = Loops
    BY <2>1 DEF Loops
  <2> QED
    BY <2>1, <2>2, <1>1, <1>2, <1>3 DEF Walk, Places, Inv, TypeOK
<1>4. CASE ~ (lp < Loops)
  <2>1. pc' = "loop" /\ lp' = 0 /\ i' = 0 /\ all' = {} /\ errsock' = {} /\ oldnow' = 0
    BY <1>4 DEF NextBatch
  <2>2. Loops' \in 0 .. 0
    BY <2>1, Division, SizesAssumption DEF Loops
  <2> QED
    BY <2>1, <2>2, <1>1 DEF Walk, Places
<1> QED
  BY <1>3, <1>4

\* The end of a turn: what GetMsg() has heard of is the slot it was called for.
LEMMA AdvanceKeeps ==
    ASSUME Inv, pc = "serve", NEW flagged \in SUBSET all, Advance(flagged),
           NEW t, Remains(table, t), NEW heard, NEW asked,
           Install(t), Forget(t, heard, asked),
           heard \cap {client[s] : s \in i + 1 .. Bound - 1} = {} \/ t[1] < now
    PROVE  Inv'
<1>1. /\ Good(t[1], t[2]) /\ t[1] <= now /\ (t[1] = now => t[2] = client)
      /\ now' = t[1] /\ client' = t[2]
  BY DEF Remains, table, Install
<1>2. /\ Good(now', client') /\ now' \in 0 .. MaxClients
      /\ client' \in [Slots -> Fds \cup {NoFd}]
      /\ login' \subseteq LiveFds' /\ ready' \subseteq LiveFds'
      /\ urgent' \subseteq LiveFds' /\ idle' \subseteq LiveFds'
  BY <1>1, TableTyped
<1>3. CASE NextBatch
  BY <1>1, <1>2, <1>3, NextBatchKeeps, SizesAssumption DEF Inv, TypeOK
<1>4. CASE /\ i + 1 < Bound /\ i' = i + 1 /\ all' = flagged
           /\ UNCHANGED <<pc, lp, oldnow, errsock>>
  <2>1. /\ Loops \in 0 .. oldnow /\ Bound \in 0 .. oldnow /\ MaxClients \in Nat
        /\ oldnow \in 0 .. MaxClients /\ i \in Nat
        /\ Loops' = Loops /\ Bound' = Bound
    <3>1. Loops' = Loops
      BY <1>4 DEF Loops
    <3> QED
      BY <3>1, <1>4, BatchInTable DEF Inv, Walk, TypeOK, Bound
  <2>2. now \in Int /\ now <= oldnow /\ now' \in Int /\ now' <= now
    BY <1>1, <1>2, SizesAssumption DEF Inv, TypeOK, Walk
  <2>3. TypeOK'
    BY <1>2, <1>4, <2>1 DEF Inv, TypeOK
  <2>4. now' = oldnow' => \A s \in i' .. Bound' - 1 : client'[s] \in all' => client'[s] \in ready'
    <3> SUFFICES ASSUME now' = oldnow', NEW s \in i' .. Bound' - 1, client'[s] \in all'
                 PROVE  client'[s] \in ready'
      OBVIOUS
    <3>1. now' = now /\ now = oldnow /\ client' = client /\ t[1] = now
      <4>1. now' = oldnow
        BY <1>4
      <4>2. now' = now /\ now = oldnow
        BY <4>1, <2>1, <2>2
      <4> QED
        BY <4>2, <1>1
    <3>2. s \in i + 1 .. Bound - 1 /\ s \in i .. Bound - 1 /\ s \in 0 .. now - 1
      BY <1>4, <2>1, <3>1
    <3>3. client[s] \in all
      BY <1>4, <3>1
    <3>4. client[s] \in ready
      BY <3>1, <3>2, <3>3 DEF Inv, Walk
    <3>5. client[s] \notin heard
      BY <3>1, <3>2, <2>2
    <3>6. client[s] \in Handles(t)
      BY <1>1, <3>1, <3>2 DEF Handles
    <3> QED
      BY <3>1, <3>4, <3>5, <3>6 DEF Forget
  <2>5. Walk'
    BY <1>4, <2>1, <2>2, <2>4 DEF Inv, Walk
  <2> QED
    BY <1>2, <2>3, <2>5 DEF Inv
<1> QED
  BY <1>3, <1>4 DEF Advance

\* What GetMsg() hears of in slot i is not in a slot after it.
LEMMA HeardOnce ==
    ASSUME Inv, pc = "serve", AfterError[1] = oldnow
    PROVE  {AfterError[2][i]} \cap {client[s] : s \in i + 1 .. Bound - 1} = {}
<1>1. Bound \in 0 .. oldnow /\ oldnow \in Nat /\ i \in Nat
  BY BatchInTable DEF Inv, Walk
<1>2. AfterError[1] <= now /\ (AfterError[1] = now => AfterError[2] = client)
  BY AfterErrorRemains DEF Remains, table
<1>3. now \in Int /\ now <= oldnow /\ i < Bound
  BY SizesAssumption DEF Inv, TypeOK, Walk
<1>4. AfterError[2] = client /\ now = oldnow
  BY <1>2, <1>3, <1>1
<1>5. \A s \in i + 1 .. Bound - 1 : client[i] # client[s]
  BY <1>1, <1>3, <1>4 DEF Inv, Good
<1> QED
  BY <1>4, <1>5

\* A connection is made or a packet arrives.
LEMMA ClientIsGood ==
    ASSUME Inv, NEW f \in Fds, Client(f)
    PROVE  Inv'
<1>1. UNCHANGED <<table, loop>> /\ ready \subseteq ready'
  BY DEF Client, Send, SendUrgent, FallIdle
<1>2. UNCHANGED <<now, client, pc, i, lp, oldnow, all, errsock>>
  BY <1>1 DEF table, loop
<1>3. LiveFds' = LiveFds /\ Loops' = Loops /\ Bound' = Bound
  BY <1>2 DEF LiveFds, Live, Loops, Bound
<1>4. TypeOK'
  BY <1>2, <1>3 DEF Client, Send, SendUrgent, FallIdle, Inv, TypeOK
<1>5. Walk'
  BY <1>1, <1>2, <1>3 DEF Inv, Walk
<1> QED
  BY <1>2, <1>4, <1>5 DEF Inv

\* A new connection gets a slot, or is refused (CheckConn).
LEMMA CheckConnIsGood ==
    ASSUME Inv, NEW f \in Fds, CheckConn(f)
    PROVE  Inv'
<1> DEFINE c == [client EXCEPT ![now] = f]
<1>1. /\ now' = now + 1 /\ client' = c /\ pc' = "poll" /\ login' = login \cup {f}
      /\ UNCHANGED <<ready, urgent, idle, i, lp, oldnow, all, errsock>>
      /\ now < MaxClients /\ f \notin LiveFds
  BY DEF CheckConn, Install
<1>2. now \in 0 .. MaxClients - 1 /\ MaxClients \in Nat /\ now \in Slots
  BY <1>1, SizesAssumption DEF Inv, TypeOK, Slots
<1>3. \A s \in 0 .. now : c[s] = IF s = now THEN f ELSE client[s]
  BY <1>2 DEF Inv, TypeOK, Slots
<1>4. Good(now + 1, c)
  <2>1. (now + 1) - 1 = now /\ now + 1 \in 0 .. MaxClients
    BY <1>2
  <2>2. c \in [Slots -> Fds \cup {NoFd}]
    BY <1>2 DEF Inv, TypeOK
  <2>3. \A s \in 0 .. now : s # now => s \in 0 .. now - 1
    BY <1>2
  <2>4. \A s \in 0 .. now - 1 : client[s] \in Fds /\ client[s] # f
    BY <1>1 DEF Inv, Good, LiveFds, Live
  <2>5. \A r, s \in 0 .. now : c[r] = c[s] => r = s
    BY <1>3, <2>3, <2>4 DEF Inv, Good
  <2>6. \A s \in 0 .. now : c[s] \in Fds
    BY <1>3, <2>3, <2>4
  <2> QED
    BY <2>1, <2>2, <2>5, <2>6 DEF Good
<1>5. LiveFds' = LiveFds \cup {f}
  <2>1. LiveFds' = {c[s] : s \in 0 .. now}
    <3>1. (now + 1) - 1 = now
      BY <1>2
    <3> QED
      BY <1>1, <3>1 DEF LiveFds, Live
  <2>2. \A s \in 0 .. now : s = now \/ s \in 0 .. now - 1
    BY <1>2
  <2>3. 0 .. now - 1 \subseteq 0 .. now /\ now \in 0 .. now /\ now \notin 0 .. now - 1
    BY <1>2
  <2> HIDE DEF c
  <2> QED
    BY <1>3, <2>1, <2>2, <2>3 DEF LiveFds, Live
<1>6. Loops' = Loops
  BY <1>1 DEF Loops
<1> HIDE DEF c
<1>7. TypeOK'
  BY <1>1, <1>4, <1>5 DEF Inv, TypeOK, Good, Places
<1>8. Walk'
  BY <1>1, <1>6 DEF Inv, Walk
<1> QED
  BY <1>1, <1>4, <1>7, <1>8 DEF Inv

\* One slot of the sweep over idle players.
LEMMA SweepSlotIsGood ==
    ASSUME Inv, SweepSlot
    PROVE  Inv'
<1> DEFINE t == IF client[i] \in idle THEN Closed(table, i) ELSE table
<1>1. /\ pc = "sweep" /\ i < now /\ Install(t) /\ Forget(t, {}, {})
      /\ i' = i + 1 /\ UNCHANGED <<pc, lp, oldnow, all, errsock>>
  BY DEF SweepSlot
<1>2. table[1] = now /\ table[2] = client /\ i \in Int
  BY DEF table, Inv, TypeOK
<1>3. Good(t[1], t[2])
  BY <1>2, ClosedRemains DEF Inv, Remains
<1> HIDE DEF t
<1>4. /\ Good(now', client') /\ now' \in 0 .. MaxClients
      /\ client' \in [Slots -> Fds \cup {NoFd}]
      /\ login' \subseteq LiveFds' /\ ready' \subseteq LiveFds'
      /\ urgent' \subseteq LiveFds' /\ idle' \subseteq LiveFds'
  BY <1>1, <1>3, TableTyped
<1>5. i' \in 0 .. MaxClients
  BY <1>1, SizesAssumption DEF Inv, TypeOK
<1>6. Walk'
  <2>1. Loops' = Loops
    BY <1>1 DEF Loops
  <2> QED
    BY <1>1, <2>1 DEF Inv, Walk
<1> QED
  BY <1>1, <1>4, <1>5, <1>6 DEF Inv, TypeOK

\* The select() of a batch sees the table as it is.
LEMMA SelectBatchIsGood ==
    ASSUME Inv, SelectBatch
    PROVE  Inv'
<1> DEFINE asked == {client[s] : s \in First .. Bound - 1}
<1>1. pc = "select" /\ UNCHANGED <<now, client, login, ready, urgent, idle>>
  BY DEF SelectBatch, table, peers
<1>2. LiveFds' = LiveFds /\ Good(now, client)' /\ now' <= now
  BY <1>1, SizesAssumption DEF LiveFds, Live, Inv, TypeOK
<1>3. CASE NextBatch
  BY <1>1, <1>2, <1>3, NextBatchKeeps, SizesAssumption DEF Inv, TypeOK
<1>4. CASE /\ asked \cap (ready \cup urgent) # {}
           /\ pc' = "serve" /\ i' = First
           /\ all' = asked \cap ready /\ errsock' = asked \cap urgent
           /\ UNCHANGED <<lp, oldnow>>
  <2>1. /\ First \in Nat /\ Bound \in 0 .. oldnow /\ oldnow \in 0 .. MaxClients
        /\ MaxClients \in Nat
    BY BatchInTable DEF Inv, Walk, TypeOK
  <2>2. First < Bound
    BY <1>4, <2>1
  <2>3. LiveFds \subseteq Fds
    BY DEF LiveFds, Live, Inv, Good
  <2>4. First \in 0 .. MaxClients
    BY <2>1, <2>2
  <2>5. Loops' = Loops /\ Bound' = Bound
    BY <1>4 DEF Loops, Bound
  <2>6. all' \subseteq Fds /\ errsock' \subseteq Fds
    BY <1>4, <2>3 DEF Inv, TypeOK
  <2> HIDE DEF asked
  <2>7. TypeOK'
    BY <1>1, <1>2, <1>4, <2>4, <2>6 DEF Inv, TypeOK, Places
  <2>8. Walk'
    BY <1>1, <1>4, <2>2, <2>5 DEF Inv, Walk, asked
  <2> QED
    BY <1>2, <2>7, <2>8 DEF Inv
<1> QED
  BY <1>3, <1>4 DEF SelectBatch

\* The three ends of a turn of the walk.
LEMMA TurnIsGood ==
    ASSUME Inv, Skip \/ Serve \/ Resync
    PROVE  Inv'
<1> DEFINE e == AfterError
           f == AfterError[2][i]
<1>1. pc = "serve" /\ Remains(table, e) /\ Good(e[1], e[2]) /\ Good(table[1], table[2])
  BY AfterErrorRemains DEF Skip, Serve, Resync, Remains
<1>2. IsCalled => {f} \cap {client[s] : s \in i + 1 .. Bound - 1} = {}
  BY <1>1, HeardOnce DEF IsCalled
<1>3. i \in Int /\ all \subseteq all /\ {} \subseteq all
  BY DEF Inv, TypeOK
<1> HIDE DEF e, f
<1>4. CASE Skip
  <2>1. Install(e) /\ Forget(e, {}, {}) /\ Advance(all)
    BY <1>4 DEF Skip, e
  <2> QED
    BY <1>1, <2>1, AdvanceKeeps
<1>5. CASE Serve
  <2>1. PICK t \in IF f \in ready THEN MessageTables(e, i) ELSE {Closed(e, i)} :
           Install(t) /\ Forget(t, {f}, {f})
    BY <1>5 DEF Serve, e, f
  <2>2. Remains(e, t)
    BY <1>1, <1>3, <2>1, MessagesRemain, ClosedRemains
  <2>3. Remains(table, t)
    BY <1>1, <2>2, RemainsTransitive
  <2>4. Advance(all) /\ IsCalled
    BY <1>5 DEF Serve
  <2> QED
    BY <1>1, <1>2, <2>1, <2>3, <2>4, AdvanceKeeps
<1>6. CASE Resync
  <2>1. Install(e) /\ Forget(e, {f}, {}) /\ Advance({}) /\ IsCalled
    BY <1>6 DEF Resync, e, f
  <2> QED
    BY <1>1, <1>2, <1>3, <2>1, AdvanceKeeps
<1> QED
  BY <1>4, <1>5, <1>6

-----------------------------------------------------------------------------
\* Every step keeps the invariant.
LEMMA StepIsGood ==
    ASSUME Inv, [Next]_vars
    PROVE  Inv'
<1>1. ASSUME UNCHANGED <<table, peers>>, UNCHANGED <<all, errsock>>,
             pc' \in Places \ {"select", "serve"}, UNCHANGED <<lp, oldnow>>,
             i' \in 0 .. MaxClients
      PROVE  Inv'
  <2>1. UNCHANGED <<now, client, login, ready, urgent, idle>> /\ LiveFds' = LiveFds
    BY <1>1 DEF table, peers, LiveFds, Live
  <2>2. Loops' = Loops
    BY <1>1 DEF Loops
  <2> QED
    BY <1>1, <2>1, <2>2 DEF Inv, TypeOK, Walk
<1>2. 0 \in 0 .. MaxClients
  BY SizesAssumption
<1>3. CASE BeginSweep
  BY <1>1, <1>2, <1>3 DEF BeginSweep, Places
<1>4. CASE EndSweep
  BY <1>1, <1>2, <1>4 DEF EndSweep, Places
<1>5. CASE BeginPoll
  <2>1. /\ pc' = "select" /\ lp' = 0 /\ oldnow' = now
        /\ UNCHANGED <<now, client, login, ready, urgent, idle, i, all, errsock>>
    BY <1>5 DEF BeginPoll, table, peers
  <2>2. LiveFds' = LiveFds /\ now \in Nat /\ Good(now, client)'
    BY <2>1, SizesAssumption DEF LiveFds, Live, Inv, TypeOK
  <2>3. Loops' \in 0 .. now
    BY <2>1, <2>2, Division, SizesAssumption DEF Loops
  <2> QED
    BY <1>2, <2>1, <2>2, <2>3 DEF Inv, TypeOK, Walk, Places
<1>6. CASE UNCHANGED vars
  <2>1. UNCHANGED <<now, client, login, ready, urgent, idle, pc, i, lp, oldnow, all, errsock>>
    BY <1>6 DEF vars, table, peers, loop
  <2>2. LiveFds' = LiveFds /\ Loops' = Loops /\ Bound' = Bound
    BY <2>1 DEF LiveFds, Live, Loops, Bound
  <2> QED
    BY <2>1, <2>2 DEF Inv, TypeOK, Walk
<1>7. CASE Server
  BY <1>4, <1>5, <1>7, SweepSlotIsGood, SelectBatchIsGood, TurnIsGood DEF Server
<1> QED
  BY <1>3, <1>6, <1>7, ClientIsGood, CheckConnIsGood DEF Next

\* The loop begins with an empty table.
LEMMA InitIsGood == Init => Inv
<1> SUFFICES ASSUME Init PROVE Inv
  OBVIOUS
<1>1. MaxClients \in Nat /\ 0 \in 0 .. MaxClients /\ 0 .. 0 - 1 = {}
  BY SizesAssumption
<1>2. LiveFds = {}
  BY <1>1 DEF Init, LiveFds, Live
<1>3. Loops \in 0 .. 0
  BY Division, SizesAssumption DEF Init, Loops
<1>4. client \in [Slots -> Fds \cup {NoFd}]
  BY DEF Init
<1>5. Good(now, client)
  BY <1>1, <1>4 DEF Init, Good
<1> QED
  BY <1>1, <1>2, <1>3, <1>4, <1>5 DEF Init, Inv, TypeOK, Walk, Places

-----------------------------------------------------------------------------
\* The inductive invariant, over every run.
THEOREM Invariance == Spec => []Inv
<1>1. Inv /\ [Next]_vars => Inv'
  BY StepIsGood
<1> QED
  BY InitIsGood, <1>1, PTL DEF Spec

\* The table and the loop variables that walk it stay in their ranges.
THEOREM LoopTypeCorrect == Spec => []TypeOK
<1>1. Inv => TypeOK
  BY DEF Inv
<1> QED
  BY <1>1, Invariance, PTL

\* CheckMessage() calls GetMsg() only for a connection that has the input
\* select() saw, so that no healthy connection is read dry and closed.
THEOREM ReadsOnlyWhatIsThere == Spec => NeverReadsDry
<1>1. Inv => (pc = "serve" /\ IsCalled => AfterError[2][i] \in ready)
  <2> SUFFICES ASSUME Inv, pc = "serve", IsCalled
               PROVE  AfterError[2][i] \in ready
    OBVIOUS
  <2>1. Bound \in 0 .. oldnow /\ oldnow \in Nat /\ i \in Nat
    BY BatchInTable DEF Inv, Walk
  <2>2. AfterError[1] <= now /\ (AfterError[1] = now => AfterError[2] = client)
    BY AfterErrorRemains DEF Remains, table
  <2>3. now \in Int /\ now <= oldnow /\ i \in i .. Bound - 1
    BY <2>1, SizesAssumption DEF Inv, TypeOK, Walk
  <2>4. AfterError[2] = client /\ now = oldnow
    BY <2>1, <2>2, <2>3 DEF IsCalled
  <2> QED
    BY <2>3, <2>4 DEF IsCalled, Inv, Walk
<1> QED
  BY <1>1, Invariance, PTL DEF NeverReadsDry
=============================================================================
