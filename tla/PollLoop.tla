------------------------------ MODULE PollLoop ------------------------------
(***************************************************************************)
(* The main loop of the NoX-Wizard server (nox-wizard.cpp) as far as it    *)
(* walks the slot table: the sweep over idle players, CheckConn() and      *)
(* CheckMessage() (src/network.cpp), which asks select() for the sockets   *)
(* with input, one batch of slots at a time, and calls GetMsg() for them.  *)
(*                                                                         *)
(* Session has one action per packet; here the loops that find the packets *)
(* are taken apart, because the table is compacted while they walk it.     *)
(* The server is one process; the clients send, hang up and fall idle      *)
(* between any two of its steps.                                           *)
(*                                                                         *)
(* All paths below are under src/branches/noxwizard/src.                   *)
(***************************************************************************)
EXTENDS Integers, FiniteSets

CONSTANTS
    MaxClients,   \* MAXIMUM, the most connections open at once
    Batch,        \* 64, the slots one select() is meant to cover
    Fds,          \* the operating system's socket handles
    Noisy,        \* the handles of clients that send unknown packets
    Watched,      \* the handles the liveness properties are about
    Urgents,      \* bound: the handles that may raise an exceptional condition
    Idlers,       \* bound: the handles whose players may fall idle
    NoFd

ASSUME SizesAssumption == MaxClients \in Nat \ {0} /\ Batch \in Nat \ {0}
ASSUME FdsAssumption ==
    Noisy \cup Watched \cup Urgents \cup Idlers \subseteq Fds /\ NoFd \notin Fds

Slots == 0 .. MaxClients

VARIABLES
    now, client,  \* the slot table
    login,        \* connections that have not sent their first packet
    ready,        \* connections with input (or an end of file) to read
    urgent,       \* connections with an exceptional condition
    idle,         \* players in the game who sent nothing for too long
    pc,           \* where the server is, see Places
    i,            \* the loop variable: the slot
    lp,           \* CheckMessage(): the batch
    oldnow,       \* CheckMessage(): now when it was called
    all, errsock  \* the descriptor sets select() returned

\* One turn of the main loop: the sweep (when its timer says so), CheckConn()
\* (at most one connection) and CheckMessage(), a select() and a walk per batch.
Places == {"loop", "sweep", "conn", "poll", "select", "serve"}

table == <<now, client>>
peers == <<login, ready, urgent, idle>>
loop == <<pc, i, lp, oldnow, all, errsock>>
vars == <<table, peers, loop>>

Live == 0 .. now - 1
LiveFds == {client[s] : s \in Live}

-----------------------------------------------------------------------------
(* Closing slots.  A table is a pair <<now, client>>.                      *)

\* (Altered on purpose: the slot is taken to be open.  The operators whose
\* names end in "Bug" are the mutants PROJECT.json lists; Next uses none.)
ClosedBug(t, s) ==
    << t[1] - 1,
       [j \in Slots |-> IF s <= j /\ j < t[1] - 1 THEN t[2][j + 1] ELSE t[2][j]] >>

\* cNetwork::Disconnect(): a slot that is not open is left alone.
Closed(t, s) ==
    IF s \notin 0 .. t[1] - 1 THEN t
    ELSE << t[1] - 1,
            [j \in Slots |-> IF s <= j /\ j < t[1] - 1 THEN t[2][j + 1] ELSE t[2][j]] >>

Handles(t) == {t[2][s] : s \in 0 .. t[1] - 1}

\* The new table is t; what concerned the connections it no longer has is over.
Install(t) ==
    /\ now' = t[1]
    /\ client' = t[2]

Forget(t, heard, asked) ==
    /\ login' = (login \ asked) \cap Handles(t)
    /\ ready' = (ready \ heard) \cap Handles(t)
    /\ urgent' = urgent \cap Handles(t)
    /\ idle' = (idle \ heard) \cap Handles(t)

-----------------------------------------------------------------------------
(* The clients.                                                            *)

Send(f) ==
    /\ f \in LiveFds \ ready
    /\ ready' = ready \cup {f}
    /\ UNCHANGED <<table, login, urgent, idle, loop>>

SendUrgent(f) ==
    /\ f \in (LiveFds \cap Urgents) \ urgent
    /\ urgent' = urgent \cup {f}
    /\ UNCHANGED <<table, login, ready, idle, loop>>

\* A player in the game lets the inactivity timeout pass.  The time the sweep
\* looks at, uiCurrentTime, is read once per turn of the main loop.
FallIdle(f) ==
    /\ pc # "sweep"
    /\ f \in (LiveFds \cap Idlers) \ (login \cup idle)
    /\ idle' = idle \cup {f}
    /\ UNCHANGED <<table, login, ready, urgent, loop>>

-----------------------------------------------------------------------------
(* The main loop.                                                          *)

\* CheckConn()
CheckConn(f) ==
    /\ pc \in {"loop", "conn"} /\ pc' = "poll"
    /\ now < MaxClients /\ f \notin LiveFds
    /\ Install(<<now + 1, [client EXCEPT ![now] = f]>>)
    /\ login' = login \cup {f}
    /\ UNCHANGED <<ready, urgent, idle, i, lp, oldnow, all, errsock>>

\* (Altered on purpose: the sweep leaves out the first slot.)
BeginSweepBug ==
    /\ pc = "loop" /\ pc' = "sweep"
    /\ i' = 1
    /\ UNCHANGED <<table, peers, lp, oldnow, all, errsock>>

\* TIMEOUT( CheckClientIdle )
BeginSweep ==
    /\ pc = "loop" /\ pc' = "sweep"
    /\ i' = 0
    /\ UNCHANGED <<table, peers, lp, oldnow, all, errsock>>

\* One turn of "for (r=0;r<now;r++)": r goes on after a Disconnect(r), too.
SweepSlot ==
    /\ pc = "sweep" /\ i < now
    /\ LET t == IF client[i] \in idle THEN Closed(table, i) ELSE table
       IN  Install(t) /\ Forget(t, {}, {})
    /\ i' = i + 1
    /\ UNCHANGED <<pc, lp, oldnow, all, errsock>>

EndSweep ==
    /\ pc = "sweep" /\ i >= now
    /\ pc' = "conn" /\ i' = 0
    /\ UNCHANGED <<table, peers, lp, oldnow, all, errsock>>

-----------------------------------------------------------------------------
(* CheckMessage()                                                          *)

BeginPoll ==
    /\ pc \in {"loop", "conn", "poll"} /\ pc' = "select"
    /\ lp' = 0 /\ oldnow' = now
    /\ UNCHANGED <<table, peers, i, all, errsock>>

Loops == oldnow \div Batch
\* (Altered on purpose: the batch starts one slot late.)
FirstBug == Batch * lp + 1
\* The slots i of "for (i=0+(64*lp);i<((lp<loops) ? 64 : oldnow);i++)"
First == Batch * lp
Bound == IF lp < Loops THEN Batch ELSE oldnow

\* The end of a batch: the next one, or back to the main loop.  The loop
\* variables of a call that is over are reset to keep the states few.
NextBatch ==
    IF lp < Loops
    THEN /\ pc' = "select" /\ lp' = lp + 1
         /\ i' = 0 /\ all' = {} /\ errsock' = {}
         /\ UNCHANGED oldnow
    ELSE /\ pc' = "loop" /\ lp' = 0 /\ oldnow' = 0
         /\ i' = 0 /\ all' = {} /\ errsock' = {}

\* FD_SET for the batch and select(), which fails for a handle already closed.
SelectBatch ==
    /\ pc = "select"
    /\ LET asked == {client[s] : s \in First .. Bound - 1}
       IN  IF asked \subseteq LiveFds /\ asked \cap (ready \cup urgent) # {}
           THEN /\ pc' = "serve" /\ i' = First
                /\ all' = asked \cap ready /\ errsock' = asked \cap urgent
                /\ UNCHANGED <<lp, oldnow>>
           ELSE NextBatch
    /\ UNCHANGED <<table, peers>>

\* What GetMsg(s) does to the table: nothing; it closes s; the first packet
\* of s has another player kicked; or charplay() closes s and one more.
MessageTables(t, s) ==
    {t, Closed(t, s)}
      \cup (IF t[2][s] \in login THEN {Closed(t, k) : k \in 0 .. t[1] - 1} ELSE {})
      \cup {Closed(Closed(t, s), k) : k \in 0 .. t[1] - 1}

\* FD_ISSET(client[i],&errsock): the table the second test sees.
AfterError == IF client[i] \in errsock THEN Closed(table, i) ELSE table

\* (Altered on purpose: the test oldnow==now is left out.)
IsCalledBug == AfterError[2][i] \in all

\* (FD_ISSET(client[i],&all))&&(oldnow==now)
IsCalled == AfterError[2][i] \in all /\ AfterError[1] = oldnow

\* The turn of the loop is over: i++, or the next batch.
Advance(flagged) ==
    IF i + 1 < Bound
    THEN /\ i' = i + 1 /\ all' = flagged
         /\ UNCHANGED <<pc, lp, oldnow, errsock>>
    ELSE NextBatch

Skip ==
    /\ pc = "serve" /\ ~ IsCalled
    /\ Install(AfterError) /\ Forget(AfterError, {}, {})
    /\ Advance(all)

\* GetMsg(i): with nothing to read the connection counts as lost.
Serve ==
    /\ pc = "serve" /\ IsCalled
    /\ LET f == AfterError[2][i]
       IN  \E t \in IF f \in ready THEN MessageTables(AfterError, i)
                                   ELSE {Closed(AfterError, i)} :
              Install(t) /\ Forget(t, {f}, {f})
    /\ Advance(all)

\* GetMsg(i) with a packet of length PACKET_LEN_NONE: it uses the global `all'
\* for a select() of its own.
Resync ==
    /\ pc = "serve" /\ IsCalled
    /\ LET f == AfterError[2][i]
       IN  /\ f \in (ready \cap Noisy) \ login
           /\ Install(AfterError) /\ Forget(AfterError, {f}, {})
           /\ Advance({})

-----------------------------------------------------------------------------
Init ==
    /\ now = 0 /\ client = [s \in Slots |-> NoFd]
    /\ login = {} /\ ready = {} /\ urgent = {} /\ idle = {}
    /\ pc = "loop" /\ i = 0 /\ lp = 0 /\ oldnow = 0 /\ all = {} /\ errsock = {}

Client(f) == Send(f) \/ SendUrgent(f) \/ FallIdle(f)

Server ==
    \/ SweepSlot \/ EndSweep
    \/ BeginPoll \/ SelectBatch \/ Skip \/ Serve \/ Resync

Next ==
    \/ \E f \in Fds : Client(f) \/ CheckConn(f)
    \/ BeginSweep
    \/ Server

\* "while (keeprun)" goes on for ever and the timer of the sweep expires again
\* and again; nothing is assumed of the clients.
Fairness == WF_vars(Server) /\ SF_vars(BeginSweep)

Spec == Init /\ [][Next]_vars /\ Fairness

-----------------------------------------------------------------------------
TypeOK ==
    /\ now \in 0 .. MaxClients
    /\ client \in [Slots -> Fds \cup {NoFd}]
    /\ login \subseteq LiveFds /\ ready \subseteq LiveFds
    /\ urgent \subseteq LiveFds /\ idle \subseteq LiveFds
    /\ pc \in Places
    /\ i \in 0 .. MaxClients /\ lp \in 0 .. MaxClients /\ oldnow \in 0 .. MaxClients
    /\ all \subseteq Fds /\ errsock \subseteq Fds

\* GetMsg() is called only for a connection that still has the input select()
\* saw, though the table moves while the slots are walked: no healthy
\* connection is read dry and dropped for it.
NeverReadsDry ==
    [][ pc = "serve" /\ IsCalled => AfterError[2][i] \in ready ]_vars

\* The slots no select() covers: the bound of every batch but the last is 64
\* and not 64 more than its first slot, so the batches between the first and
\* the last are empty (src/network.cpp:1484, 1496).
Uncovered == Batch .. Batch * (now \div Batch) - 1

\* A connection with input is served or closed sooner or later, however often
\* the rounds of CheckMessage() are cut short by other connections that go,
\* unless the connections are so many that its slot is one no batch covers, or
\* unknown packets of some client empty the descriptor set for ever.
ServedIfCovered ==
    \A f \in Watched :
        \/ f \in ready ~> f \notin ready \/ \E s \in Uncovered : client[s] = f
        \/ []<><<Resync>>_vars

\* The same of every connection, as the comment at the head of CheckMessage()
\* has it, "rewritten to support more than 64 concurrent clients": false from
\* 128 connections on (src/network.cpp:1472).
EveryClientServed ==
    \A f \in Watched : (f \in ready ~> f \notin ready) \/ []<><<Resync>>_vars

\* A player who stays idle is disconnected sooner or later, though the sweep
\* passes over the slot after each one it closes.
IdleLeaves ==
    \A f \in Watched : f \in idle ~> f \notin idle

============================================================================
