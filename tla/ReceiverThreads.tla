--------------------------- MODULE ReceiverThreads ---------------------------
(***************************************************************************)
(* The threads of Hypnos trunk that accept, serve and clear away           *)
(* connections, and the shutdown of the main loop that ends them: the      *)
(* listeners (tplListener), a receiver for each connection (tUOReceiver,   *)
(* tRACReceiver), the killer that deletes receivers (tKiller) and          *)
(* tMainLoop::run().  A receiver is an object and a thread: the object is  *)
(* in the set of its listener, in the killer's queue, or deleted, and the  *)
(* thread has ended or not.                                                *)
(*                                                                         *)
(* All paths below are under src/trunk/src/src/networking.                 *)
(***************************************************************************)
EXTENDS Naturals, Sequences, FiniteSets, SequencesExt

CONSTANTS
    Listeners,    \* in the order the shutdown closes them, a sequence
    Receivers,    \* bound: the objects made while the server runs
    NoReceiver,   \* NULL
    Main          \* the main loop, as holder of nothing

Ls == ToSet(Listeners)

ASSUME ReceiversAssumption == NoReceiver \notin Receivers /\ Main \notin Receivers
ASSUME ListenersAssumption ==
    Listeners \in Seq(Ls) /\ Len(Listeners) > 0 /\ Ls \cap Receivers = {}

VARIABLES
    listening,  \* the server socket of a listener is open
    accepting,  \* "accept", "ended", or the receiver it is constructing
    threads,    \* by listener, the set of receivers
    threads_m,  \* by listener, the holder of its mutex
    of,         \* the listener of a receiver
    at,         \* where the thread of a receiver is
    conn,       \* the connection of a receiver is open
    deadSockets, killing,
    killer,     \* "pop", "join", "delete" or "ended"
    deleted,    \* receivers, listeners and the killer that have been deleted
    main,       \* "commands", "close", "join", "delete", "stop", "killer" or "done"
    closing,    \* the listeners the shutdown has still to end
    it,         \* the destructor of a listener: the receiver it is at, or NULL
    walk        \* and those of the set that come after it

listener == <<listening, accepting, threads, threads_m>>
receiver == <<of, at, conn>>
reaper == <<deadSockets, killing, killer>>
shutdown == <<main, closing, it, walk>>
vars == <<listener, receiver, reaper, deleted, shutdown>>

Goto(r, there) == at' = [at EXCEPT ![r] = there]

-----------------------------------------------------------------------------
(* Listeners: tplListener::run().                                          *)

\* accept() returns a connection, and the constructor of a receiver begins.
Accept(l, r) ==
    /\ accepting[l] = "accept" /\ listening[l] /\ at[r] = "unborn"
    /\ accepting' = [accepting EXCEPT ![l] = r]
    /\ of' = [of EXCEPT ![r] = l] /\ conn' = [conn EXCEPT ![r] = TRUE] /\ Goto(r, "made")
    /\ UNCHANGED <<listening, threads, threads_m, reaper, deleted, shutdown>>

\* accept() times out or fails, and the socket is closed.
StopListening(l) ==
    /\ accepting[l] = "accept" /\ ~listening[l]
    /\ accepting' = [accepting EXCEPT ![l] = "ended"]
    /\ UNCHANGED <<listening, threads, threads_m, receiver, reaper, deleted, shutdown>>

\* The constructor: the mutex, the set, the mutex, start().
LockToInsert(r) ==
    LET l == of[r] IN
    /\ at[r] = "made" /\ threads_m[l] = NoReceiver
    /\ threads_m' = [threads_m EXCEPT ![l] = r] /\ Goto(r, "inserting")
    /\ UNCHANGED <<listening, accepting, threads, of, conn, reaper, deleted, shutdown>>

Insert(r) ==
    LET l == of[r] IN
    /\ at[r] = "inserting"
    /\ threads' = [threads EXCEPT ![l] = @ \cup {r}]
    /\ threads_m' = [threads_m EXCEPT ![l] = NoReceiver] /\ Goto(r, "inserted")
    /\ UNCHANGED <<listening, accepting, of, conn, reaper, deleted, shutdown>>

Start(r) ==
    LET l == of[r] IN
    /\ at[r] = "inserted"
    /\ accepting' = [accepting EXCEPT ![l] = "accept"] /\ Goto(r, "running")
    /\ UNCHANGED <<listening, threads, threads_m, of, conn, reaper, deleted, shutdown>>

-----------------------------------------------------------------------------
(* Receivers: tUOReceiver::run() and tRACReceiver::run().                  *)

\* The peer hangs up, or sending to it fails.
HangUp(r) ==
    /\ conn[r]
    /\ conn' = [conn EXCEPT ![r] = FALSE]
    /\ UNCHANGED <<listener, of, at, reaper, deleted, shutdown>>

\* The member sock that run() tests is declared once more in the derived
\* class and never assigned: where it reads as NULL the thread ends at once.
EndBlind(r) ==
    /\ at[r] = "running"
    /\ Goto(r, "ended")
    /\ UNCHANGED <<listener, of, conn, reaper, deleted, shutdown>>

SeeClosed(r) ==
    /\ at[r] = "running" /\ ~conn[r]
    /\ Goto(r, "leaving")
    /\ UNCHANGED <<listener, of, conn, reaper, deleted, shutdown>>

\* The mutex is that of the listener's memory, also when it is deleted.
LockToErase(r) ==
    LET l == of[r] IN
    /\ at[r] = "leaving" /\ threads_m[l] = NoReceiver
    /\ threads_m' = [threads_m EXCEPT ![l] = r] /\ Goto(r, "erasing")
    /\ UNCHANGED <<listening, accepting, threads, of, conn, reaper, deleted, shutdown>>

\* (Altered on purpose, a mutant: the receiver stays in the set.)
EraseBug(r) ==
    LET l == of[r] IN
    /\ at[r] = "erasing"
    /\ threads_m' = [threads_m EXCEPT ![l] = NoReceiver] /\ Goto(r, "erased")
    /\ UNCHANGED <<listening, accepting, threads, of, conn, reaper, deleted, shutdown>>

\* (Altered on purpose, a mutant: the mutex is not given back.)
KeepLockBug(r) ==
    LET l == of[r] IN
    /\ at[r] = "erasing"
    /\ threads' = [threads EXCEPT ![l] = @ \ {r}] /\ walk' = walk \ {r}
    /\ Goto(r, "erased")
    /\ UNCHANGED <<listening, accepting, threads_m, of, conn, reaper, deleted, main, closing, it>>

\* What leaves the set is no longer before the destructor that walks it.
Erase(r) ==
    LET l == of[r] IN
    /\ at[r] = "erasing"
    /\ threads' = [threads EXCEPT ![l] = @ \ {r}] /\ walk' = walk \ {r}
    /\ threads_m' = [threads_m EXCEPT ![l] = NoReceiver] /\ Goto(r, "erased")
    /\ UNCHANGED <<listening, accepting, of, conn, reaper, deleted, main, closing, it>>

\* (Altered on purpose, a mutant: NULL is pushed.)
PushBug(r) ==
    /\ at[r] = "erased"
    /\ deadSockets' = Append(deadSockets, NoReceiver) /\ Goto(r, "returning")
    /\ UNCHANGED <<listener, of, conn, killing, killer, deleted, shutdown>>

Push(r) ==
    /\ at[r] = "erased"
    /\ deadSockets' = Append(deadSockets, r) /\ Goto(r, "returning")
    /\ UNCHANGED <<listener, of, conn, killing, killer, deleted, shutdown>>

Return(r) ==
    /\ at[r] = "returning"
    /\ Goto(r, "ended")
    /\ UNCHANGED <<listener, of, conn, reaper, deleted, shutdown>>

-----------------------------------------------------------------------------
(* The killer: tKiller::run().                                             *)

Pop ==
    /\ killer = "pop" /\ deadSockets # <<>>
    /\ killing' = Head(deadSockets) /\ deadSockets' = Tail(deadSockets)
    /\ killer' = "join"
    /\ UNCHANGED <<listener, receiver, deleted, shutdown>>

\* (Altered on purpose, a mutant: the thread is not waited for.)
JoinBug ==
    /\ killer = "join" /\ killer' = "delete"
    /\ UNCHANGED <<listener, receiver, deadSockets, killing, deleted, shutdown>>

Join ==
    /\ killer = "join" /\ at[killing] = "ended"
    /\ killer' = "delete"
    /\ UNCHANGED <<listener, receiver, deadSockets, killing, deleted, shutdown>>

Delete ==
    /\ killer = "delete"
    /\ deleted' = deleted \cup {killing}
    /\ killing' = NoReceiver /\ killer' = "pop"
    /\ UNCHANGED <<listener, receiver, deadSockets, shutdown>>

\* stop() cancels the thread where it can wait.
Cancelled ==
    /\ main = "killer" /\ killer \in {"pop", "join"}
    /\ killer' = "ended"
    /\ UNCHANGED <<listener, receiver, deadSockets, killing, deleted, shutdown>>

-----------------------------------------------------------------------------
(* The main loop: tMainLoop::run() after cmdShutdown, and ~tplListener().  *)

Command ==
    /\ main = "commands" /\ main' = "close" /\ closing' = Listeners
    /\ UNCHANGED <<listener, receiver, reaper, deleted, it, walk>>

\* (Altered on purpose, a mutant: the server socket stays open.)
CloseServerBug ==
    /\ main = "close" /\ main' = "join"
    /\ UNCHANGED <<listener, receiver, reaper, deleted, closing, it, walk>>

CloseServer ==
    /\ main = "close" /\ main' = "join"
    /\ listening' = [listening EXCEPT ![Head(closing)] = FALSE]
    /\ UNCHANGED <<accepting, threads, threads_m, receiver, reaper, deleted, closing, it, walk>>

\* The iterator at the first of the receivers S, or at the end.
First(S) == IF S = {} THEN {NoReceiver} ELSE S

JoinListener ==
    /\ main = "join" /\ accepting[Head(closing)] = "ended"
    /\ main' = "delete"
    /\ it' \in First(threads[Head(closing)]) /\ walk' = threads[Head(closing)] \ {it'}
    /\ UNCHANGED <<listener, receiver, reaper, deleted, closing>>

\* One turn of the destructor's loop, which takes no mutex: close() on what the
\* iterator is at, and it++.  Meanwhile that receiver may have left the set, and
\* the killer may have deleted it.  The iterator is then in freed memory, from
\* where it goes on to any of the others, or ends.
CloseOne ==
    /\ main = "delete" /\ it # NoReceiver
    /\ conn' = [conn EXCEPT ![it] = FALSE]
    /\ \E rest \in SUBSET walk :
          /\ it \in threads[Head(closing)] => rest = walk
          /\ it' \in First(rest) /\ walk' = rest \ {it'}
    /\ UNCHANGED <<listener, of, at, reaper, deleted, main, closing>>

DeleteListener ==
    /\ main = "delete" /\ it = NoReceiver
    /\ deleted' = deleted \cup {Head(closing)}
    /\ closing' = Tail(closing)
    /\ main' = IF Tail(closing) = <<>> THEN "stop" ELSE "close"
    /\ UNCHANGED <<listener, receiver, reaper, it, walk>>

\* The world is saved, the other classes are deleted, and the killer is
\* stopped, whatever is left in its queue.
StopKiller ==
    /\ main = "stop" /\ main' = "killer"
    /\ UNCHANGED <<listener, receiver, reaper, deleted, closing, it, walk>>

DeleteKiller ==
    /\ main = "killer" /\ killer = "ended"
    /\ main' = "done" /\ deleted' = deleted \cup {Main}
    /\ UNCHANGED <<listener, receiver, reaper, closing, it, walk>>

-----------------------------------------------------------------------------
Init ==
    /\ listening = [l \in Ls |-> TRUE] /\ accepting = [l \in Ls |-> "accept"]
    /\ threads = [l \in Ls |-> {}] /\ threads_m = [l \in Ls |-> NoReceiver]
    /\ of \in [Receivers -> {Listeners[1]}] /\ at = [r \in Receivers |-> "unborn"]
    /\ conn = [r \in Receivers |-> FALSE]
    /\ deadSockets = <<>> /\ killing = NoReceiver /\ killer = "pop"
    /\ deleted = {}
    /\ main = "commands" /\ closing = <<>> /\ it = NoReceiver /\ walk = {}

Listen(l) == StopListening(l) \/ \E r \in Receivers : Accept(l, r)
Construct(r) == LockToInsert(r) \/ Insert(r) \/ Start(r)
Run(r) == EndBlind(r) \/ SeeClosed(r) \/ LockToErase(r) \/ Erase(r) \/ Push(r) \/ Return(r)
Kill == Pop \/ Join \/ Delete \/ Cancelled
ShutDown ==
    CloseServer \/ JoinListener \/ CloseOne
    \/ DeleteListener \/ StopKiller \/ DeleteKiller

Next ==
    \/ \E l \in Ls : Listen(l)
    \/ \E r \in Receivers : Construct(r) \/ Run(r) \/ HangUp(r)
    \/ Kill \/ Command \/ ShutDown

\* Every thread is scheduled; nobody has to connect, to hang up or to shut
\* the server down, and sock need not read as NULL.
Fairness ==
    /\ \A l \in Ls : WF_vars(StopListening(l))
    /\ \A r \in Receivers :
         /\ WF_vars(Construct(r))
         /\ WF_vars(SeeClosed(r) \/ LockToErase(r) \/ Erase(r) \/ Push(r) \/ Return(r))
    /\ WF_vars(Kill) /\ WF_vars(ShutDown)

Spec == Init /\ [][Next]_vars /\ Fairness

-----------------------------------------------------------------------------
Places == {"unborn", "made", "inserting", "inserted", "running", "leaving",
           "erasing", "erased", "returning", "ended"}

\* Type correctness.
TypeOK ==
    /\ listening \in [Ls -> BOOLEAN]
    /\ accepting \in [Ls -> {"accept", "ended"} \cup Receivers]
    /\ threads \in [Ls -> SUBSET Receivers]
    /\ threads_m \in [Ls -> Receivers \cup {NoReceiver}]
    /\ of \in [Receivers -> Ls] /\ at \in [Receivers -> Places]
    /\ conn \in [Receivers -> BOOLEAN]
    /\ deadSockets \in Seq(Receivers) /\ killing \in Receivers \cup {NoReceiver}
    /\ killer \in {"pop", "join", "delete", "ended"}
    /\ deleted \subseteq Receivers \cup Ls \cup {Main}
    /\ main \in {"commands", "close", "join", "delete", "stop", "killer", "done"}
    /\ closing \in Seq(Ls) /\ it \in Receivers \cup {NoReceiver} /\ walk \subseteq Receivers

\* No object is deleted while its thread runs: the killer waits for the end
\* of a thread that has handed over its own object (tkiller.cpp run).
RunsAlive == \A r \in deleted \cap Receivers : at[r] = "ended"

\* A deleted receiver is in no set of a listener, so no destructor comes to it,
\* and not in the queue or the hands of the killer, which would delete it
\* twice.  One pointer to it may be left: the destructor of a listener that was
\* at it (it) when it took itself out of the set will still close it, because
\* the loop does not hold the mutex that is there to prevent this
\* (tuoreceiver.cpp run, tkiller.cpp run, tpllistener.cpp:59, tpllistener.hpp:42).
NoDangling ==
    \A r \in deleted \cap Receivers :
        /\ \A l \in Ls : r \notin threads[l]
        /\ r \notin walk
        /\ r \notin ToSet(deadSockets) /\ r # killing

\* A receiver that saw its connection closed is deleted in the end, unless the
\* server is shut down first (tuoreceiver.cpp run, tkiller.cpp run).
Reaped ==
    \A r \in Receivers :
        at[r] = "leaving" ~> (r \in deleted \/ main # "commands")

\* A shutdown comes to its end, whoever connects, holds a mutex or waits for
\* whom at the time (mainloop.cpp run).
ShutsDown == (main # "commands") ~> (main = "done")

=============================================================================
