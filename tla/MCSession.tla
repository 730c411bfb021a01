----------------------------- MODULE MCSession -----------------------------
(* Small instances of Session for TLC: account a0 has the characters c1 and *)
(* c2, account a1 has c3.                                                   *)
EXTENDS Session, TLC

CONSTANTS a0, a1, c1, c2, c3

MCOwner == (c1 :> a0) @@ (c2 :> a0) @@ (c3 :> a1)
FdSymmetry == Permutations(Fds)

\* What a closed connection leaves in the slots past `now' is overwritten by
\* CheckConn() before it is read, currchar excepted: states that differ there
\* only are the same state.
Blank(array, blank) == [i \in Slots |-> IF i < net.now THEN array[i] ELSE blank]
LiveView ==
    << [net EXCEPT !.client = Blank(@, NoFd), !.acctno = Blank(@, NoAcct),
                   !.stage = Blank(@, "new")], World >>

============================================================================
