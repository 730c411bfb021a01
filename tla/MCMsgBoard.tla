----------------------------- MODULE MCMsgBoard -----------------------------
\* Two pairs of files, of the global posts and of one board, of which the
\* first kind has four numbers and the second starts where it ends.
EXTENDS MsgBoard

CONSTANTS global, local

MCFiles == {global, local}
MCOrder == <<local, global>>
MCBase == [f \in MCFiles |-> IF f = global THEN 1 ELSE 5]
=============================================================================
