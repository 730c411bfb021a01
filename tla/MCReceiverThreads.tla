-------------------------- MODULE MCReceiverThreads --------------------------
(***************************************************************************)
(* ReceiverThreads for TLC: the listener for players and that for remote   *)
(* administration.                                                         *)
(***************************************************************************)
EXTENDS ReceiverThreads

CONSTANTS tUOListener, tRemoteAdmin

TwoListeners == <<tUOListener, tRemoteAdmin>>
=============================================================================
