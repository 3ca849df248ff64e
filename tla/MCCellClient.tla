---------------------------- MODULE MCCellClient ----------------------------
(***************************************************************************)
(* CellClient for TLC, with what a comment says of flush and flush does    *)
(* not do.                                                                 *)
(***************************************************************************)
EXTENDS CellClient

(* CellClient.cpp:453, "it also means to clear RX": a flush that returns    *)
(* with the client open leaves nothing that was received before it.         *)
FlushClearsRx == [][pc = "flush" /\ pc' = "idle" /\ open' => pos' = fill']_vars

=============================================================================
