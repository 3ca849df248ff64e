------------------------------ MODULE MCEmsecc ------------------------------
(***************************************************************************)
(* EMSECC for TLC, with what a comment of the code says of the program and *)
(* the program does not do.                                                *)
(***************************************************************************)
EXTENDS Emsecc

(* emFiniteStateMachine.hpp:29, "waiting for S2, Lock": Preparing is left   *)
(* for Charging when the car asks for energy.  A request for energy is      *)
(* never forgotten, so it is also left when the car has gone back to B, or  *)
(* when the pilot is F, "plugout" in ProtocolEVSE.hpp:92.                   *)
S2Awaited ==
  [][fsmState = "Preparing" /\ fsmState' = "Charging" => cp = "C"]_vars

=============================================================================
