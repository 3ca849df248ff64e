------------------------- MODULE FiniteStateMachine -------------------------
(***************************************************************************)
(* The state holder EMSECC inherits from (emFiniteStateMachine.hpp/.cpp):  *)
(* one enumeration value, read by secc_loop to pick a handler and written  *)
(* by the handlers and by the firmware callback.  setFsmState checks       *)
(* nothing: any state may be set from any other, and the last of several   *)
(* calls made by one handler wins.                                         *)
(***************************************************************************)

VARIABLE fsmState

(* The values of the enumeration, without their common SECC_State_ prefix. *)
SECC_State ==
  {"Unknown", "Initialize", "EvseLink", "BootOcpp", "Waitting", "PlugIn",
   "Auth", "Preparing", "Charging", "Finance", "Finishing", "maintaining",
   "SuspendedEV", "SuspendedSECC", "SuspendedEVSE"}

FsmInit == fsmState = "Unknown"

setFsmState(fstate) == fsmState' = fstate

=============================================================================
