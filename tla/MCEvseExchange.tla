--------------------------- MODULE MCEvseExchange ---------------------------
(***************************************************************************)
(* What the recorded traffic with the EVSE says of an exchange and the     *)
(* exchange over the SPI port does not do.                                 *)
(***************************************************************************)
EXTENDS EvseExchange

(* test/ocpp_serial.ack:4-6 records getTime and the answer of the EVSE: an  *)
(* answer that comes in time and is correct ends the exchange with success. *)
AnswersAreAccepted ==
  phase = "returned" /\ replies /\ code # "COMM_ERROR_MALLOC"
    => code = "COMM_SUCCESS"

=============================================================================
