----------------------------- MODULE OcppClient -----------------------------
(***************************************************************************)
(* The OCPP client (library ArduinoOcpp, not in the repository) as far as  *)
(* the SECC uses it: the requests it has been asked to send and not        *)
(* finished with, and the transaction id getTransactionId returns.  How a  *)
(* request ends is the central system's and the network's choice.  The     *)
(* library calls the SECC's listeners from OCPP_loop, between two passes   *)
(* of secc_loop; the effect of a listener on the SECC is in EMSECC.        *)
(***************************************************************************)
EXTENDS Integers

CONSTANTS
  AuthOutcomes,   \* how the central system may answer authorize
  StartOutcomes,  \* how a startTransaction may end
  TxPending,      \* TRUE: getTransactionId returns 0 from the request on;
                  \* FALSE: it stays negative until the request is accepted
  MaxStart        \* bound: startTransaction requests in flight

VARIABLES
  bootReq,        \* a BootNotification is in flight
  authReq,        \* an Authorize is in flight
  startReqs,      \* number of StartTransactions in flight
  txId            \* what getTransactionId distinguishes

ocppVars == <<bootReq, authReq, startReqs, txId>>

NoTx == "none"            \* getTransactionId() < 0
PendingTx == "pending"    \* getTransactionId() = 0
ActiveTx == "active"      \* getTransactionId() > 0
TxIds == {NoTx, PendingTx, ActiveTx}

ASSUME AuthOutcomesAssumption ==
  AuthOutcomes \subseteq {"Accepted", "Refused", "Timeout", "Error"}
ASSUME StartOutcomesAssumption ==
  StartOutcomes \subseteq {"Accepted", "Refused", "Lost"}
ASSUME TxPendingAssumption == TxPending \in BOOLEAN
ASSUME MaxStartAssumption == MaxStart \in Nat \ {0}

-----------------------------------------------------------------------------
OcppInit ==
  /\ bootReq = FALSE /\ authReq = FALSE /\ startReqs = 0
  /\ txId \in {NoTx, ActiveTx}    \* the id may be restored from flash

(* startTransaction(listener): one more request in flight.                  *)
StartTransaction ==
  /\ startReqs < MaxStart
  /\ startReqs' = startReqs + 1
  /\ txId' = IF TxPending THEN PendingTx ELSE txId

(* Mutant: the id stays until the confirmation.                             *)
StopTransactionLater == UNCHANGED txId

(* stopTransaction(listener): the transaction is over for the client.       *)
StopTransaction == txId' = NoTx

(* Mutant: a confirmation is delivered more than once.                      *)
StartEndsAgain(outcome) ==
  /\ startReqs' = startReqs - 1
  /\ txId' \in IF outcome = "Accepted" THEN {ActiveTx} ELSE {txId, NoTx}

(* A StartTransaction ends: accepted, refused, or given up by the client.   *)
StartEnds(outcome) ==
  /\ startReqs > 0
  /\ startReqs' = startReqs - 1
  /\ txId' \in IF outcome = "Accepted" THEN {ActiveTx} ELSE {txId, NoTx}

(* The client after a reboot: requests in flight are gone, a transaction id *)
(* is still known if the client had saved it.                               *)
OcppReboots ==
  /\ bootReq' = FALSE /\ authReq' = FALSE /\ startReqs' = 0
  /\ txId' \in {txId, NoTx}

=============================================================================
