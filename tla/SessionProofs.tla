--------------------------- MODULE SessionProofs ----------------------------
(***************************************************************************)
(* Emsecc implements ChargeSession, for every value of the constants: the  *)
(* initial states map to initial states, and each step of a handler, a     *)
(* listener or the environment maps to a step of the session or to none.   *)
(* The steps that meter and settle need the invariant of EmseccProofs.     *)
(***************************************************************************)
EXTENDS EmseccProofs

(* Steps the session does not see.                                          *)
LEMMA Unseen ==
  ASSUME UNCHANGED <<fsmState, authState, transactionRunning>>
  PROVE  UNCHANGED Session!sessionVars
  BY DEF Session!sessionVars, SessionPhase

LEMMA RebootRestarts ==
  ASSUME Reboot
  PROVE  Session!Restart
<1>1. fsmState' = "Unknown" /\ authState' = "AUTHORIZE_UNKNOWN"
      /\ transactionRunning' = FALSE
  BY DEF Reboot, setFsmState
<1> QED BY <1>1 DEF Session!Restart, SessionPhase, StartingStates

(* From a starting state the session stays there, opens or is interrupted.  *)
LEMMA StartingStep ==
  ASSUME fsmState \in StartingStates,
         fsmState' \in StartingStates
                       \cup {"Waitting", "SuspendedSECC", "SuspendedEVSE"},
         UNCHANGED <<authState, transactionRunning>>
  PROVE  [Session!Step]_(Session!sessionVars)
<1>1. CASE fsmState' \in StartingStates
  BY <1>1 DEF Session!sessionVars, SessionPhase, StartingStates
<1>2. CASE fsmState' = "Waitting"
  BY <1>2 DEF Session!Step, Session!Open, SessionPhase, StartingStates
<1>3. CASE fsmState' \in {"SuspendedSECC", "SuspendedEVSE"}
  BY <1>3 DEF Session!Step, Session!Interrupt, SessionPhase, StartingStates
<1> QED BY <1>1, <1>2, <1>3

(* Any step to a fault or to maintenance that leaves the rest alone.        *)
LEMMA InterruptStep ==
  ASSUME fsmState' \in {"SuspendedSECC", "SuspendedEVSE", "maintaining"},
         UNCHANGED <<authState, transactionRunning>>
  PROVE  [Session!Step]_(Session!sessionVars)
<1>1. SessionPhase' = "out"
  BY DEF SessionPhase, StartingStates
<1>2. CASE SessionPhase = "out"
  BY <1>1, <1>2 DEF Session!sessionVars
<1>3. CASE SessionPhase # "out"
  BY <1>1, <1>3 DEF Session!Step, Session!Interrupt
<1> QED BY <1>2, <1>3

-----------------------------------------------------------------------------
(* The handlers that move the session, and the listeners it depends on      *)

LEMMA WaitingStep ==
  ASSUME seccWaiting
  PROVE  [Session!Step]_(Session!sessionVars)
<1>1. /\ fsmState = "Waitting"
      /\ UNCHANGED transactionRunning
      /\ authState' = "AUTHORIZE_SUCCESS" <=> authState = "AUTHORIZE_SUCCESS"
  BY DEF seccWaiting, PollFails, Authorize, RfidPolled, authVars, txVars
<1>2. \/ UNCHANGED fsmState
      \/ fsmState' \in {"SuspendedSECC", "SuspendedEVSE"}
      \/ fsmState' = "Preparing" /\ authState' = "AUTHORIZE_SUCCESS"
  BY DEF seccWaiting, PollFails, AfterPoll, ReadyToPrepare, setFsmState
<1>3. CASE UNCHANGED fsmState
  BY <1>1, <1>3 DEF Session!sessionVars, SessionPhase, StartingStates
<1>4. CASE fsmState' \in {"SuspendedSECC", "SuspendedEVSE"}
  BY <1>1, <1>4 DEF Session!Step, Session!Interrupt, SessionPhase,
                    StartingStates
<1>5. CASE fsmState' = "Preparing" /\ authState' = "AUTHORIZE_SUCCESS"
  BY <1>1, <1>5 DEF Session!Step, Session!Prepare, SessionPhase,
                    StartingStates
<1> QED BY <1>2, <1>3, <1>4, <1>5

LEMMA PreChargeStep ==
  ASSUME seccPreCharge
  PROVE  [Session!Step]_(Session!sessionVars)
<1>1. fsmState = "Preparing" /\ UNCHANGED <<authState, transactionRunning>>
  BY DEF seccPreCharge, authVars
<1>2. fsmState' \in {"Preparing", "Charging", "SuspendedSECC", "SuspendedEVSE"}
  BY DEF seccPreCharge, PollFails, AfterPoll, setFsmState
<1>3. CASE fsmState' = "Preparing"
  BY <1>1, <1>3, Unseen
<1>4. CASE fsmState' = "Charging"
  BY <1>1, <1>4 DEF Session!Step, Session!Charge, SessionPhase, StartingStates
<1>5. CASE fsmState' \in {"SuspendedSECC", "SuspendedEVSE"}
  BY <1>1, <1>5, InterruptStep
<1> QED BY <1>2, <1>3, <1>4, <1>5

(* A pass may find the transaction running and end the charge at once.      *)
LEMMA ChargingStep ==
  ASSUME Inv, seccCharging
  PROVE  [Session!Step]_(Session!sessionVars)
<1>1. /\ fsmState = "Charging" /\ UNCHANGED authState
      /\ authState = "AUTHORIZE_SUCCESS"
  BY DEF seccCharging, authVars, Inv, AuthInv, AuthorizedSession,
         SessionStates, ServiceStates
<1>2. /\ transactionRunning \in BOOLEAN
      /\ transactionRunning' = transactionRunning \/ transactionRunning' = TRUE
  BY DEF seccCharging, BeginTransaction, txVars, Inv, TypeOK, FlagTypeOK
<1>3. \/ UNCHANGED fsmState
      \/ fsmState' \in {"SuspendedSECC", "SuspendedEVSE"}
      \/ fsmState' = "Finance" /\ transactionRunning'
  BY DEF seccCharging, PollFails, AfterPoll, ChargeOver, setFsmState
<1>4. CASE UNCHANGED fsmState
  <2>1. CASE UNCHANGED transactionRunning
    BY <1>1, <1>4, <2>1, Unseen
  <2>2. CASE transactionRunning' # transactionRunning
    <3>1. ~transactionRunning /\ transactionRunning' = TRUE
      BY <1>2, <2>2
    <3>2. SessionPhase = "charging" /\ UNCHANGED SessionPhase
      BY <1>1, <1>4 DEF SessionPhase, StartingStates
    <3> QED BY <1>1, <3>1, <3>2 DEF Session!Step, Session!Meter
  <2> QED BY <2>1, <2>2
<1>5. CASE fsmState' \in {"SuspendedSECC", "SuspendedEVSE"}
  <2>1. SessionPhase = "charging" /\ SessionPhase' = "out"
    BY <1>1, <1>5 DEF SessionPhase, StartingStates
  <2> QED BY <1>1, <1>2, <2>1 DEF Session!Step, Session!Interrupt
<1>6. CASE fsmState' = "Finance" /\ transactionRunning'
  <2>1. SessionPhase = "charging" /\ SessionPhase' = "settling"
    BY <1>1, <1>6 DEF SessionPhase, StartingStates
  <2>2. transactionRunning' = TRUE
    BY <1>2, <1>6
  <2> QED BY <1>1, <2>1, <2>2 DEF Session!Step, Session!Settle
<1> QED BY <1>3, <1>4, <1>5, <1>6

LEMMA StopChargeStep ==
  ASSUME seccStopCharge
  PROVE  [Session!Step]_(Session!sessionVars)
<1>1. fsmState = "Finishing" /\ UNCHANGED <<fsmState, authState>>
  BY DEF seccStopCharge, authVars
<1>2. SessionPhase = "settling" /\ UNCHANGED SessionPhase
  BY <1>1 DEF SessionPhase, StartingStates
<1>3. CASE transactionRunning
  BY <1>1, <1>2, <1>3 DEF seccStopCharge, Session!Step, Session!StopMeter
<1>4. CASE ~transactionRunning
  BY <1>1, <1>4, Unseen DEF seccStopCharge
<1> QED BY <1>3, <1>4

(* While an answer to authorize is awaited, the SECC waits or is out.       *)
LEMMA AuthorizeStep ==
  ASSUME Inv, NEW outcome \in AuthOutcomes, AuthorizeEnds(outcome)
  PROVE  [Session!Step]_(Session!sessionVars)
<1>1. /\ authState = "AUTHORIZING"
      /\ UNCHANGED <<fsmState, transactionRunning>>
  BY DEF AuthorizeEnds, Inv, AuthInv
<1>2. SessionPhase \in {"available", "out"} /\ UNCHANGED SessionPhase
  BY <1>1 DEF Inv, AuthInv, AuthorizedSession, SessionStates, ServiceStates,
              SessionPhase, StartingStates
<1>3. CASE authState' = "AUTHORIZE_SUCCESS"
  BY <1>1, <1>2, <1>3 DEF Session!Step, Session!Grant
<1>4. CASE authState' # "AUTHORIZE_SUCCESS"
  BY <1>1, <1>2, <1>4 DEF Session!sessionVars
<1> QED BY <1>3, <1>4

(* A request in flight means the charge has begun: it may be confirmed      *)
(* during the charge, while it is settled, or after it was interrupted.     *)
LEMMA StartTransactionStep ==
  ASSUME Inv, NEW outcome \in StartOutcomes, StartTransactionEnds(outcome)
  PROVE  [Session!Step]_(Session!sessionVars)
<1>1. startReqs > 0 /\ UNCHANGED <<fsmState, authState>>
  BY DEF StartTransactionEnds, StartEnds, authVars
<1>2. /\ authState = "AUTHORIZE_SUCCESS"
      /\ fsmState \notin StartingStates \cup {"Waitting", "Preparing"}
  BY <1>1 DEF Inv, TxInv, TxOnlyIfAuthorized
<1>3. /\ SessionPhase \in {"charging", "settling", "out"}
      /\ UNCHANGED SessionPhase
  BY <1>1, <1>2 DEF SessionPhase, StartingStates
<1>4. CASE UNCHANGED transactionRunning
  BY <1>1, <1>4, Unseen
<1>5. CASE transactionRunning' # transactionRunning
  <2>1. ~transactionRunning /\ transactionRunning' = TRUE
    BY <1>5 DEF StartTransactionEnds, Inv, TypeOK, FlagTypeOK
  <2> QED BY <1>1, <1>2, <1>3, <2>1 DEF Session!Step, Session!Meter
<1> QED BY <1>4, <1>5

-----------------------------------------------------------------------------
LEMMA InitStarts == Init => Session!Start
  BY DEF Init, FsmInit, SeccInit, Session!Start, SessionPhase, StartingStates

LEMMA StepSimulates ==
  ASSUME Inv, [Next]_vars
  PROVE  [Session!Step]_(Session!sessionVars)
<1> USE DEF setFsmState, bootVars, authVars, txVars
<1>1. CASE Reboot
  BY <1>1, RebootRestarts DEF Session!Step
<1>2. CASE seccIdle \/ seccInitialize \/ seccLinkEvse \/ seccBootOcpp
  BY <1>2, StartingStep
     DEF seccIdle, seccInitialize, FirstPassThen, seccLinkEvse, seccBootOcpp,
         StartingStates
<1>3. CASE seccWaiting \/ seccPreCharge \/ seccCharging \/ seccStopCharge
  BY <1>3, WaitingStep, PreChargeStep, ChargingStep, StopChargeStep
<1>4. CASE seccFinance
  BY <1>4 DEF seccFinance, Session!sessionVars, SessionPhase, StartingStates
<1>5. CASE ~Reboot /\ (seccMaintaince \/ evseMalfunction \/ seccMalfunction)
  BY <1>5, Unseen DEF seccMaintaince, evseMalfunction, seccMalfunction, vars
<1>6. CASE BootConfirmed
  BY <1>6, Unseen DEF BootConfirmed
<1>7. CASE \E outcome \in AuthOutcomes : AuthorizeEnds(outcome)
  BY <1>7, AuthorizeStep
<1>8. CASE \E outcome \in StartOutcomes : StartTransactionEnds(outcome)
  BY <1>8, StartTransactionStep
<1>9. CASE \E location \in Locations : OnDownload(location)
  <2>1. /\ UNCHANGED <<authState, transactionRunning>>
        /\ fsmState' = "maintaining" \/ UNCHANGED fsmState
    BY <1>9 DEF OnDownload
  <2> QED BY <2>1, InterruptStep, Unseen
<1>10. CASE ~Reboot /\ (OnInstall \/ Environment)
  BY <1>10, Unseen DEF OnInstall, Environment
<1>11. CASE UNCHANGED vars
  BY <1>11, Unseen DEF vars
<1> QED
  BY <1>1, <1>2, <1>3, <1>4, <1>5, <1>6, <1>7, <1>8, <1>9, <1>10, <1>11
     DEF Next, secc_loop, OCPP_loop

(* EMSECC implements the session of ChargeSession.                          *)
THEOREM SessionImplemented == Spec => ImplementsSession
<1> QED
  BY InitStarts, InvHolds, StepSimulates, PTL
     DEF Spec, ImplementsSession, Session!Behaviour

=============================================================================
