---------------------------- MODULE EmseccProofs ----------------------------
(***************************************************************************)
(* What TLAPS proves of Emsecc for every value of its constants.  Inv is   *)
(* the inductive invariant: TypeOK gives the types, BootFirst, AuthInv and *)
(* TxInv each hold by induction once TypeOK does, TxInv with AuthInv.      *)
(***************************************************************************)
EXTENDS Emsecc, TLAPS

-----------------------------------------------------------------------------
(* Type correctness: the enumerations, the flags and the counters each on   *)
(* their own.                                                               *)

LEMMA InitTypeOK == Init => TypeOK
<1> SUFFICES ASSUME Init PROVE TypeOK
  OBVIOUS
<1>1. EnumTypeOK
  BY DEF Init, FsmInit, EvseInit, OcppInit, ProxyInit, ProxyStart, FlashInit,
         MaintInit, SeccInit, EnumTypeOK, SECC_State, TxIds, NoTx, ActiveTx,
         DownloadStatus, InstallationStatus, FileStates,
         AuthorizeProcessState
<1>2. FlagTypeOK
  BY DEF Init, OcppInit, MaintInit, SeccInit, FlagTypeOK
<1>3. CountTypeOK
  BY MaxStartAssumption, MaxPagesAssumption, RestartPeriodAssumption,
     CountWrapAssumption
     DEF Init, OcppInit, FlashInit, MaintInit, CountTypeOK
<1> QED BY <1>1, <1>2, <1>3 DEF TypeOK

LEMMA RebootEnum == EnumTypeOK /\ Reboot => EnumTypeOK'
  BY DEF Reboot, setFsmState, OcppReboots, ProxyReboots, ProxyStart, evseVars,
         flashVars, EnumTypeOK, SECC_State, TxIds, NoTx, DownloadStatus,
         InstallationStatus, FileStates, AuthorizeProcessState

LEMMA EnumStep == EnumTypeOK /\ [Next]_vars => EnumTypeOK'
<1> SUFFICES ASSUME EnumTypeOK, [Next]_vars PROVE EnumTypeOK'
  OBVIOUS
<1> USE DEF EnumTypeOK, setFsmState, evseVars, ocppVars, proxyVars, flashVars,
            maintVars, firmwareVars, bootVars, authVars, evVars, txVars
<1>1. CASE seccIdle \/ seccInitialize
  BY <1>1 DEF seccIdle, seccInitialize, FirstPassThen, SECC_State,
              FirstPassHandlers
<1>2. CASE seccLinkEvse
  BY <1>2 DEF seccLinkEvse, SECC_State, FirstPassHandlers
<1>3. CASE seccBootOcpp
  BY <1>3 DEF seccBootOcpp, SECC_State, FirstPassHandlers
<1>4. CASE seccWaiting
  BY <1>4 DEF seccWaiting, PollFails, AfterPoll, Authorize, SECC_State,
              AuthorizeProcessState
<1>5. CASE seccPreCharge
  BY <1>5 DEF seccPreCharge, PollFails, AfterPoll, SECC_State
<1>6. CASE seccCharging
  BY <1>6 DEF seccCharging, PollFails, AfterPoll, BeginTransaction,
              StartTransaction, SECC_State, TxIds
<1>7. CASE seccFinance
  BY <1>7 DEF seccFinance, SECC_State
<1>8. CASE seccStopCharge
  BY <1>8 DEF seccStopCharge, StopTransaction, TxIds
<1>9. CASE seccMaintaince
  BY <1>9, RebootEnum DEF seccMaintaince
<1>10. CASE evseMalfunction
  BY <1>10 DEF evseMalfunction, vars
<1>11. CASE seccMalfunction
  BY <1>11, RebootEnum DEF seccMalfunction
<1>12. CASE BootConfirmed
  BY <1>12 DEF BootConfirmed
<1>13. CASE \E outcome \in AuthOutcomes : AuthorizeEnds(outcome)
  BY <1>13, AuthOutcomesAssumption DEF AuthorizeEnds, AuthorizeProcessState
<1>14. CASE \E outcome \in StartOutcomes : StartTransactionEnds(outcome)
  BY <1>14 DEF StartTransactionEnds, StartEnds, TxIds
<1>15. CASE \E location \in Locations : OnDownload(location)
  BY <1>15 DEF OnDownload, SkipDownload, FetchLpc, FetchFails, AwaitInstall,
               SECC_State, DownloadStatus, FileStates
<1>16. CASE OnInstall
  BY <1>16, RebootEnum DEF OnInstall, InstallLpc, InstallFails,
                           InstallationStatus
<1>17. CASE Environment
  BY <1>17, RebootEnum DEF Environment, EvseChanges
<1>18. CASE UNCHANGED vars
  BY <1>18 DEF vars
<1> QED
  BY <1>1, <1>2, <1>3, <1>4, <1>5, <1>6, <1>7, <1>8, <1>9, <1>10, <1>11,
     <1>12, <1>13, <1>14, <1>15, <1>16, <1>17, <1>18
     DEF Next, secc_loop, OCPP_loop

LEMMA RebootFlag == FlagTypeOK /\ Reboot => FlagTypeOK'
  BY DEF Reboot, OcppReboots, MaintReboots, FlagTypeOK

LEMMA FlagStep == FlagTypeOK /\ [Next]_vars => FlagTypeOK'
<1> SUFFICES ASSUME FlagTypeOK, [Next]_vars PROVE FlagTypeOK'
  OBVIOUS
<1> USE DEF FlagTypeOK, evseVars, ocppVars, proxyVars, flashVars, maintVars,
            firmwareVars, bootVars, authVars, evVars, txVars
<1>1. CASE seccIdle \/ seccInitialize
  BY <1>1 DEF seccIdle, seccInitialize, FirstPassThen
<1>2. CASE seccLinkEvse
  BY <1>2 DEF seccLinkEvse
<1>3. CASE seccBootOcpp
  BY <1>3 DEF seccBootOcpp
<1>4. CASE seccWaiting
  BY <1>4 DEF seccWaiting, ReadPilot, ReadRfid, Authorize
<1>5. CASE seccPreCharge
  BY <1>5 DEF seccPreCharge, ReadPilot, ReadLock
<1>6. CASE seccCharging
  BY <1>6 DEF seccCharging, ReadPilot, ReadLock, BeginTransaction,
              StartTransaction
<1>7. CASE seccFinance
  BY <1>7 DEF seccFinance
<1>8. CASE seccStopCharge
  BY <1>8 DEF seccStopCharge
<1>9. CASE seccMaintaince
  BY <1>9, RebootFlag DEF seccMaintaince, PushImage
<1>10. CASE evseMalfunction
  BY <1>10 DEF evseMalfunction, vars
<1>11. CASE seccMalfunction
  BY <1>11, RebootFlag DEF seccMalfunction
<1>12. CASE BootConfirmed
  BY <1>12 DEF BootConfirmed
<1>13. CASE \E outcome \in AuthOutcomes : AuthorizeEnds(outcome)
  BY <1>13 DEF AuthorizeEnds
<1>14. CASE \E outcome \in StartOutcomes : StartTransactionEnds(outcome)
  BY <1>14 DEF StartTransactionEnds
<1>15. CASE \E location \in Locations : OnDownload(location)
  BY <1>15 DEF OnDownload
<1>16. CASE OnInstall
  BY <1>16, RebootFlag DEF OnInstall
<1>17. CASE Environment
  BY <1>17, RebootFlag DEF Environment
<1>18. CASE UNCHANGED vars
  BY <1>18 DEF vars
<1> QED
  BY <1>1, <1>2, <1>3, <1>4, <1>5, <1>6, <1>7, <1>8, <1>9, <1>10, <1>11,
     <1>12, <1>13, <1>14, <1>15, <1>16, <1>17, <1>18
     DEF Next, secc_loop, OCPP_loop

(* The page loop stops between the page it started from and the end of the  *)
(* file, and delivers pages from that range only.                           *)
LEMMA SendPagesBounds ==
  ASSUME CountTypeOK, SendPages
  PROVE  /\ currentPage' \in 0 .. MaxPages
         /\ delivered' \subseteq 0 .. (MaxPages - 1)
<1>1. PICK stop \in (currentPage + 1) .. filePages :
        /\ currentPage' = stop
        /\ delivered' \subseteq delivered \cup (currentPage .. (stop - 1))
  BY DEF SendPages
<1>2. stop \in 0 .. MaxPages /\ currentPage .. (stop - 1) \subseteq 0 .. (MaxPages - 1)
  BY <1>1, MaxPagesAssumption DEF CountTypeOK
<1> QED BY <1>1, <1>2 DEF CountTypeOK

LEMMA CountPassBounds ==
  ASSUME passes \in 0 .. (CountWrap - 1), CountPass
  PROVE  passes' \in 0 .. (CountWrap - 1)
  BY CountWrapAssumption, RestartPeriodAssumption DEF CountPass

LEMMA RebootCount == CountTypeOK /\ Reboot => CountTypeOK'
  BY MaxStartAssumption, MaxPagesAssumption, CountWrapAssumption,
     RestartPeriodAssumption
     DEF Reboot, OcppReboots, ProxyReboots, MaintReboots, flashVars,
         CountTypeOK

LEMMA CountStep == CountTypeOK /\ [Next]_vars => CountTypeOK'
<1> SUFFICES ASSUME CountTypeOK, [Next]_vars PROVE CountTypeOK'
  OBVIOUS
<1> USE DEF evseVars, ocppVars, proxyVars, flashVars, maintVars,
            firmwareVars, bootVars, authVars, evVars, txVars
<1>1. CASE seccIdle \/ seccInitialize \/ seccLinkEvse \/ seccBootOcpp
           \/ seccWaiting \/ seccPreCharge \/ seccFinance \/ seccStopCharge
           \/ BootConfirmed \/ evseMalfunction \/ UNCHANGED vars
  BY <1>1 DEF seccIdle, seccInitialize, FirstPassThen, seccLinkEvse,
              seccBootOcpp, seccWaiting, seccPreCharge, seccFinance,
              seccStopCharge, BootConfirmed, evseMalfunction, vars,
              CountTypeOK
<1>2. CASE seccCharging
  BY <1>2, MaxStartAssumption
     DEF seccCharging, BeginTransaction, StartTransaction, CountTypeOK
<1>3. CASE seccMaintaince
  <2>1. CASE Reboot
    BY <2>1, RebootCount
  <2>2. CASE ~Reboot
    <3>1. /\ CountPass
          /\ UNCHANGED <<startReqs, filePages>>
          /\ \/ UNCHANGED <<currentPage, delivered>>
             \/ SendPages
      BY <1>3, <2>2 DEF seccMaintaince, PushImage
    <3> QED BY <3>1, SendPagesBounds, CountPassBounds DEF CountTypeOK
  <2> QED BY <2>1, <2>2
<1>4. CASE seccMalfunction
  BY <1>4, RebootCount DEF seccMalfunction
<1>5. CASE \E outcome \in AuthOutcomes : AuthorizeEnds(outcome)
  BY <1>5 DEF AuthorizeEnds, CountTypeOK
<1>6. CASE \E outcome \in StartOutcomes : StartTransactionEnds(outcome)
  BY <1>6, MaxStartAssumption DEF StartTransactionEnds, StartEnds, CountTypeOK
<1>7. CASE \E location \in Locations : OnDownload(location)
  BY <1>7, MaxPagesAssumption
     DEF OnDownload, SkipDownload, FetchLpc, FetchFails, CountTypeOK
<1>8. CASE OnInstall
  BY <1>8, RebootCount DEF OnInstall, InstallLpc, InstallFails, CountTypeOK
<1>9. CASE Environment
  BY <1>9, RebootCount DEF Environment, EvseChanges, CountTypeOK
<1> QED
  BY <1>1, <1>2, <1>3, <1>4, <1>5, <1>6, <1>7, <1>8, <1>9
     DEF Next, secc_loop, OCPP_loop

(* Every variable keeps its type.                                           *)
THEOREM TypeCorrect == Spec => []TypeOK
<1>1. TypeOK /\ [Next]_vars => TypeOK'
  BY EnumStep, FlagStep, CountStep DEF TypeOK
<1> QED BY InitTypeOK, <1>1, PTL DEF Spec

-----------------------------------------------------------------------------
(* BootNotification, authorization and transaction                          *)

LEMMA BootStep == BootFirst /\ [Next]_vars => BootFirst'
<1> SUFFICES ASSUME BootFirst, [Next]_vars PROVE BootFirst'
  OBVIOUS
<1> USE DEF BootFirst, ServiceStates, setFsmState, evseVars, ocppVars,
            firmwareVars, bootVars, authVars, evVars, txVars
<1>1. CASE Reboot
  BY <1>1 DEF Reboot
<1>2. CASE seccIdle \/ seccInitialize
  BY <1>2 DEF seccIdle, seccInitialize, FirstPassThen
<1>3. CASE seccLinkEvse
  BY <1>3 DEF seccLinkEvse
<1>4. CASE seccBootOcpp
  BY <1>4 DEF seccBootOcpp, WaitsForBoot
<1>5. CASE seccWaiting
  BY <1>5 DEF seccWaiting, PollFails, AfterPoll
<1>6. CASE seccPreCharge
  BY <1>6 DEF seccPreCharge, PollFails, AfterPoll
<1>7. CASE seccCharging
  BY <1>7 DEF seccCharging, PollFails, AfterPoll
<1>8. CASE seccFinance \/ seccStopCharge
  BY <1>8 DEF seccFinance, seccStopCharge
<1>9. CASE ~Reboot /\ (seccMaintaince \/ evseMalfunction \/ seccMalfunction)
  BY <1>9 DEF seccMaintaince, evseMalfunction, seccMalfunction, vars
<1>10. CASE ~Reboot /\ OCPP_loop
  BY <1>10 DEF OCPP_loop, BootConfirmed, AuthorizeEnds, StartTransactionEnds,
               OnDownload, OnInstall
<1>11. CASE ~Reboot /\ Environment
  BY <1>11 DEF Environment
<1>12. CASE UNCHANGED vars
  BY <1>12 DEF vars
<1> QED
  BY <1>1, <1>2, <1>3, <1>4, <1>5, <1>6, <1>7, <1>8, <1>9, <1>10, <1>11,
     <1>12 DEF Next, secc_loop

LEMMA AuthStep == AuthInv /\ [Next]_vars => AuthInv'
<1> SUFFICES ASSUME AuthInv, [Next]_vars PROVE AuthInv'
  OBVIOUS
<1> USE DEF AuthInv, AuthorizedSession, StartingStates, SessionStates,
            ServiceStates, setFsmState, evseVars, ocppVars, firmwareVars,
            bootVars, authVars, evVars, txVars
<1>1. CASE Reboot
  BY <1>1 DEF Reboot, OcppReboots
<1>2. CASE seccIdle \/ seccInitialize
  BY <1>2 DEF seccIdle, seccInitialize, FirstPassThen
<1>3. CASE seccLinkEvse
  BY <1>3 DEF seccLinkEvse
<1>4. CASE seccBootOcpp
  BY <1>4 DEF seccBootOcpp
<1>5. CASE seccWaiting
  BY <1>5 DEF seccWaiting, PollFails, AfterPoll, Authorize, ReadyToPrepare
<1>6. CASE seccPreCharge
  BY <1>6 DEF seccPreCharge, PollFails, AfterPoll
<1>7. CASE seccCharging
  BY <1>7 DEF seccCharging, PollFails, AfterPoll
<1>8. CASE seccFinance \/ seccStopCharge
  BY <1>8 DEF seccFinance, seccStopCharge
<1>9. CASE ~Reboot /\ (seccMaintaince \/ evseMalfunction \/ seccMalfunction)
  BY <1>9 DEF seccMaintaince, evseMalfunction, seccMalfunction, vars
<1>10. CASE BootConfirmed
  BY <1>10 DEF BootConfirmed
<1>11. CASE \E outcome \in AuthOutcomes : AuthorizeEnds(outcome)
  BY <1>11 DEF AuthorizeEnds
<1>12. CASE \E outcome \in StartOutcomes : StartTransactionEnds(outcome)
  BY <1>12 DEF StartTransactionEnds
<1>13. CASE \E location \in Locations : OnDownload(location)
  BY <1>13 DEF OnDownload
<1>14. CASE ~Reboot /\ OnInstall
  BY <1>14 DEF OnInstall
<1>15. CASE ~Reboot /\ Environment
  BY <1>15 DEF Environment
<1>16. CASE UNCHANGED vars
  BY <1>16 DEF vars
<1> QED
  BY <1>1, <1>2, <1>3, <1>4, <1>5, <1>6, <1>7, <1>8, <1>9, <1>10, <1>11,
     <1>12, <1>13, <1>14, <1>15, <1>16 DEF Next, secc_loop, OCPP_loop

(* TxInv needs to know when an authorization can change, so AuthInv too.    *)
LEMMA TxStep == TypeOK /\ AuthInv /\ TxInv /\ [Next]_vars => TxInv'
<1> SUFFICES ASSUME TypeOK, AuthInv, TxInv, [Next]_vars PROVE TxInv'
  OBVIOUS
<1>a. startReqs \in Nat
  BY MaxStartAssumption DEF TypeOK, CountTypeOK
<1> USE DEF TxInv, TxOnlyIfAuthorized, SettlementMatchesTx, AtMostOneStart,
            OneOpenTx,
            AuthInv, AuthorizedSession, StartingStates, SessionStates,
            ServiceStates, setFsmState, evseVars, ocppVars, firmwareVars,
            bootVars, authVars, evVars, txVars
<1>1. CASE Reboot
  BY <1>1 DEF Reboot, OcppReboots
<1>2. CASE seccIdle \/ seccInitialize
  BY <1>2 DEF seccIdle, seccInitialize, FirstPassThen
<1>3. CASE seccLinkEvse
  BY <1>3 DEF seccLinkEvse
<1>4. CASE seccBootOcpp
  BY <1>4 DEF seccBootOcpp
<1>5. CASE seccWaiting
  BY <1>5, <1>a DEF seccWaiting, PollFails, AfterPoll, Authorize,
                    ReadyToPrepare
<1>6. CASE seccPreCharge
  BY <1>6, <1>a DEF seccPreCharge, PollFails, AfterPoll
<1>7. CASE seccCharging
  <2>1. startReqs' \in Nat /\ UNCHANGED authState
    BY <1>7, <1>a DEF seccCharging, BeginTransaction, StartTransaction
  <2>2. authState = "AUTHORIZE_SUCCESS"
    BY <1>7 DEF seccCharging
  <2>3. TxPending => /\ startReqs' <= 1
                     /\ startReqs' > 0 => txId' # NoTx /\ txId' # ActiveTx
    BY <1>7, <1>a DEF seccCharging, BeginTransaction, StartTransaction, NoTx,
                      PendingTx, ActiveTx
  <2>4. fsmState' \in {"Charging", "Finance", "SuspendedEVSE", "SuspendedSECC"}
    BY <1>7 DEF seccCharging, PollFails, AfterPoll
  <2>5. fsmState' = "Finance" => transactionRunning'
    BY <1>7 DEF seccCharging, PollFails, AfterPoll, ChargeOver
  <2> QED BY <2>1, <2>2, <2>3, <2>4, <2>5
<1>8. CASE seccFinance \/ seccStopCharge
  BY <1>8, <1>a DEF seccFinance, seccStopCharge, StopTransaction,
                    NoTx, ActiveTx
<1>9. CASE ~Reboot /\ (seccMaintaince \/ evseMalfunction \/ seccMalfunction)
  BY <1>9 DEF seccMaintaince, evseMalfunction, seccMalfunction, vars
<1>10. CASE BootConfirmed
  BY <1>10 DEF BootConfirmed
<1>11. CASE \E outcome \in AuthOutcomes : AuthorizeEnds(outcome)
  BY <1>11 DEF AuthorizeEnds
<1>12. CASE \E outcome \in StartOutcomes : StartTransactionEnds(outcome)
  <2>1. PICK outcome \in StartOutcomes : StartTransactionEnds(outcome)
    BY <1>12
  <2>2. /\ startReqs > 0 /\ startReqs' = startReqs - 1
        /\ UNCHANGED <<fsmState, authState, authReq>>
    BY <2>1 DEF StartTransactionEnds, StartEnds
  <2>3. authState = "AUTHORIZE_SUCCESS"
    BY <2>2
  <2>4. transactionRunning => transactionRunning'
    BY <2>1 DEF StartTransactionEnds
  <2>5. transactionRunning' \/ txId' = txId \/ txId' = NoTx
    BY <2>1 DEF StartTransactionEnds, StartEnds
  <2>6. TxPending => startReqs' = 0
    BY <2>2, <1>a
  <2> QED BY <2>2, <2>3, <2>4, <2>5, <2>6, <1>a
<1>13. CASE \E location \in Locations : OnDownload(location)
  BY <1>13 DEF OnDownload
<1>14. CASE ~Reboot /\ OnInstall
  BY <1>14 DEF OnInstall
<1>15. CASE ~Reboot /\ Environment
  BY <1>15 DEF Environment
<1>16. CASE UNCHANGED vars
  BY <1>16 DEF vars
<1> QED
  BY <1>1, <1>2, <1>3, <1>4, <1>5, <1>6, <1>7, <1>8, <1>9, <1>10, <1>11,
     <1>12, <1>13, <1>14, <1>15, <1>16 DEF Next, secc_loop, OCPP_loop

LEMMA InitInv == Init => Inv
<1> SUFFICES ASSUME Init PROVE BootFirst /\ AuthInv /\ TxInv
  BY InitTypeOK DEF Inv
<1> QED
  BY DEF Init, FsmInit, OcppInit, SeccInit, BootFirst, AuthInv, TxInv,
         TxOnlyIfAuthorized, SettlementMatchesTx, AtMostOneStart, OneOpenTx,
         AuthorizedSession, SessionStates, ServiceStates

(* Inv is inductive.                                                        *)
THEOREM InvHolds == Spec => []Inv
<1>1. Inv /\ [Next]_vars => Inv'
  BY EnumStep, FlagStep, CountStep, BootStep, AuthStep, TxStep DEF Inv, TypeOK
<1> QED BY InitInv, <1>1, PTL DEF Spec

(* A charge is prepared, delivered and settled only under an accepted       *)
(* authorization: seccWaiting is the only way in, and it asks for one.      *)
THEOREM SessionsAreAuthorized == Spec => []AuthorizedSession
<1>1. Inv => AuthorizedSession
  BY DEF Inv, AuthInv
<1> QED BY <1>1, InvHolds, PTL

(* No handler of a car runs before BootNotification.conf.                   *)
THEOREM ServiceAfterBoot == Spec => []BootFirst
<1>1. Inv => BootFirst
  BY DEF Inv
<1> QED BY <1>1, InvHolds, PTL

(* Transactions are requested and running only under an authorization, also *)
(* in the fault and maintenance states that interrupt a charge.             *)
THEOREM TransactionsAreAuthorized == Spec => []TxOnlyIfAuthorized
<1>1. Inv => TxOnlyIfAuthorized
  BY DEF Inv, TxInv
<1> QED BY <1>1, InvHolds, PTL

(* A client that shows a pending id is never asked for two transactions.    *)
THEOREM OneStart == Spec => []AtMostOneStart
<1>1. Inv => AtMostOneStart
  BY DEF Inv, TxInv
<1> QED BY <1>1, InvHolds, PTL

(* Nor does it ever have a transaction open while one is requested.         *)
THEOREM NoSecondTransaction == Spec => []OneOpenTx
<1>1. Inv => OneOpenTx
  BY DEF Inv, TxInv
<1> QED BY <1>1, InvHolds, PTL

(* What seccFinance settles has a transaction, what seccStopCharge has      *)
(* finished has none, whenever the confirmations arrive.                    *)
THEOREM SettlementsMatch == Spec => []SettlementMatchesTx
<1>1. Inv => SettlementMatchesTx
  BY DEF Inv, TxInv
<1> QED BY <1>1, InvHolds, PTL

-----------------------------------------------------------------------------
(* The link                                                                 *)

(* seccBootOcpp is the only way into service, and setTime is answered then. *)
LEMMA ServedStep ==
  ServedOnlyIfAnswered /\ [Next]_vars => ServedOnlyIfAnswered'
<1> SUFFICES ASSUME ServedOnlyIfAnswered, [Next]_vars
             PROVE  ServedOnlyIfAnswered'
  OBVIOUS
<1> USE DEF ServedOnlyIfAnswered, ServiceStates, setFsmState
<1>1. CASE Reboot
  BY <1>1 DEF Reboot
<1>2. CASE seccIdle \/ seccInitialize \/ seccLinkEvse
  BY <1>2 DEF seccIdle, seccInitialize, FirstPassThen, seccLinkEvse
<1>3. CASE seccBootOcpp
  BY <1>3 DEF seccBootOcpp, Answered, Sent
<1>4. CASE seccWaiting \/ seccPreCharge \/ seccCharging
  <2>1. fsmState \in ServiceStates
    BY <1>4 DEF seccWaiting, seccPreCharge, seccCharging
  <2> QED BY <2>1
<1>5. CASE seccFinance \/ seccStopCharge
  BY <1>5 DEF seccFinance, seccStopCharge
<1>6. CASE ~Reboot /\ (seccMaintaince \/ evseMalfunction \/ seccMalfunction)
  BY <1>6 DEF seccMaintaince, evseMalfunction, seccMalfunction, vars
<1>7. CASE ~Reboot /\ OCPP_loop
  BY <1>7 DEF OCPP_loop, BootConfirmed, AuthorizeEnds, StartTransactionEnds,
              OnDownload, OnInstall
<1>8. CASE ~Reboot /\ Environment
  BY <1>8 DEF Environment
<1>9. CASE UNCHANGED vars
  BY <1>9 DEF vars
<1> QED
  BY <1>1, <1>2, <1>3, <1>4, <1>5, <1>6, <1>7, <1>8, <1>9
     DEF Next, secc_loop

(* Without a code COMM_SUCCESS for receiveResponse, as over the SPI port,   *)
(* no behaviour serves a car.                                               *)
THEOREM ServiceNeedsAnswers == Spec => []ServedOnlyIfAnswered
<1>1. Init => ServedOnlyIfAnswered
  BY DEF Init, FsmInit, ServedOnlyIfAnswered, ServiceStates
<1> QED BY <1>1, ServedStep, PTL DEF Spec

(* Out of service no handler reads the EVSE or asks the central system, and *)
(* no listener has an answer to deliver.                                    *)
LEMMA IdleStep ==
  ASSUME IdleUnlessAnswered, ServedOnlyIfAnswered', [Next]_vars
  PROVE  IdleUnlessAnswered'
<1> DEFINE link == "COMM_SUCCESS" \in SendCodes /\ "COMM_SUCCESS" \in ReceiveCodes
           quiet == /\ ~evIsPlugged /\ ~evIsLock /\ ~evRequestsEnergy
                    /\ ~authorizationProvided
                    /\ authState = "AUTHORIZE_UNKNOWN" /\ ~authReq
                    /\ startReqs = 0 /\ ~transactionRunning
<1> SUFFICES ASSUME ~link PROVE quiet'
  BY DEF IdleUnlessAnswered, ServedOnlyIfAnswered
<1>1. fsmState \notin ServiceStates /\ quiet
  BY DEF IdleUnlessAnswered
<1>2. CASE Reboot
  BY <1>2 DEF Reboot, OcppReboots
<1>3. CASE seccIdle \/ seccInitialize \/ seccLinkEvse
  BY <1>1, <1>3 DEF seccIdle, seccInitialize, FirstPassThen, seccLinkEvse,
                    ocppVars, authVars, evVars
<1>4. CASE seccBootOcpp
  BY <1>1, <1>4 DEF seccBootOcpp, authVars, evVars
<1>5. CASE ~Reboot /\ (seccMaintaince \/ evseMalfunction \/ seccMalfunction)
  BY <1>1, <1>5 DEF seccMaintaince, evseMalfunction, seccMalfunction, vars,
                    ocppVars, authVars, evVars
<1>6. CASE BootConfirmed
  BY <1>1, <1>6 DEF BootConfirmed, authVars, evVars
<1>7. /\ ~\E outcome \in AuthOutcomes : AuthorizeEnds(outcome)
      /\ ~\E outcome \in StartOutcomes : StartTransactionEnds(outcome)
  BY <1>1 DEF AuthorizeEnds, StartTransactionEnds, StartEnds
<1>8. CASE \E location \in Locations : OnDownload(location)
  BY <1>1, <1>8 DEF OnDownload, ocppVars, authVars, evVars
<1>9. CASE ~Reboot /\ OnInstall
  BY <1>1, <1>9 DEF OnInstall, ocppVars, authVars, evVars
<1>10. CASE ~Reboot /\ Environment
  BY <1>1, <1>10 DEF Environment, ocppVars, authVars, evVars
<1>11. CASE UNCHANGED vars
  BY <1>1, <1>11 DEF vars, ocppVars, authVars, evVars
<1>12. ~(seccWaiting \/ seccPreCharge \/ seccCharging \/ seccFinance
         \/ seccStopCharge)
  BY <1>1 DEF seccWaiting, seccPreCharge, seccCharging, seccFinance,
              seccStopCharge, ServiceStates
<1> QED
  BY <1>2, <1>3, <1>4, <1>5, <1>6, <1>7, <1>8, <1>9, <1>10, <1>11, <1>12
     DEF Next, secc_loop, OCPP_loop

(* The controller over the SPI port as built: no charge, no card, no        *)
(* transaction, whatever the EVSE and the central system do.                *)
THEOREM NothingWithoutAnswers == Spec => []IdleUnlessAnswered
<1>1. Init => IdleUnlessAnswered
  BY DEF Init, FsmInit, OcppInit, SeccInit, IdleUnlessAnswered, ServiceStates
<1>2. IdleUnlessAnswered /\ ServedOnlyIfAnswered' /\ [Next]_vars
        => IdleUnlessAnswered'
  BY IdleStep
<1> QED BY <1>1, <1>2, ServiceNeedsAnswers, PTL DEF Spec

-----------------------------------------------------------------------------
(* Pages                                                                    *)

(* Only seccMaintaince and a reboot touch what the upgrade keeps.           *)
LEMMA UpgradeSteps ==
  ASSUME [Next]_vars
  PROVE  \/ Reboot
         \/ PushDue /\ PushImage
         \/ UNCHANGED <<notify, currentPage, delivered>>
<1> USE DEF maintVars, firmwareVars
<1>1. CASE seccIdle \/ seccInitialize \/ seccLinkEvse \/ seccBootOcpp
  BY <1>1 DEF seccIdle, seccInitialize, FirstPassThen, seccLinkEvse,
              seccBootOcpp
<1>2. CASE seccWaiting \/ seccPreCharge \/ seccCharging
  <2>1. UNCHANGED firmwareVars
    BY <1>2 DEF seccWaiting, seccPreCharge, seccCharging
  <2> QED BY <2>1
<1>3. CASE seccFinance \/ seccStopCharge
  BY <1>3 DEF seccFinance, seccStopCharge
<1>4. CASE seccMaintaince
  BY <1>4 DEF seccMaintaince
<1>5. CASE evseMalfunction \/ seccMalfunction \/ UNCHANGED vars
  BY <1>5 DEF evseMalfunction, seccMalfunction, vars
<1>6. CASE OCPP_loop
  BY <1>6 DEF OCPP_loop, BootConfirmed, AuthorizeEnds, StartTransactionEnds,
              OnDownload, OnInstall
<1>7. CASE Environment
  BY <1>7 DEF Environment
<1> QED BY <1>1, <1>2, <1>3, <1>4, <1>5, <1>6, <1>7 DEF Next, secc_loop

(* A run of pages that starts at currentPage goes on where the last one     *)
(* ended; only a page that could not be sent is missing from it.            *)
LEMMA SendPagesOrder ==
  ASSUME TypeOK, PagesInOrder, SendPages
  PROVE  PagesInOrder'
<1>1. PICK stop \in (currentPage + 1) .. filePages :
        /\ currentPage' = stop
        /\ \E lost \in SUBSET (currentPage .. (stop - 1)) :
             /\ lost # {} => NotSent
             /\ delivered' = delivered \cup ((currentPage .. (stop - 1)) \ lost)
  BY DEF SendPages
<1>2. currentPage \in Nat /\ stop \in Nat /\ currentPage < stop
  BY MaxPagesAssumption DEF TypeOK, CountTypeOK
<1>3. 0 .. (stop - 1) = (0 .. (currentPage - 1)) \cup (currentPage .. (stop - 1))
  BY <1>2
<1>4. delivered' \subseteq 0 .. (currentPage' - 1)
  BY <1>1, <1>3 DEF PagesInOrder
<1>5. ~NotSent => delivered' = 0 .. (currentPage' - 1)
  BY <1>1, <1>3 DEF PagesInOrder
<1> QED BY <1>4, <1>5 DEF PagesInOrder, NotSent

LEMMA PagesStep == TypeOK /\ PagesInOrder /\ [Next]_vars => PagesInOrder'
<1> SUFFICES ASSUME TypeOK, PagesInOrder, [Next]_vars PROVE PagesInOrder'
  OBVIOUS
<1>1. CASE Reboot
  BY <1>1 DEF Reboot, MaintReboots, PagesInOrder
<1>2. CASE PushImage
  <2>1. CASE SendPages
    BY <2>1, SendPagesOrder
  <2>2. CASE UNCHANGED <<currentPage, delivered>>
    BY <2>2 DEF PagesInOrder, NotSent
  <2> QED BY <1>2, <2>1, <2>2 DEF PushImage
<1>3. CASE UNCHANGED <<notify, currentPage, delivered>>
  BY <1>3 DEF PagesInOrder, NotSent
<1> QED BY <1>1, <1>2, <1>3, UpgradeSteps

(* Pages reach the EVSE in order and at most once, whatever is lost and     *)
(* whenever the power goes.                                                 *)
THEOREM PagesStayInOrder == Spec => []PagesInOrder
<1>1. Init => PagesInOrder
  BY DEF Init, MaintInit, PagesInOrder
<1>2. TypeOK /\ PagesInOrder /\ [Next]_vars => PagesInOrder'
  BY PagesStep
<1> QED BY <1>1, <1>2, TypeCorrect, PTL DEF Spec

-----------------------------------------------------------------------------
(* Action properties                                                        *)

(* A reply with the plug out leaves evIsPlugged FALSE, one with the lock    *)
(* open leaves evIsLock FALSE, so neither can make seccPreCharge start; a   *)
(* reply with a faulty pilot can, on what an earlier reply has left.        *)
THEOREM ChargingStartsSafely == Spec => SafeStart
<1>1. TypeOK /\ [Next]_vars /\ fsmState # "Charging" /\ fsmState' = "Charging"
        => /\ lock = "LOCKED"
           /\ cp \in {"B", "C"} \/ (FaultyPilot /\ evIsPlugged)
           /\ cp = "C" \/ evRequestsEnergy
  <2>. SUFFICES ASSUME TypeOK, [Next]_vars,
                       fsmState # "Charging", fsmState' = "Charging"
                PROVE  /\ lock = "LOCKED"
                       /\ cp \in {"B", "C"} \/ (FaultyPilot /\ evIsPlugged)
                       /\ cp = "C" \/ evRequestsEnergy
    OBVIOUS
  <2>1. CASE seccPreCharge
    <3>1. cp \in CPState
      BY PilotStatesAssumption DEF TypeOK, EnumTypeOK
    <3>2. /\ ReadPilot /\ ReadLock
          /\ evIsPlugged' /\ evRequestsEnergy' /\ evIsLock'
      BY <2>1 DEF seccPreCharge, PollFails, AfterPoll, setFsmState
    <3>. QED  BY <3>1, <3>2 DEF ReadPilot, ReadLock, CPState, FaultyPilot
  <2>2. CASE ~seccPreCharge /\ secc_loop
    BY <2>2
       DEF secc_loop, seccIdle, seccInitialize, FirstPassThen, seccLinkEvse,
           seccBootOcpp, seccWaiting, seccCharging, seccFinance,
           seccStopCharge, seccMaintaince, evseMalfunction, seccMalfunction,
           Reboot, PollFails, AfterPoll, setFsmState, vars
  <2>3. CASE OCPP_loop
    BY <2>3
       DEF OCPP_loop, BootConfirmed, AuthorizeEnds, StartTransactionEnds,
           OnDownload, OnInstall, Reboot, setFsmState
  <2>4. CASE Environment \/ UNCHANGED vars
    BY <2>4 DEF Environment, Reboot, setFsmState, vars
  <2> QED BY <2>1, <2>2, <2>3, <2>4 DEF Next
<1> QED BY <1>1, TypeCorrect, PTL DEF Spec, SafeStart

(* A charge that goes on: a pass that reads the plug out or the lock open   *)
(* ends it, one that reads a faulty pilot ends it or faults.                *)
THEOREM ChargingStaysSafe == Spec => NoUnsafeCharging
<1>1. TypeOK /\ seccCharging /\ transactionRunning' /\ fsmState' = "Charging"
        => lock = "LOCKED" /\ cp \in {"B", "C"}
  <2>. SUFFICES ASSUME TypeOK, seccCharging, transactionRunning',
                       fsmState' = "Charging"
                PROVE  lock = "LOCKED" /\ cp \in {"B", "C"}
    OBVIOUS
  <2>1. cp \in CPState
    BY PilotStatesAssumption DEF TypeOK, EnumTypeOK
  <2>2. /\ ReadPilot /\ ReadLock
        /\ evIsPlugged' /\ evIsLock' /\ ~FaultyPilot
    BY DEF seccCharging, PollFails, AfterPoll, ChargeOver, setFsmState
  <2>. QED  BY <2>1, <2>2 DEF ReadPilot, ReadLock, CPState, FaultyPilot
<1> QED BY <1>1, TypeCorrect, PTL DEF Spec, NoUnsafeCharging

(* No step but a reboot leaves maintenance.                                 *)
THEOREM MaintenanceIsLasting == Spec => MaintenanceLasts
<1>1. ASSUME [Next]_vars, fsmState = "maintaining"
      PROVE  fsmState' \in {"maintaining", "Unknown"}
  <2>1. CASE secc_loop
    BY <1>1, <2>1
       DEF secc_loop, seccIdle, seccInitialize, seccLinkEvse, seccBootOcpp,
           seccWaiting, seccPreCharge, seccCharging, seccFinance,
           seccStopCharge, seccMaintaince, evseMalfunction, seccMalfunction,
           Reboot, setFsmState
  <2>2. CASE OCPP_loop
    BY <1>1, <2>2
       DEF OCPP_loop, BootConfirmed, AuthorizeEnds, StartTransactionEnds,
           OnDownload, OnInstall, Reboot, setFsmState
  <2>3. CASE Environment \/ UNCHANGED vars
    BY <1>1, <2>3 DEF Environment, Reboot, setFsmState, vars
  <2> QED BY <1>1, <2>1, <2>2, <2>3 DEF Next
<1> QED BY <1>1, PTL DEF Spec, MaintenanceLasts

(* Every step that is not a reboot goes on, or stays: the only way to a     *)
(* fault is from a stage below it, the only way out of a fault but a reboot *)
(* is to maintenance.                                                       *)
LEMMA StageStep ==
  ASSUME [Next]_vars, ~Reboot
  PROVE  Stage(fsmState') >= Stage(fsmState)
<1> USE DEF Stage, setFsmState
<1>1. CASE seccIdle \/ seccInitialize
  BY <1>1 DEF seccIdle, seccInitialize, FirstPassThen
<1>2. CASE seccLinkEvse
  BY <1>2 DEF seccLinkEvse
<1>3. CASE seccBootOcpp
  BY <1>3 DEF seccBootOcpp
<1>4. CASE seccWaiting
  BY <1>4 DEF seccWaiting, PollFails, AfterPoll
<1>5. CASE seccPreCharge
  BY <1>5 DEF seccPreCharge, PollFails, AfterPoll
<1>6. CASE seccCharging
  BY <1>6 DEF seccCharging, PollFails, AfterPoll
<1>7. CASE seccFinance \/ seccStopCharge
  BY <1>7 DEF seccFinance, seccStopCharge
<1>8. CASE seccMaintaince \/ evseMalfunction \/ seccMalfunction
  <2>1. UNCHANGED fsmState
    BY <1>8 DEF seccMaintaince, evseMalfunction, seccMalfunction, vars
  <2> QED BY <2>1
<1>9. CASE \E location \in Locations : OnDownload(location)
  <2>1. fsmState' \in {"maintaining", fsmState}
    BY <1>9 DEF OnDownload
  <2> QED BY <2>1
<1>10. CASE OCPP_loop /\ ~\E location \in Locations : OnDownload(location)
  <2>1. UNCHANGED fsmState
    BY <1>10 DEF OCPP_loop, BootConfirmed, AuthorizeEnds,
                 StartTransactionEnds, OnInstall
  <2> QED BY <2>1
<1>11. CASE Environment \/ UNCHANGED vars
  <2>1. UNCHANGED fsmState
    BY <1>11 DEF Environment, vars
  <2> QED BY <2>1
<1> QED
  BY <1>1, <1>2, <1>3, <1>4, <1>5, <1>6, <1>7, <1>8, <1>9, <1>10, <1>11
     DEF Next, secc_loop

(* Only seccWaiting asks, and only an answer that is awaited is taken.      *)
LEMMA AnswerStep ==
  ASSUME AuthInv, [Next]_vars, ~Reboot
  PROVE  AnswerStands
<1> USE DEF AnswerStands, authVars, ocppVars
<1>1. CASE seccWaiting
  BY <1>1 DEF seccWaiting, Authorize
<1>2. CASE \E outcome \in AuthOutcomes : AuthorizeEnds(outcome)
  BY <1>2 DEF AuthorizeEnds, AuthInv
<1>3. CASE secc_loop /\ ~seccWaiting
  <2>1. UNCHANGED authState
    BY <1>3 DEF secc_loop, seccIdle, seccInitialize, FirstPassThen,
                seccLinkEvse, seccBootOcpp, seccPreCharge, seccCharging,
                seccFinance, seccStopCharge, seccMaintaince, evseMalfunction,
                seccMalfunction, vars
  <2> QED BY <2>1
<1>4. CASE OCPP_loop /\ ~\E outcome \in AuthOutcomes : AuthorizeEnds(outcome)
  <2>1. UNCHANGED authState
    BY <1>4 DEF OCPP_loop, BootConfirmed, StartTransactionEnds, OnDownload,
                OnInstall
  <2> QED BY <2>1
<1>5. CASE Environment \/ UNCHANGED vars
  BY <1>5 DEF Environment, vars
<1> QED BY <1>1, <1>2, <1>3, <1>4, <1>5 DEF Next

(* One boot serves one session and uses one answer to authorize.            *)
THEOREM OneSession == Spec => OneSessionPerBoot
<1>1. ASSUME Inv, [Next]_vars
      PROVE  StartsAgain \/ (Stage(fsmState') >= Stage(fsmState) /\ AnswerStands)
  <2>1. CASE Reboot
    BY <2>1 DEF Reboot, StartsAgain, setFsmState
  <2>2. CASE ~Reboot
    BY <1>1, <2>2, StageStep, AnswerStep DEF Inv
  <2> QED BY <2>1, <2>2
<1> QED BY <1>1, InvHolds, PTL DEF Spec, OneSessionPerBoot

(* The passes in which RestartDue looks: a remainder of 0 up to twice the   *)
(* period is 0, the period or twice the period.                             *)
LEMMA PeriodDivides ==
  ASSUME NEW pass \in 0 .. (2 * RestartPeriod)
  PROVE  pass % RestartPeriod = 0
           <=> pass \in {0, RestartPeriod, 2 * RestartPeriod}
<1> DEFINE quotient == pass \div RestartPeriod
           rest == pass % RestartPeriod
<1>1. RestartPeriod \in Nat /\ RestartPeriod > 0 /\ pass \in Nat
      /\ pass <= 2 * RestartPeriod
  BY RestartPeriodAssumption
<1>2. quotient \in Int
  BY <1>1
<1>3. rest \in 0 .. (RestartPeriod - 1)
  BY <1>1
<1>4. pass = RestartPeriod * quotient + rest
  BY <1>1
<1> HIDE DEF quotient, rest
<1>5. ~(quotient <= -1)
  <2>1. ASSUME quotient <= -1 PROVE RestartPeriod * quotient <= RestartPeriod * (-1)
    BY <1>1, <1>2, <2>1
  <2> QED BY <1>1, <1>2, <1>3, <1>4, <2>1
<1>6. ~(quotient >= 3)
  <2>1. ASSUME quotient >= 3 PROVE RestartPeriod * quotient >= RestartPeriod * 3
    BY <1>1, <1>2, <2>1
  <2> QED BY <1>1, <1>2, <1>3, <1>4, <2>1
<1>7. quotient \in {0, 1, 2}
  BY <1>2, <1>5, <1>6
<1>8. pass \in {rest, RestartPeriod + rest, 2 * RestartPeriod + rest}
  BY <1>1, <1>3, <1>4, <1>7
<1>9. rest = 0 <=> pass \in {0, RestartPeriod, 2 * RestartPeriod}
  BY <1>1, <1>3, <1>8
<1> QED BY <1>9 DEF rest

LEMMA NextPass ==
  ASSUME passes \in 0 .. (CountWrap - 1)
  PROVE  (passes + 1) % CountWrap
           = IF passes + 1 = CountWrap THEN 0 ELSE passes + 1
<1> DEFINE quotient == (passes + 1) \div CountWrap
           rest == (passes + 1) % CountWrap
<1>1. CountWrap \in Nat /\ CountWrap > 0 /\ passes \in Nat
      /\ passes + 1 <= CountWrap
  BY CountWrapAssumption, RestartPeriodAssumption
<1>2. quotient \in Int
  BY <1>1
<1>3. rest \in 0 .. (CountWrap - 1)
  BY <1>1
<1>4. passes + 1 = CountWrap * quotient + rest
  BY <1>1
<1> HIDE DEF quotient, rest
<1>5. ~(quotient <= -1)
  <2>1. ASSUME quotient <= -1 PROVE CountWrap * quotient <= CountWrap * (-1)
    BY <1>1, <1>2, <2>1
  <2> QED BY <1>1, <1>2, <1>3, <1>4, <2>1
<1>6. ~(quotient >= 2)
  <2>1. ASSUME quotient >= 2 PROVE CountWrap * quotient >= CountWrap * 2
    BY <1>1, <1>2, <2>1
  <2> QED BY <1>1, <1>2, <1>3, <1>4, <2>1
<1>7. quotient \in {0, 1}
  BY <1>2, <1>5, <1>6
<1>8. passes + 1 \in {rest, CountWrap + rest}
  BY <1>1, <1>3, <1>4, <1>7
<1>9. rest = IF passes + 1 = CountWrap THEN 0 ELSE passes + 1
  BY <1>1, <1>3, <1>8
<1> QED BY <1>9 DEF rest

(* RestartDue is met exactly in the last of the passes that are left.       *)
LEMMA DueAtLastPass ==
  ASSUME TypeOK, installStatus = "Installed"
  PROVE  /\ RestartDue <=> PassesLeft = 1
         /\ ~RestartDue /\ CountPass =>
              PassesLeft' = PassesLeft - 1 /\ PassesLeft' >= 1
<1> DEFINE pass == (passes + 1) % CountWrap
<1>1. /\ RestartPeriod \in Nat /\ RestartPeriod > 0 /\ CountWrap \in Nat
      /\ CountWrap > 2 * RestartPeriod
      /\ passes \in Nat /\ passes < CountWrap
      /\ passes \in 0 .. (CountWrap - 1)
  BY RestartPeriodAssumption, CountWrapAssumption DEF TypeOK, CountTypeOK
<1>2. pass = IF passes + 1 = CountWrap THEN 0 ELSE passes + 1
  BY <1>1, NextPass
<1>3. RestartDue <=> pass < 2 * RestartPeriod + 1 /\ pass % RestartPeriod = 0
  BY DEF RestartDue
<1>4. CountPass => passes' = pass
  BY DEF CountPass
<1> HIDE DEF pass
<1>5. pass < 2 * RestartPeriod + 1 => pass \in 0 .. (2 * RestartPeriod)
  BY <1>1, <1>2
<1>6. RestartDue <=> pass \in {0, RestartPeriod, 2 * RestartPeriod}
  BY <1>1, <1>2, <1>3, <1>5, PeriodDivides
<1>7. RestartDue <=> PassesLeft = 1
  BY <1>1, <1>2, <1>6 DEF PassesLeft
<1>8. ASSUME ~RestartDue, CountPass
      PROVE  PassesLeft' = PassesLeft - 1 /\ PassesLeft' >= 1
  <2>1. /\ passes' = passes + 1
        /\ passes + 1 \notin {RestartPeriod, 2 * RestartPeriod}
        /\ passes + 1 < CountWrap
    BY <1>1, <1>2, <1>4, <1>6, <1>8
  <2> QED BY <1>1, <2>1 DEF PassesLeft
<1> QED BY <1>7, <1>8

(* What can be proved of InstalledImageRestarts: the restart comes nearer.  *)
THEOREM RestartIsNearing == Spec => RestartNears
<1>1. ASSUME TypeOK, seccMaintaince, firmwareName = "LPC",
             installStatus = "Installed", ~NoFile
      PROVE  \/ fsmState' = "Unknown" /\ PassesLeft = 1
             \/ PassesLeft' = PassesLeft - 1 /\ PassesLeft' >= 1
  <2>1. (RestartDue /\ Reboot) \/ (~RestartDue /\ CountPass)
    BY <1>1 DEF seccMaintaince
  <2>2. CASE RestartDue /\ Reboot
    BY <1>1, <2>2, DueAtLastPass DEF Reboot, setFsmState
  <2>3. CASE ~RestartDue /\ CountPass
    BY <1>1, <2>3, DueAtLastPass
  <2> QED BY <2>1, <2>2, <2>3
<1> QED BY <1>1, TypeCorrect, PTL DEF Spec, RestartNears

-----------------------------------------------------------------------------
(* Nearer to an end                                                         *)

(* Once BootNotification has been asked for, its confirmation is in flight  *)
(* or has come.                                                             *)
BootAwaited == "BootOcpp" \in ran => bootReq \/ evseIsBooted

LEMMA RanStep ==
  ASSUME BootAwaited, [Next]_vars
  PROVE  BootAwaited'
<1> USE DEF BootAwaited, bootVars, ocppVars
<1>1. CASE Reboot
  BY <1>1 DEF Reboot
<1>2. CASE seccIdle \/ seccInitialize
  BY <1>2 DEF seccIdle, seccInitialize, FirstPassThen
<1>3. CASE seccLinkEvse
  BY <1>3 DEF seccLinkEvse
<1>4. CASE seccBootOcpp
  BY <1>4 DEF seccBootOcpp
<1>5. CASE ~Reboot /\ secc_loop
             /\ ~(seccIdle \/ seccInitialize \/ seccLinkEvse \/ seccBootOcpp)
  BY <1>5 DEF secc_loop, seccWaiting, seccPreCharge, seccCharging, seccFinance,
              seccStopCharge, seccMaintaince, evseMalfunction,
              seccMalfunction, vars
<1>6. CASE BootConfirmed
  BY <1>6 DEF BootConfirmed
<1>7. CASE ~Reboot /\ OCPP_loop /\ ~BootConfirmed
  BY <1>7 DEF OCPP_loop, AuthorizeEnds, StartTransactionEnds, OnDownload,
              OnInstall
<1>8. CASE ~Reboot /\ (Environment \/ UNCHANGED vars)
  BY <1>8 DEF Environment, vars
<1> QED
  BY <1>1, <1>2, <1>3, <1>4, <1>5, <1>6, <1>7, <1>8 DEF Next

(* A boot ends if its passes go on and its confirmation comes: they are     *)
(* fewer after each of them, and it is on its way while they wait.          *)
THEOREM BootIsAdvancing == Spec => BootAdvances
<1>1. Init => BootAwaited
  BY DEF Init, SeccInit, BootAwaited
<1>2. BootAwaited /\ [Next]_vars => BootAwaited'
  BY RanStep
<1>3. ASSUME BootAwaited, secc_loop, fsmState \in StartingStates
      PROVE  \/ BootLeft' \in 0 .. (BootLeft - 1)
             \/ fsmState = "BootOcpp" /\ UNCHANGED BootLeft /\ bootReq'
  <2> USE DEF BootLeft, FirstPassDone, Stage, StartingStates, setFsmState
  <2>1. CASE seccIdle
    BY <2>1 DEF seccIdle, FirstPassThen
  <2>2. CASE seccInitialize
    BY <2>2 DEF seccInitialize, FirstPassThen
  <2>3. CASE seccLinkEvse
    BY <2>3 DEF seccLinkEvse
  <2>4. CASE seccBootOcpp
    <3>1. fsmState = "BootOcpp" /\ ran' = ran \cup {"BootOcpp"}
      BY <2>4 DEF seccBootOcpp
    <3>2. BootLeft = IF "BootOcpp" \in ran THEN 1 ELSE 2
      BY <3>1
    <3>3. ASSUME ~WaitsForBoot PROVE BootLeft' = 0
      <4>1. fsmState' \in {"SuspendedSECC", "SuspendedEVSE", "Waitting"}
        BY <2>4, <3>3 DEF seccBootOcpp
      <4> QED BY <4>1
    <3>4. ASSUME WaitsForBoot PROVE fsmState' = fsmState
      BY <2>4, <3>1, <3>4 DEF seccBootOcpp
    <3>5. ASSUME WaitsForBoot PROVE BootLeft' = 1
      BY <3>1, <3>4, <3>5
    <3>6. ASSUME WaitsForBoot, "BootOcpp" \in ran
          PROVE  UNCHANGED BootLeft /\ bootReq'
      <4>1. bootReq' = (bootReq \/ "BootOcpp" \notin ran) /\ ~evseIsBooted
        BY <2>4, <3>6 DEF seccBootOcpp, WaitsForBoot
      <4> QED BY <1>3, <3>2, <3>5, <3>6, <4>1 DEF BootAwaited
    <3> HIDE DEF BootLeft
    <3> QED BY <3>1, <3>2, <3>3, <3>5, <3>6
  <2>5. seccIdle \/ seccInitialize \/ seccLinkEvse \/ seccBootOcpp
    BY <1>3 DEF secc_loop, seccWaiting, seccPreCharge, seccCharging,
                seccFinance, seccStopCharge, seccMaintaince, evseMalfunction,
                seccMalfunction
  <2> QED BY <2>1, <2>2, <2>3, <2>4, <2>5
<1> QED BY <1>1, <1>2, <1>3, PTL DEF Spec, BootAdvances

(* Only a stop and a confirmation touch the transactions of a charge that   *)
(* is over.                                                                 *)
LEMMA FinishingSteps ==
  ASSUME [Next]_vars, fsmState = "Finishing", fsmState' = "Finishing"
  PROVE  \/ seccStopCharge
         \/ \E outcome \in StartOutcomes : StartTransactionEnds(outcome)
         \/ UNCHANGED <<startReqs, transactionRunning>>
<1>1. CASE secc_loop
  BY <1>1 DEF secc_loop, seccIdle, seccInitialize, seccLinkEvse, seccBootOcpp,
              seccWaiting, seccPreCharge, seccCharging, seccFinance,
              seccMaintaince, evseMalfunction, seccMalfunction
<1>2. CASE OCPP_loop
  BY <1>2 DEF OCPP_loop, BootConfirmed, AuthorizeEnds, OnDownload, OnInstall,
              Reboot, setFsmState, ocppVars
<1>3. CASE Environment \/ UNCHANGED vars
  BY <1>3 DEF Environment, Reboot, setFsmState, ocppVars, vars
<1> QED BY <1>1, <1>2, <1>3 DEF Next

(* What FinishingSettles rests on: the stops and the confirmations of a     *)
(* charge that is over run out, and then no transaction is left.            *)
THEOREM SettlingIsAdvancing == Spec => SettlingAdvances
<1>1. ASSUME Inv, Inv', [Next]_vars, fsmState = "Finishing",
             fsmState' = "Finishing"
      PROVE  /\ ToSettle' \in 0 .. ToSettle
             /\ (seccStopCharge /\ transactionRunning)
                  \/ (\E outcome \in StartOutcomes : StartTransactionEnds(outcome))
                  => ToSettle' < ToSettle
             /\ ToSettle' = 0 => txId' = NoTx
  <2>1. /\ startReqs \in Nat /\ startReqs' \in Nat
        /\ transactionRunning \in BOOLEAN /\ transactionRunning' \in BOOLEAN
    BY <1>1, MaxStartAssumption DEF Inv, TypeOK, CountTypeOK, FlagTypeOK
  <2>2. ToSettle' = 0 => txId' = NoTx
    <3>1. PICK n \in Nat : n = startReqs'
      BY <2>1
    <3>2. ASSUME transactionRunning' PROVE ToSettle' # 0
      <4>1. ToSettle' = 2 * n + 1
        BY <3>1, <3>2 DEF ToSettle
      <4> QED BY <4>1
    <3>3. fsmState' = "Finishing" /\ ~transactionRunning' => txId' = NoTx
      BY <1>1 DEF Inv, TxInv, SettlementMatchesTx
    <3> QED BY <1>1, <3>2, <3>3
  <2>3. CASE seccStopCharge
    <3>1. startReqs' = startReqs /\ ~transactionRunning'
      BY <2>3 DEF seccStopCharge
    <3>2. ~\E outcome \in StartOutcomes : StartTransactionEnds(outcome)
      BY <2>1, <3>1 DEF StartTransactionEnds, StartEnds
    <3> QED BY <2>1, <2>2, <3>1, <3>2 DEF ToSettle
  <2>4. CASE \E outcome \in StartOutcomes : StartTransactionEnds(outcome)
    <3>1. startReqs > 0 /\ startReqs' = startReqs - 1
      BY <2>4 DEF StartTransactionEnds, StartEnds
    <3>2. ToSettle' \in 0 .. (ToSettle - 1)
      BY <2>1, <3>1 DEF ToSettle
    <3>3. ToSettle \in Nat
      BY <2>1 DEF ToSettle
    <3> QED BY <2>2, <3>2, <3>3
  <2>5. CASE /\ UNCHANGED <<startReqs, transactionRunning>>
             /\ ~seccStopCharge
             /\ ~\E outcome \in StartOutcomes : StartTransactionEnds(outcome)
    <3>1. ToSettle' = ToSettle /\ ToSettle \in Nat
      BY <2>1, <2>5 DEF ToSettle
    <3> QED BY <2>2, <2>5, <3>1
  <2> QED BY <1>1, <2>3, <2>4, <2>5, FinishingSteps
<1> QED BY <1>1, InvHolds, PTL DEF Spec, SettlingAdvances

-----------------------------------------------------------------------------
(* One image in a boot                                                      *)

(* Until a pass has sent the image, no page has been counted or received.   *)
Untouched == ~notify => currentPage = 0 /\ delivered = {}

(* However the loop over the pages ends, the image is marked as sent, so    *)
(* that pages are delivered in one pass of a boot at most.                  *)
THEOREM OneImage == Spec => OneImagePerBoot
<1>1. Init => Untouched
  BY DEF Init, MaintInit, Untouched
<1>2. Untouched /\ [Next]_vars => Untouched'
  BY UpgradeSteps DEF Untouched, Reboot, MaintReboots, PushImage
<1>3. ASSUME Untouched, [Next]_vars, delivered # {}
      PROVE  delivered' \in {delivered, {}}
  BY <1>3, UpgradeSteps DEF Untouched, Reboot, MaintReboots, PushDue
<1> QED BY <1>1, <1>2, <1>3, PTL DEF Spec, OneImagePerBoot

=============================================================================
