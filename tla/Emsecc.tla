------------------------------- MODULE Emsecc -------------------------------
(***************************************************************************)
(* The charge controller EMSECC (emSECC.cpp, emSECC.hpp): the handlers of  *)
(* its state machine, the listeners it gives to the OCPP client, and their *)
(* composition with the EVSE, the OCPP client and the firmware service.    *)
(*                                                                         *)
(* loop() in main.cpp alternates secc_loop and OCPP_loop on one thread, so *)
(* a handler runs from its first line to its return without a listener in  *)
(* between: each handler is one action.  Listeners run in OCPP_loop, any   *)
(* number of them between two passes of secc_loop: one action each.        *)
(***************************************************************************)
EXTENDS FiniteStateMachine, OcppClient, Maintenance

CONSTANT MayPowerCycle    \* TRUE: the module may lose power at any time

VARIABLES
  ran,                    \* handlers whose static loopCount is not 0
  evseIsBooted,
  authState,              \* authStatus.authState
  authorizationProvided,
  transactionRunning,
  evIsPlugged, evRequestsEnergy, evIsLock

bootVars == <<ran, evseIsBooted>>
authVars == <<authState, authorizationProvided>>
evVars == <<evIsPlugged, evRequestsEnergy, evIsLock>>
txVars == <<startReqs, txId, transactionRunning>>
firmwareVars == <<proxyVars, flashVars, maintVars>>
vars == <<fsmState, evseVars, ocppVars, firmwareVars, bootVars, authVars,
          evVars, transactionRunning>>

ASSUME MayPowerCycleAssumption == MayPowerCycle \in BOOLEAN

(* AUTHORIZE_PROCESS_STATE, without the common STATE_ prefix.               *)
AuthorizeProcessState ==
  {"AUTHORIZE_UNKNOWN", "AUTHORIZING", "AUTHORIZE_TIMEOUT",
   "AUTHORIZE_ERROR", "AUTHORIZE_SUCCESS"}

(* The handlers that do something else the first time they run.             *)
FirstPassHandlers == {"Idle", "Initialize", "EvseLink", "BootOcpp"}

-----------------------------------------------------------------------------
SeccInit ==
  /\ ran = {} /\ evseIsBooted = FALSE
  /\ authState = "AUTHORIZE_UNKNOWN" /\ authorizationProvided = FALSE
  /\ transactionRunning = FALSE
  /\ evIsPlugged = FALSE /\ evRequestsEnergy = FALSE /\ evIsLock = FALSE

Init ==
  /\ FsmInit /\ EvseInit /\ OcppInit /\ ProxyInit /\ FlashInit /\ MaintInit
  /\ SeccInit

(* esp_restart, ESP.restart or a loss of power: everything in memory starts *)
(* again; the EVSE and the flash are as they were.                          *)
Reboot ==
  /\ setFsmState("Unknown")
  /\ ran' = {} /\ evseIsBooted' = FALSE
  /\ authState' = "AUTHORIZE_UNKNOWN" /\ authorizationProvided' = FALSE
  /\ transactionRunning' = FALSE
  /\ evIsPlugged' = FALSE /\ evRequestsEnergy' = FALSE /\ evIsLock' = FALSE
  /\ OcppReboots /\ ProxyReboots /\ MaintReboots
  /\ UNCHANGED evseVars

-----------------------------------------------------------------------------
(* Starting up                                                              *)

(* Mutant: the handler forgets to count its passes.                         *)
FirstPassForgotten(handler, next) ==
  /\ UNCHANGED ran
  /\ IF handler \in ran THEN setFsmState(next) ELSE UNCHANGED fsmState
  /\ UNCHANGED <<evseVars, ocppVars, firmwareVars, evseIsBooted, authVars,
                 evVars, transactionRunning>>

(* The first pass of seccIdle and of seccInitialize stays in the state.     *)
FirstPassThen(handler, next) ==
  /\ ran' = ran \cup {handler}
  /\ IF handler \in ran THEN setFsmState(next) ELSE UNCHANGED fsmState
  /\ UNCHANGED <<evseVars, ocppVars, firmwareVars, evseIsBooted, authVars,
                 evVars, transactionRunning>>

seccIdle ==
  fsmState = "Unknown" /\ FirstPassThen("Idle", "Initialize")

(* The first pass also registers the firmware listeners: see OnDownload.    *)
seccInitialize ==
  fsmState = "Initialize" /\ FirstPassThen("Initialize", "EvseLink")

(* getTime, then getConfig.  loopCount is left at 0 by every early return.  *)
seccLinkEvse ==
  /\ fsmState = "EvseLink"
  /\ \/ /\ "EvseLink" \in ran
        /\ setFsmState("BootOcpp") /\ UNCHANGED ran
     \/ /\ "EvseLink" \notin ran
        /\ \/ NotSent /\ setFsmState("SuspendedSECC") /\ UNCHANGED ran
           \/ Unanswered /\ setFsmState("BootOcpp") /\ UNCHANGED ran
           \/ Answered /\ Unanswered
              /\ setFsmState("SuspendedEVSE") /\ UNCHANGED ran
           \/ Answered /\ UNCHANGED fsmState /\ ran' = ran \cup {"EvseLink"}
  /\ UNCHANGED <<evseVars, ocppVars, firmwareVars, evseIsBooted, authVars,
                 evVars, transactionRunning>>

(* Mutant: only the first pass waits.                                       *)
WaitsForBootOnce == ~evseIsBooted /\ "BootOcpp" \notin ran

WaitsForBoot == ~evseIsBooted

(* bootNotification in the first pass; setTime once it has been confirmed.  *)
seccBootOcpp ==
  /\ fsmState = "BootOcpp"
  /\ ran' = ran \cup {"BootOcpp"}
  /\ bootReq' = (bootReq \/ "BootOcpp" \notin ran)
  /\ \/ WaitsForBoot /\ UNCHANGED fsmState
     \/ /\ ~WaitsForBoot
        /\ \/ NotSent /\ setFsmState("SuspendedSECC")
           \/ Unanswered /\ setFsmState("SuspendedEVSE")
           \/ Answered /\ setFsmState("Waitting")
  /\ UNCHANGED <<evseVars, authReq, startReqs, txId, firmwareVars,
                 evseIsBooted, authVars, evVars, transactionRunning>>

-----------------------------------------------------------------------------
(* The poll of getEVSEState that seccWaiting, seccPreCharge and seccCharging *)
(* share.  A pilot outside A, B, C leaves what is known of the EV as it was. *)
FaultyPilot == cp \in {"D", "E", "F", "INVALID"}

(* Mutant: the plug latches as the request for energy does.                 *)
ReadPilotLatched ==
  /\ evIsPlugged' = (evIsPlugged \/ cp \in {"B", "C"})
  /\ evRequestsEnergy' = (evRequestsEnergy \/ cp = "C")

ReadPilot ==
  /\ evIsPlugged' = CASE cp = "A" -> FALSE
                      [] cp \in {"B", "C"} -> TRUE
                      [] OTHER -> evIsPlugged
  /\ evRequestsEnergy' = (evRequestsEnergy \/ cp = "C")

(* Mutant: the lock is never seen to open.                                  *)
ReadLockLatched == evIsLock' = (evIsLock \/ lock = "LOCKED")

ReadLock == evIsLock' = (lock = "LOCKED")

(* The handler reports a faulty pilot at once and goes on: a later change   *)
(* of state in the same pass replaces SuspendedEVSE.                        *)
AfterPoll(ready, next) ==
  setFsmState(IF ready THEN next
              ELSE IF FaultyPilot THEN "SuspendedEVSE" ELSE fsmState)

PollFails ==
  \/ NotSent /\ setFsmState("SuspendedSECC")
  \/ Unanswered /\ setFsmState("SuspendedEVSE")

-----------------------------------------------------------------------------
(* Waiting for a car, a card and the central system's word on the card      *)

(* getRFIDState, polled while no authorization is under way or granted.     *)
RfidPolled == authState \notin {"AUTHORIZING", "AUTHORIZE_SUCCESS"}

(* A tag of full length is remembered, and is never forgotten.              *)
ReadRfid ==
  IF RfidPolled
    THEN \E presented \in BOOLEAN :
           authorizationProvided' = (authorizationProvided \/ presented)
    ELSE UNCHANGED authorizationProvided

(* authorize is called once: no answer leads back to AUTHORIZE_UNKNOWN.     *)
Authorize ==
  IF authState = "AUTHORIZE_UNKNOWN" /\ authorizationProvided'
    THEN authState' = "AUTHORIZING" /\ authReq' = TRUE
    ELSE UNCHANGED <<authState, authReq>>

(* Mutants: a card is enough; the answer need not be an acceptance.         *)
ReadyWithCard == evIsPlugged' /\ evRequestsEnergy' /\ authorizationProvided'
ReadyOnceAsked ==
  evIsPlugged' /\ evRequestsEnergy' /\ authState' # "AUTHORIZE_UNKNOWN"

ReadyToPrepare ==
  evIsPlugged' /\ evRequestsEnergy' /\ authState' = "AUTHORIZE_SUCCESS"

seccWaiting ==
  /\ fsmState = "Waitting"
  /\ \/ /\ PollFails
        /\ UNCHANGED <<authVars, authReq, evIsPlugged, evRequestsEnergy>>
     \/ /\ Answered /\ ReadPilot
        /\ \/ RfidPolled /\ PollFails /\ UNCHANGED <<authVars, authReq>>
           \/ /\ ReadRfid
              /\ Authorize
              /\ AfterPoll(ReadyToPrepare, "Preparing")
  /\ UNCHANGED <<evseVars, bootReq, txVars, firmwareVars, bootVars, evIsLock>>

-----------------------------------------------------------------------------
(* The charge                                                               *)

seccPreCharge ==
  /\ fsmState = "Preparing"
  /\ \/ PollFails /\ UNCHANGED evVars
     \/ /\ Answered /\ ReadPilot /\ ReadLock
        /\ AfterPoll(evIsPlugged' /\ evRequestsEnergy' /\ evIsLock',
                     "Charging")
  /\ UNCHANGED <<evseVars, ocppVars, firmwareVars, bootVars, authVars,
                 transactionRunning>>

(* Mutant: tid <= 0 for tid < 0.                                            *)
BeginTransactionOffByOne ==
  \/ transactionRunning /\ UNCHANGED txVars
  \/ /\ ~transactionRunning /\ txId # ActiveTx
     /\ StartTransaction /\ UNCHANGED transactionRunning
  \/ /\ ~transactionRunning /\ txId = ActiveTx
     /\ transactionRunning' = TRUE /\ UNCHANGED <<startReqs, txId>>

(* Any id that is not negative counts as a running transaction.             *)
BeginTransaction ==
  \/ transactionRunning /\ UNCHANGED txVars
  \/ /\ ~transactionRunning /\ txId = NoTx
     /\ StartTransaction /\ UNCHANGED transactionRunning
  \/ /\ ~transactionRunning /\ txId # NoTx
     /\ transactionRunning' = TRUE /\ UNCHANGED <<startReqs, txId>>

(* Mutants: the confirmation is not waited for; all three must be gone.     *)
ChargeOverUnconfirmed == ~evIsPlugged' \/ ~evRequestsEnergy' \/ ~evIsLock'
ChargeOverIfAll ==
  transactionRunning' /\ ~evIsPlugged' /\ ~evRequestsEnergy' /\ ~evIsLock'

ChargeOver ==
  /\ transactionRunning'
  /\ ~evIsPlugged' \/ ~evRequestsEnergy' \/ ~evIsLock'

seccCharging ==
  /\ fsmState = "Charging"
  /\ BeginTransaction
  /\ \/ PollFails /\ UNCHANGED evVars
     \/ /\ Answered /\ ReadPilot /\ ReadLock
        /\ AfterPoll(ChargeOver, "Finance")
  /\ UNCHANGED <<evseVars, bootReq, authReq, firmwareVars, bootVars, authVars>>

seccFinance ==
  /\ fsmState = "Finance"
  /\ setFsmState("Finishing")
  /\ UNCHANGED <<evseVars, ocppVars, firmwareVars, bootVars, authVars, evVars,
                 transactionRunning>>

(* No way out of Finishing but a firmware download or a reboot.             *)
seccStopCharge ==
  /\ fsmState = "Finishing"
  /\ IF transactionRunning
       THEN StopTransaction /\ transactionRunning' = FALSE
       ELSE UNCHANGED <<txId, transactionRunning>>
  /\ UNCHANGED <<fsmState, evseVars, bootReq, authReq, startReqs,
                 firmwareVars, bootVars, authVars, evVars>>

-----------------------------------------------------------------------------
(* Maintenance and faults                                                   *)

(* A pass that returns early, or that neither sends the image nor restarts. *)
(* A restart discards what the pass did to the SECC's memory, not the pages *)
(* it sent; MaintReboots forgets those too, counting them per boot.         *)
seccMaintaince ==
  /\ fsmState = "maintaining"
  /\ \/ /\ \/ /\ firmwareName # "LPC" \/ NoFile
              /\ UNCHANGED <<notify, currentPage, delivered>>
           \/ /\ firmwareName = "LPC" /\ FileReadable /\ ~RestartDue
              /\ IF PushDue THEN PushImage
                            ELSE UNCHANGED <<notify, currentPage, delivered>>
        /\ CountPass
        /\ UNCHANGED <<fsmState, evseVars, ocppVars, proxyVars, flashVars,
                       bootVars, authVars, evVars, transactionRunning>>
     \/ /\ firmwareName = "LPC" /\ FileReadable /\ RestartDue
        /\ Reboot

(* evseMalfunction logs once and waits for someone else to act.             *)
evseMalfunction == fsmState = "SuspendedEVSE" /\ UNCHANGED vars

seccMalfunction == fsmState = "SuspendedSECC" /\ Reboot

(* One call of secc_loop: the handler of the current state.                 *)
secc_loop ==
  \/ seccIdle \/ seccInitialize \/ seccLinkEvse \/ seccBootOcpp
  \/ seccWaiting \/ seccPreCharge \/ seccCharging \/ seccFinance
  \/ seccStopCharge \/ seccMaintaince \/ evseMalfunction \/ seccMalfunction

-----------------------------------------------------------------------------
(* The listeners, called from OCPP_loop                                     *)

(* BootNotification.conf: its status is not looked at.                      *)
BootConfirmed ==
  /\ bootReq
  /\ bootReq' = FALSE /\ evseIsBooted' = TRUE
  /\ UNCHANGED <<fsmState, evseVars, authReq, startReqs, txId, firmwareVars,
                 ran, authVars, evVars, transactionRunning>>

(* The four listeners of authorize.  A status other than Accepted changes   *)
(* nothing, so the SECC goes on waiting for an answer it already has.       *)
AuthorizeEnds(outcome) ==
  /\ authReq
  /\ authReq' = FALSE
  /\ authState' = CASE outcome = "Accepted" -> "AUTHORIZE_SUCCESS"
                    [] outcome = "Timeout"  -> "AUTHORIZE_TIMEOUT"
                    [] outcome = "Error"    -> "AUTHORIZE_ERROR"
                    [] outcome = "Refused"  -> authState
  /\ UNCHANGED <<fsmState, evseVars, bootReq, startReqs, txId, firmwareVars,
                 bootVars, authorizationProvided, evVars, transactionRunning>>

(* Mutant: the listener itself sets the charging state.                     *)
StartTransactionCharges(outcome) ==
  /\ StartEnds(outcome)
  /\ transactionRunning' = (transactionRunning \/ outcome = "Accepted")
  /\ setFsmState("Charging")
  /\ UNCHANGED <<evseVars, bootReq, authReq, firmwareVars, bootVars, authVars,
                 evVars>>

(* StartTransaction.conf; a refusal is only logged.                         *)
StartTransactionEnds(outcome) ==
  /\ StartEnds(outcome)
  /\ transactionRunning' = (transactionRunning \/ outcome = "Accepted")
  /\ UNCHANGED <<fsmState, evseVars, bootReq, authReq, firmwareVars, bootVars,
                 authVars, evVars>>

(* The listener registered by the first pass of seccInitialize: whatever    *)
(* the SECC is doing, a completed download of an LPC or an ESP image takes  *)
(* it to maintenance.                                                       *)
OnDownload(location) ==
  /\ "Initialize" \in ran
  /\ \/ SkipDownload(location)
     \/ location = "LPC" /\ (FetchLpc \/ FetchFails)
  /\ IF downloadStatus' = "Downloaded" THEN setFsmState("maintaining")
                                       ELSE UNCHANGED fsmState
  /\ AwaitInstall(location)
  /\ UNCHANGED <<evseVars, ocppVars, maintVars, bootVars, authVars, evVars,
                 transactionRunning>>

OnInstall ==
  \/ /\ InstallLpc \/ InstallFails
     /\ UNCHANGED <<fsmState, evseVars, ocppVars, maintVars, bootVars,
                    authVars, evVars, transactionRunning>>
  \/ InstallSucceeds /\ Reboot

OCPP_loop ==
  \/ BootConfirmed
  \/ \E outcome \in AuthOutcomes : AuthorizeEnds(outcome)
  \/ \E outcome \in StartOutcomes : StartTransactionEnds(outcome)
  \/ \E location \in Locations : OnDownload(location)
  \/ OnInstall

(* What happens outside the module.                                         *)
Environment ==
  \/ /\ EvseChanges
     /\ UNCHANGED <<fsmState, ocppVars, firmwareVars, bootVars, authVars,
                    evVars, transactionRunning>>
  \/ MayPowerCycle /\ Reboot

Next == secc_loop \/ OCPP_loop \/ Environment

Spec == Init /\ [][Next]_vars

(* loop() never stops calling secc_loop, and the requests the client has    *)
(* sent are answered or given up; that a firmware update is requested, or   *)
(* that the EVSE changes, is nobody's duty.                                 *)
Fairness ==
  /\ WF_vars(secc_loop)
  /\ WF_vars(BootConfirmed)
  /\ WF_vars(\E outcome \in AuthOutcomes : AuthorizeEnds(outcome))
  /\ WF_vars(\E outcome \in StartOutcomes : StartTransactionEnds(outcome))
  /\ WF_vars(OnInstall)

FairSpec == Spec /\ Fairness

-----------------------------------------------------------------------------
(* Safety                                                                   *)

EnumTypeOK ==
  /\ fsmState \in SECC_State
  /\ cp \in PilotStates /\ lock \in LockState
  /\ txId \in TxIds
  /\ downloadStatus \in DownloadStatus /\ installStatus \in InstallationStatus
  /\ firmwareName \in {"", "LPC"} /\ fileState \in FileStates
  /\ awaitsInstall \in Locations \cup {"none"}
  /\ ran \subseteq FirstPassHandlers
  /\ authState \in AuthorizeProcessState

FlagTypeOK ==
  /\ bootReq \in BOOLEAN /\ authReq \in BOOLEAN
  /\ notify \in BOOLEAN
  /\ evseIsBooted \in BOOLEAN
  /\ authorizationProvided \in BOOLEAN
  /\ transactionRunning \in BOOLEAN
  /\ evIsPlugged \in BOOLEAN /\ evRequestsEnergy \in BOOLEAN
  /\ evIsLock \in BOOLEAN

CountTypeOK ==
  /\ startReqs \in 0 .. MaxStart
  /\ filePages \in 0 .. MaxPages /\ currentPage \in 0 .. MaxPages
  /\ delivered \subseteq 0 .. (MaxPages - 1)
  /\ passes \in 0 .. (CountWrap - 1)

TypeOK == EnumTypeOK /\ FlagTypeOK /\ CountTypeOK

ServiceStates == {"Waitting", "Preparing", "Charging", "Finance", "Finishing"}
StartingStates == {"Unknown", "Initialize", "EvseLink", "BootOcpp"}
SessionStates == ServiceStates \ {"Waitting"}

(* No car is served before the central system has answered the              *)
(* BootNotification of this boot, whatever path through a failed link the   *)
(* SECC took to get there.                                                  *)
BootFirst == fsmState \in ServiceStates => evseIsBooted

(* A charge is prepared, delivered and settled only under an authorization  *)
(* the central system accepted since the last boot; an answer that comes    *)
(* late, or a listener of an earlier request, never takes it away.          *)
AuthorizedSession ==
  fsmState \in SessionStates => authState = "AUTHORIZE_SUCCESS"

(* No transaction is requested from, or counted as running with, the        *)
(* central system without an accepted authorization, in any state,          *)
(* the fault and maintenance states included.                               *)
TxOnlyIfAuthorized ==
  startReqs > 0 \/ transactionRunning => authState = "AUTHORIZE_SUCCESS"

(* With a client that reports a pending id at once, passes of seccCharging  *)
(* that run before the confirmation do not request a second transaction.    *)
AtMostOneStart == TxPending => startReqs <= 1

(* With such a client no transaction is open at the central system while    *)
(* another one is being requested: a confirmation that comes after the      *)
(* charge was interrupted or settled opens one that no later pass doubles.  *)
OneOpenTx == TxPending /\ txId = ActiveTx => startReqs = 0

(* The charge that is settled had a transaction, and once seccStopCharge    *)
(* has stopped it the client has none left, late confirmations included.    *)
SettlementMatchesTx ==
  /\ fsmState = "Finance" => transactionRunning
  /\ fsmState = "Finishing" /\ ~transactionRunning => txId = NoTx

(* Pages reach the EVSE in order and at most once: none at or after the     *)
(* page to be sent next, and none is missing unless a send failed.          *)
PagesInOrder ==
  /\ delivered \subseteq 0 .. (currentPage - 1)
  /\ ~NotSent => delivered = 0 .. (currentPage - 1)

(* Cars are served over a link that works only: neither a failed getTime,   *)
(* which is passed over, nor a late boot confirmation leads to service when *)
(* no exchange with the EVSE can be answered.                               *)
ServedOnlyIfAnswered ==
  fsmState \in ServiceStates
    => "COMM_SUCCESS" \in SendCodes /\ "COMM_SUCCESS" \in ReceiveCodes

(* Over a link that answers nothing, such as the SPI port of this commit,   *)
(* the SECC learns nothing of plug, lock, energy and card, and asks the     *)
(* central system for nothing but to boot, downloads and the ways round a   *)
(* failed getTime included.                                                 *)
IdleUnlessAnswered ==
  ~("COMM_SUCCESS" \in SendCodes /\ "COMM_SUCCESS" \in ReceiveCodes) =>
    /\ fsmState \notin ServiceStates
    /\ ~evIsPlugged /\ ~evIsLock /\ ~evRequestsEnergy
    /\ ~authorizationProvided /\ authState = "AUTHORIZE_UNKNOWN" /\ ~authReq
    /\ startReqs = 0 /\ ~transactionRunning

(* What makes the properties above inductive: an answer to authorize is     *)
(* only awaited while AUTHORIZING, and a boot starts without authorization. *)
AuthInv ==
  /\ authReq => authState = "AUTHORIZING"
  /\ fsmState \in StartingStates => authState = "AUTHORIZE_UNKNOWN"
  /\ AuthorizedSession

(* Nothing is requested or running before Charging; while Charging, a       *)
(* request in flight is visible in the transaction id.                      *)
TxInv ==
  /\ TxOnlyIfAuthorized
  /\ fsmState \in StartingStates \cup {"Waitting", "Preparing"}
       => startReqs = 0 /\ ~transactionRunning
  /\ SettlementMatchesTx
  /\ AtMostOneStart /\ OneOpenTx
  /\ TxPending /\ fsmState = "Charging" /\ startReqs > 0 => txId # NoTx

(* The inductive invariant.                                                 *)
Inv == TypeOK /\ BootFirst /\ AuthInv /\ TxInv

-----------------------------------------------------------------------------
(* The session EMSECC implements                                            *)

SessionPhase ==
  CASE fsmState \in StartingStates -> "starting"
    [] fsmState = "Waitting" -> "available"
    [] fsmState = "Preparing" -> "preparing"
    [] fsmState = "Charging" -> "charging"
    [] fsmState \in {"Finance", "Finishing"} -> "settling"
    [] OTHER -> "out"

Session == INSTANCE ChargeSession
  WITH phase <- SessionPhase,
       authorized <- (authState = "AUTHORIZE_SUCCESS"),
       metered <- transactionRunning

(* Every behaviour of the handlers, listeners and reboots is one of the     *)
(* abstract session: no charge without authorization, no settlement without *)
(* a transaction, no metering of a session that never charged.              *)
ImplementsSession == Session!Behaviour

-----------------------------------------------------------------------------
(* What a step may never do                                                 *)

(* Charging begins only with the lock closed at that moment and with a      *)
(* pilot that shows the car.  A pilot of D, E, F or INVALID shows nothing   *)
(* and does not hinder the start: the SuspendedEVSE it causes is replaced   *)
(* by Charging in the same pass (emSECC.cpp:580), though ProtocolEVSE.hpp   *)
(* has F as "plugout".  Then the last poll that did tell has to have found  *)
(* the plug in, and some poll before it S2 closed.                          *)
SafeStart ==
  [][fsmState # "Charging" /\ fsmState' = "Charging" =>
       /\ lock = "LOCKED"
       /\ cp \in {"B", "C"} \/ (FaultyPilot /\ evIsPlugged)
       /\ cp = "C" \/ evRequestsEnergy]_vars

(* A pass of seccCharging leaves a running transaction in Charging only     *)
(* with the plug seen in and locked: unlike the start, a charge that has    *)
(* begun does not outlast a pilot that shows nothing.                       *)
NoUnsafeCharging ==
  [][seccCharging /\ transactionRunning' /\ fsmState' = "Charging"
       => lock = "LOCKED" /\ cp \in {"B", "C"}]_vars

(* Only a reboot leads out of maintenance: no listener and no handler takes *)
(* the SECC back to a charge while the EVSE is being upgraded.              *)
MaintenanceLasts ==
  [][fsmState = "maintaining" => fsmState' \in {"maintaining", "Unknown"}]_vars

(* How far a boot has come; a fault or maintenance may follow anything.     *)
Stage(state) ==
  CASE state = "Unknown" -> 0 [] state = "Initialize" -> 1
    [] state = "EvseLink" -> 2 [] state = "BootOcpp" -> 3
    [] state = "Waitting" -> 4 [] state = "Preparing" -> 5
    [] state = "Charging" -> 6 [] state = "Finance" -> 7
    [] state = "Finishing" -> 8 [] state = "maintaining" -> 10
    [] OTHER -> 9

(* authorize is called once, and only its own answer decides.               *)
AnswerStands ==
  authState' # authState =>
    \/ authState = "AUTHORIZE_UNKNOWN" /\ authReq'
    \/ authState = "AUTHORIZING" /\ authReq /\ ~authReq'

StartsAgain ==
  /\ fsmState' = "Unknown" /\ ran' = {} /\ ~evseIsBooted'
  /\ authState' = "AUTHORIZE_UNKNOWN" /\ ~authorizationProvided'

(* A boot serves one session: no handler, listener or download takes the    *)
(* SECC back to an earlier stage, nor is an answer of the central system    *)
(* replaced, without a restart that forgets boot, card and answer, so that  *)
(* the card of one driver never pays for a second charge.                   *)
OneSessionPerBoot ==
  [][StartsAgain \/ (Stage(fsmState') >= Stage(fsmState) /\ AnswerStands)]_vars

(* The pages the EVSE has received in one boot come from one pass, so from  *)
(* one image: a second download or a pass that missed a confirmation adds   *)
(* none to them.                                                            *)
OneImagePerBoot == [][delivered # {} => delivered' \in {delivered, {}}]_vars

(* The passes of seccMaintaince until one of those that look at the status  *)
(* of the installation: after the second of them, a whole turn of the       *)
(* counter.                                                                 *)
PassesLeft ==
  IF passes < RestartPeriod THEN RestartPeriod - passes
  ELSE IF passes < 2 * RestartPeriod THEN 2 * RestartPeriod - passes
  ELSE CountWrap - passes

(* Each pass that finds an installed LPC image brings the restart one pass  *)
(* nearer, and none goes by the last one without a restart.                 *)
RestartNears ==
  [][seccMaintaince /\ firmwareName = "LPC" /\ installStatus = "Installed"
       /\ ~NoFile
       => \/ fsmState' = "Unknown" /\ PassesLeft = 1
          \/ PassesLeft' = PassesLeft - 1 /\ PassesLeft' >= 1]_vars

(* The passes a boot still takes, those that wait for the confirmation of   *)
(* BootNotification not counted: two for each of its states.                *)
FirstPassDone ==
  (IF fsmState = "Unknown" THEN "Idle" ELSE fsmState) \in ran

BootLeft ==
  IF fsmState \in StartingStates
    THEN 2 * (4 - Stage(fsmState)) - (IF FirstPassDone THEN 1 ELSE 0)
    ELSE 0

(* Every pass brings a boot nearer to its end, in service or in a fault,    *)
(* but those that wait for a confirmation, and none waits for one that was  *)
(* not asked for in this boot, or has been confirmed already.               *)
BootAdvances ==
  [][secc_loop /\ fsmState \in StartingStates
       => \/ BootLeft' \in 0 .. (BootLeft - 1)
          \/ fsmState = "BootOcpp" /\ UNCHANGED BootLeft /\ bootReq']_vars

(* What may still happen to the transactions of a charge that is over.      *)
ToSettle == 2 * startReqs + (IF transactionRunning THEN 1 ELSE 0)

(* In Finishing nothing adds to what is to be settled, and each stop and    *)
(* each confirmation, accepted ones included, takes from it; when nothing   *)
(* is left the client has no transaction.                                   *)
SettlingAdvances ==
  [][fsmState = "Finishing" /\ fsmState' = "Finishing"
       => /\ ToSettle' \in 0 .. ToSettle
          /\ (seccStopCharge /\ transactionRunning)
               \/ (\E outcome \in StartOutcomes : StartTransactionEnds(outcome))
               => ToSettle' < ToSettle
          /\ ToSettle' = 0 => txId' = NoTx]_vars

-----------------------------------------------------------------------------
(* What must happen                                                         *)

(* With a link that works, every boot reaches the waiting state, unless a   *)
(* download takes the SECC to maintenance on the way.                       *)
BootsToService ==
  fsmState = "Unknown" ~> fsmState \in {"Waitting", "maintaining"}

(* A charge that is being finished, and that no download interrupts, ends   *)
(* up without a transaction for good, though a late confirmation may start  *)
(* one again after it was stopped.                                          *)
FinishingSettles ==
  <>[](fsmState = "Finishing") => <>[](~transactionRunning /\ txId = NoTx)

(* A plug that stays out ends the charge, in settlement or in a fault.      *)
UnplugEndsCharging == <>[](cp = "A") => <>[](fsmState # "Charging")

(* An LPC image that is installed while the SECC is in maintenance leads to *)
(* the restart that puts the charge point back in service.                  *)
InstalledImageRestarts ==
  fsmState = "maintaining" /\ firmwareName = "LPC"
    /\ installStatus = "Installed" ~> fsmState = "Unknown"

=============================================================================
