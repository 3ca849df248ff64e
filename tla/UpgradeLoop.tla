----------------------------- MODULE UpgradeLoop -----------------------------
(***************************************************************************)
(* The page loop of seccMaintaince (emSECC.cpp), which Maintenance takes   *)
(* as one step: the file is read page by page, a page is sent as upgrade   *)
(* packet with its number, and the next one follows when something has     *)
(* come back.  One step here is one call: of the file, of                  *)
(* sendRequest_upgrade, of receiveResponse_upgrade.                        *)
(*                                                                         *)
(* The image is the bytes 0 .. file - 1, so that a byte is its offset.     *)
(***************************************************************************)
EXTENDS Integers

CONSTANTS
  FileSizes,      \* sizes of the images the central system may send
  PageSize,       \* PAGE_SIZE: 1024 in the code
  SizeWrap,       \* 2^16: the size in the packet is a uint16_t
  SendCodes,      \* the codes sendRequest_upgrade may return
  ConfirmCodes,   \* the codes receiveResponse_upgrade may return
  FlashFails      \* TRUE: opening the downloaded file may fail

VARIABLES
  pc,             \* "idle", or the call of the pass that comes next
  file,           \* the size of the downloaded file, or NoFile
  fileSize, pages, notify, currentPage,   \* the statics of emSECC.cpp
  size,           \* reqFirmwarePage.size
  filePos,        \* the position of the open file
  received        \* the pages the EVSE has received since this boot

upgradeVars ==
  <<pc, file, fileSize, pages, notify, currentPage, size, filePos, received>>

ASSUME FileSizesAssumption == FileSizes \subseteq Nat
ASSUME PageSizeAssumption == PageSize \in Nat \ {0} /\ SizeWrap \in Nat \ {0}
ASSUME CodesAssumption ==
  /\ SendCodes \subseteq {"COMM_SUCCESS", "COMM_ERROR_MALLOC",
                          "COMM_ERROR_PacketSize", "COMM_ERROR_SendSize"}
  /\ ConfirmCodes \subseteq {"COMM_SUCCESS", "COMM_ERROR_ReceiveTimeout",
                             "COMM_ERROR_ReceiveSize"}
  /\ FlashFails \in BOOLEAN

NoFile == -1

-----------------------------------------------------------------------------
(* Mutant: the rest of the image is no page.                                *)
PageCountFull(bytes) == bytes \div PageSize

PageCount(bytes) ==
  bytes \div PageSize + (IF bytes % PageSize = 0 THEN 0 ELSE 1)

UpgradeBoots ==
  /\ pc' = "idle" /\ fileSize' = 0 /\ pages' = 0 /\ notify' = FALSE
  /\ currentPage' = 0 /\ size' = 0 /\ filePos' = 0 /\ received' = {}

UpgradeInit ==
  /\ pc = "idle" /\ fileSize = 0 /\ pages = 0 /\ notify = FALSE
  /\ currentPage = 0 /\ size = 0 /\ filePos = 0 /\ received = {}
  /\ file = NoFile

(* Between two passes; the name of the file and the status are set with it. *)
Download ==
  /\ pc = "idle"
  /\ file' \in FileSizes
  /\ UNCHANGED <<pc, fileSize, pages, notify, currentPage, size, filePos,
                 received>>

(* Mutant: the size is kept in full.                                        *)
BeginWide ==
  /\ pc = "idle" /\ ~notify /\ file # NoFile
  /\ pc' = "send" /\ fileSize' = file /\ filePos' = 0
  /\ pages' = PageCount(file) /\ size' = file
  /\ UNCHANGED <<file, notify, currentPage, received>>

(* A pass that finds the image and has not sent it; the loop starts at the  *)
(* beginning of the file, with currentPage as it is.                        *)
Begin ==
  /\ pc = "idle" /\ ~notify /\ file # NoFile
  /\ pc' = "send" /\ fileSize' = file /\ filePos' = 0
  /\ pages' = PageCount(file) /\ size' = file % SizeWrap
  /\ UNCHANGED <<file, notify, currentPage, received>>

BeginFails ==
  /\ pc = "idle" /\ ~notify /\ file # NoFile /\ FlashFails
  /\ UNCHANGED upgradeVars

(* readBytes: the next page of the file, or what is left of it; the packet  *)
(* is filled up with zeros, which are left out here.  Short reads in the    *)
(* middle of a file, which a failing flash could give, are left out too.    *)
ReadBytes ==
  IF filePos + PageSize <= fileSize THEN PageSize ELSE fileSize - filePos

(* Mutant: the seek after the loop's increment, commented out in the code.  *)
PositionSeeked == filePos + 2 * ReadBytes

Position == filePos + ReadBytes

Packet ==
  [page |-> currentPage, size |-> size, pages |-> pages,
   data |-> filePos .. (filePos + ReadBytes - 1)]

(* What sendRequest_upgrade returns is only logged.                         *)
SendPage(code) ==
  /\ pc' = "confirm" /\ currentPage' = currentPage + 1 /\ filePos' = Position
  /\ received' = IF code = "COMM_SUCCESS" THEN received \cup {Packet}
                                          ELSE received

Send ==
  /\ pc = "send" /\ currentPage < pages
  /\ \E code \in SendCodes : SendPage(code)
  /\ UNCHANGED <<file, fileSize, pages, notify, size>>

(* Mutants: an unconfirmed page is sent again at once; it is counted back,  *)
(* to be sent again later.                                                  *)
ConfirmResends ==
  /\ pc = "confirm"
  /\ pc' = "send"
  /\ \/ "COMM_SUCCESS" \in ConfirmCodes /\ UNCHANGED <<currentPage, filePos>>
     \/ /\ ConfirmCodes \ {"COMM_SUCCESS"} # {}
        /\ currentPage' = currentPage - 1
        /\ filePos' = (currentPage - 1) * PageSize
  /\ UNCHANGED <<file, fileSize, pages, notify, size, received>>

ConfirmCountsBack ==
  /\ pc = "confirm"
  /\ \E code \in ConfirmCodes :
       /\ pc' = IF code = "COMM_SUCCESS" THEN "send" ELSE "close"
       /\ currentPage' = IF code = "COMM_SUCCESS" THEN currentPage
                                                 ELSE currentPage - 1
  /\ UNCHANGED <<file, fileSize, pages, notify, size, filePos, received>>

(* Whatever is received is a confirmation.                                  *)
Confirm ==
  /\ pc = "confirm"
  /\ \E code \in ConfirmCodes :
       pc' = IF code = "COMM_SUCCESS" THEN "send" ELSE "close"
  /\ UNCHANGED <<file, fileSize, pages, notify, currentPage, size, filePos,
                 received>>

(* However the loop ended, the image is not sent again in this boot.        *)
Close ==
  /\ pc = "close" \/ (pc = "send" /\ currentPage >= pages)
  /\ pc' = "idle" /\ notify' = TRUE
  /\ UNCHANGED <<file, fileSize, pages, currentPage, size, filePos, received>>

(* A restart or a loss of power, also in the loop; what was downloaded      *)
(* before is not sent after it until it has been downloaded again.          *)
Reboot == UpgradeBoots /\ file' = NoFile

UpgradeNext ==
  Download \/ Begin \/ BeginFails \/ Send \/ Confirm \/ Close \/ Reboot

UpgradeSpec == UpgradeInit /\ [][UpgradeNext]_upgradeVars

(* The loop is one call: its steps follow each other.                       *)
FairUpgradeSpec == UpgradeSpec /\ WF_upgradeVars(Send \/ Confirm \/ Close)

-----------------------------------------------------------------------------
PacketTypeOK ==
  \A packet \in received :
    /\ DOMAIN packet = {"page", "size", "pages", "data"}
    /\ packet.page \in Nat

UpgradeTypeOK ==
  /\ pc \in {"idle", "send", "confirm", "close"}
  /\ file \in FileSizes \cup {NoFile}
  /\ fileSize \in Nat /\ pages \in Nat /\ notify \in BOOLEAN
  /\ currentPage \in Nat /\ size \in 0 .. (SizeWrap - 1) /\ filePos \in Nat
  /\ PacketTypeOK

(* A page carries the bytes its number stands for and the page count of the *)
(* image, after pages that were lost as well: the file moves on with the    *)
(* counter, though only the loop relates the two.                           *)
PagesMatch ==
  \A packet \in received :
    /\ packet.pages = PageCount(fileSize)
    /\ \A byte \in packet.data : byte \div PageSize = packet.page

(* An EVSE that has received every page announced has the whole image, the  *)
(* last, shorter page included.                                             *)
ImageRebuilt ==
  \A last \in received :
    {packet.page : packet \in received} = 0 .. (last.pages - 1)
      => UNION {packet.data : packet \in received} = 0 .. (fileSize - 1)

(* A bound on the calls the loop still makes.                               *)
CallsLeft ==
  CASE pc = "idle" -> 0
    [] pc = "close" -> 1
    [] pc = "send" -> 2 * (pages - currentPage) + 2
    [] pc = "confirm" -> 2 * (pages - currentPage) + 3

(* Every call of the loop brings it nearer to its end, lost and unconfirmed *)
(* pages included: secc_loop is held up by the pages left and no more.      *)
LoopAdvances ==
  [][Send \/ Confirm \/ Close
       => CallsLeft' \in 0 .. (CallsLeft - 1)]_upgradeVars

(* A pass that has begun to send an image returns, by the last page, by a   *)
(* confirmation that does not come, or by a restart: unconfirmed pages are  *)
(* not sent again and again.                                                *)
LoopReturns == pc # "idle" ~> pc = "idle"

-----------------------------------------------------------------------------
(* The step of Maintenance this loop implements: what the loop does to the  *)
(* counter and to the EVSE counts when it closes the file.                  *)
PagesTried == IF notify THEN currentPage ELSE 0
PagesReceived ==
  IF notify THEN {packet.page : packet \in received} ELSE {}

Push == INSTANCE Maintenance WITH
  Locations <- {"LPC"}, MaxPages <- 0, ReceiveCodes <- {}, PilotStates <- {},
  RestartPeriod <- 1, CountWrap <- 3,
  downloadStatus <- IF file = NoFile THEN "NotDownloaded" ELSE "Downloaded",
  installStatus <- "NotInstalled", firmwareName <- "LPC",
  fileState <- IF file = NoFile THEN "absent" ELSE "whole",
  filePages <- PageCount(file), awaitsInstall <- "none",
  cp <- "A", lock <- "LOCKED", passes <- 0,
  currentPage <- PagesTried, delivered <- PagesReceived

(* Page by page or all at once is the same to the rest of the system: each  *)
(* pass sends a run of pages from 0 on, marks the image as sent, and has    *)
(* had every page but the last confirmed.                                   *)
ImplementsPush ==
  [][(Push!PushDue /\ Push!PushImage) \/ Push!MaintReboots]_
      <<notify, PagesTried, PagesReceived>>

=============================================================================
