--------------------------- MODULE FirmwareProxy ----------------------------
(***************************************************************************)
(* The static class behind the OCPP firmware service (FirmwareProxy.cpp):  *)
(* what proxyDownload and proxyInstall leave behind for the samplers and   *)
(* for the maintenance state.  A location matters by the prefix of its     *)
(* last path component: LPC (firmware of the EVSE board, kept as a file on *)
(* flash), ESP (firmware of this module), or neither.                      *)
(*                                                                         *)
(* LPC images are taken to share one file name, so that a download always  *)
(* overwrites the file of the one before it.                               *)
(***************************************************************************)
EXTENDS Integers

CONSTANTS
  Locations,      \* kinds of locations the central system may send
  MaxPages        \* bound: pages of an LPC image

VARIABLES
  downloadStatus, \* proxyDownloadStatus
  installStatus,  \* proxyInstallationStatus
  firmwareName,   \* downloadFirmwareName: "" or "LPC"
  fileState,      \* the LPC file on flash; "torn": not all of the image
  filePages,      \* its size in pages
  awaitsInstall   \* what the firmware service will install next, or "none"

proxyVars == <<downloadStatus, installStatus, firmwareName, awaitsInstall>>
flashVars == <<fileState, filePages>>

ASSUME LocationsAssumption == Locations \subseteq {"LPC", "ESP", "Other"}
ASSUME MaxPagesAssumption == MaxPages \in Nat

DownloadStatus == {"NotDownloaded", "Downloaded", "DownloadFailed"}
InstallationStatus == {"NotInstalled", "Installed", "InstallationFailed"}
FileStates == {"absent", "torn", "whole"}

-----------------------------------------------------------------------------
ProxyStart ==
  [downloadStatus |-> "NotDownloaded", installStatus |-> "NotInstalled",
   firmwareName |-> "", awaitsInstall |-> "none"]

ProxyInit ==
  /\ downloadStatus = ProxyStart.downloadStatus
  /\ installStatus = ProxyStart.installStatus
  /\ firmwareName = ProxyStart.firmwareName
  /\ awaitsInstall = ProxyStart.awaitsInstall

(* Static storage after a reboot; the file system keeps its file.           *)
ProxyReboots ==
  /\ downloadStatus' = ProxyStart.downloadStatus
  /\ installStatus' = ProxyStart.installStatus
  /\ firmwareName' = ProxyStart.firmwareName
  /\ awaitsInstall' = ProxyStart.awaitsInstall
  /\ UNCHANGED flashVars

FlashInit == fileState = "absent" /\ filePages = 0

-----------------------------------------------------------------------------
(* proxyDownload of a location that is not an LPC image: nothing is         *)
(* fetched, the status alone tells ESP from the rest.                       *)
SkipDownload(location) ==
  /\ location \in Locations \ {"LPC"}
  /\ downloadStatus' = IF location = "ESP" THEN "Downloaded"
                                           ELSE "NotDownloaded"
  /\ UNCHANGED <<installStatus, firmwareName, flashVars>>

(* proxyDownload fetches an LPC image.  The copy loop also ends when the    *)
(* connection closes early: the file is then short, the status the same.    *)
FetchLpc ==
  /\ "LPC" \in Locations
  /\ downloadStatus' = "Downloaded"
  /\ firmwareName' = "LPC"
  /\ fileState' \in {"torn", "whole"}
  /\ filePages' \in 0 .. MaxPages
  /\ UNCHANGED installStatus

(* proxyDownload gives up on an LPC image: before it touches the old file,  *)
(* when the new file cannot be created, or with the new file still empty.   *)
FetchFails ==
  /\ "LPC" \in Locations
  /\ downloadStatus' = "DownloadFailed"
  /\ \/ UNCHANGED flashVars
     \/ fileState' = "absent" /\ filePages' = 0
     \/ fileState' = "torn" /\ filePages' = 0
  /\ UNCHANGED <<installStatus, firmwareName>>

(* The firmware service installs what the status sampler calls downloaded.  *)
AwaitInstall(location) ==
  awaitsInstall' = IF downloadStatus' = "Downloaded" THEN location
                                                     ELSE "none"

-----------------------------------------------------------------------------
(* proxyInstall of an LPC image only notes that it is installed.            *)
InstallLpc ==
  /\ awaitsInstall = "LPC"
  /\ installStatus' = "Installed"
  /\ awaitsInstall' = "none"
  /\ UNCHANGED <<downloadStatus, firmwareName, flashVars>>

(* proxyInstall of an ESP image: httpUpdate fails or has nothing to do.     *)
InstallFails ==
  /\ awaitsInstall = "ESP"
  /\ installStatus' = "InstallationFailed"
  /\ awaitsInstall' = "none"
  /\ UNCHANGED <<downloadStatus, firmwareName, flashVars>>

(* proxyInstall of an ESP image: httpUpdate succeeds, the module restarts.  *)
InstallSucceeds == awaitsInstall = "ESP"

=============================================================================
