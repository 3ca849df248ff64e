---------------------------- MODULE Maintenance -----------------------------
(***************************************************************************)
(* What seccMaintaince (emSECC.cpp) keeps and does: the downloaded LPC     *)
(* image is sent to the EVSE page by page, once per boot, and the module   *)
(* restarts when a pass of the handler finds the image installed at one of *)
(* two values of its pass counter.                                         *)
(*                                                                         *)
(* The code counts passes in a uint32_t and looks at the status in pass    *)
(* 100000 and pass 200000 (and, after the counter wraps, in pass 0);       *)
(* RestartPeriod and CountWrap stand for 100000 and 2^32.                  *)
(***************************************************************************)
EXTENDS FirmwareProxy, EvseInterface

CONSTANTS
  ConfirmCodes,   \* the codes receiveResponse_upgrade may return
  FlashFails,     \* TRUE: opening the downloaded file may fail
  RestartPeriod,  \* 100000 in the code
  CountWrap       \* 2^32 in the code

VARIABLES
  notify,         \* the image has been sent, or given up on
  currentPage,    \* next page to send; never reset
  passes,         \* loopCount of the handler
  delivered       \* pages the EVSE has received since this boot

maintVars == <<notify, currentPage, passes, delivered>>

ASSUME ConfirmCodesAssumption ==
  ConfirmCodes \subseteq {"COMM_SUCCESS", "COMM_ERROR_ReceiveTimeout",
                          "COMM_ERROR_ReceiveSize"}
ASSUME FlashFailsAssumption == FlashFails \in BOOLEAN
ASSUME RestartPeriodAssumption == RestartPeriod \in Nat \ {0}
ASSUME CountWrapAssumption ==
  CountWrap \in Nat /\ CountWrap > 2 * RestartPeriod

MaintInit == notify = FALSE /\ currentPage = 0 /\ passes = 0 /\ delivered = {}

MaintReboots ==
  notify' = FALSE /\ currentPage' = 0 /\ passes' = 0 /\ delivered' = {}

-----------------------------------------------------------------------------
CountPass == passes' = (passes + 1) % CountWrap

PushDue == ~notify /\ downloadStatus = "Downloaded"

(* The file the name refers to is gone, or cannot be opened.                *)
NoFile == PushDue /\ (fileState = "absent" \/ FlashFails)
FileReadable == PushDue => fileState # "absent"

(* Mutant: a page is counted once it has been confirmed.                    *)
SendPagesCountLate ==
  \E stop \in (currentPage + 1) .. filePages :
    /\ currentPage' = stop - 1
    /\ delivered' = delivered \cup (currentPage .. (stop - 1))

(* The page loop, from currentPage to the page after which it stops.  The   *)
(* result of sending a page is ignored; the loop ends when a page is not    *)
(* confirmed, so every page before the last one sent was confirmed.         *)
SendPages ==
  \E stop \in (currentPage + 1) .. filePages :
    /\ stop > currentPage + 1 => "COMM_SUCCESS" \in ConfirmCodes
    /\ stop < filePages => \E code \in ConfirmCodes : code # "COMM_SUCCESS"
    /\ currentPage' = stop
    /\ \E lost \in SUBSET (currentPage .. (stop - 1)) :
         /\ lost # {} => NotSent
         /\ lost # currentPage .. (stop - 1) => Sent
         /\ delivered' = delivered \cup ((currentPage .. (stop - 1)) \ lost)

(* Mutant: the image counts as sent when its last page was.                 *)
PushImageRetried ==
  /\ IF currentPage < filePages THEN SendPages
                                ELSE UNCHANGED <<currentPage, delivered>>
  /\ notify' = (currentPage' >= filePages)

(* The file is closed and the image marked as sent, however the loop ended. *)
PushImage ==
  /\ notify' = TRUE
  /\ IF currentPage < filePages THEN SendPages
                                ELSE UNCHANGED <<currentPage, delivered>>

(* Mutant: the download status is asked for as well.                        *)
RestartDueIfDownloaded ==
  LET pass == (passes + 1) % CountWrap
  IN  /\ pass < 2 * RestartPeriod + 1
      /\ pass % RestartPeriod = 0
      /\ installStatus = "Installed" /\ downloadStatus = "Downloaded"

(* In which passes an installed image leads to a restart.                   *)
RestartDue ==
  LET pass == (passes + 1) % CountWrap
  IN  /\ pass < 2 * RestartPeriod + 1
      /\ pass % RestartPeriod = 0
      /\ installStatus = "Installed"

=============================================================================
