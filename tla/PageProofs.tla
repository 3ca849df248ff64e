------------------------------ MODULE PageProofs ------------------------------
(***************************************************************************)
(* The page loop of seccMaintaince for images of every size: it is the     *)
(* step Maintenance takes it for.                                          *)
(***************************************************************************)
EXTENDS UpgradeLoop, TLAPS

LEMMA PageCountType == ASSUME NEW bytes \in Nat PROVE PageCount(bytes) \in Nat
BY PageSizeAssumption DEF PageCount

LEMMA UpgradeInitType == UpgradeInit => UpgradeTypeOK
<1>. SUFFICES ASSUME UpgradeInit PROVE UpgradeTypeOK
  OBVIOUS
<1>1. size \in 0 .. (SizeWrap - 1)
  BY PageSizeAssumption DEF UpgradeInit
<1>2. received = {}
  BY DEF UpgradeInit
<1>3. PacketTypeOK
  BY <1>2 DEF PacketTypeOK
<1>. QED  BY <1>1, <1>3 DEF UpgradeInit, UpgradeTypeOK

LEMMA UpgradeNextType ==
  UpgradeTypeOK /\ [UpgradeNext]_upgradeVars => UpgradeTypeOK'
<1>. SUFFICES ASSUME UpgradeTypeOK, [UpgradeNext]_upgradeVars
              PROVE  UpgradeTypeOK'
  OBVIOUS
<1>. USE DEF UpgradeTypeOK, PacketTypeOK
<1>1. CASE Download
  BY <1>1 DEF Download
<1>2. CASE Begin
  <2>1. file \in Nat
    BY <1>2, FileSizesAssumption DEF Begin, NoFile
  <2>2. PageCount(file) \in Nat /\ file % SizeWrap \in 0 .. (SizeWrap - 1)
    BY <2>1, PageCountType, PageSizeAssumption
  <2>. QED  BY <1>2, <2>1, <2>2 DEF Begin
<1>3. CASE BeginFails
  BY <1>3 DEF BeginFails, upgradeVars
<1>4. CASE Send
  <2>1. PICK code \in SendCodes : SendPage(code)
    BY <1>4 DEF Send
  <2>2. CASE pc = "send" /\ filePos + PageSize <= fileSize
    BY <1>4, <2>1, <2>2, PageSizeAssumption
       DEF Send, SendPage, Position, ReadBytes, Packet
  <2>3. CASE ~(filePos + PageSize <= fileSize)
    BY <1>4, <2>1, <2>3, PageSizeAssumption
       DEF Send, SendPage, Position, ReadBytes, Packet
  <2>. QED  BY <1>4, <2>2, <2>3 DEF Send
<1>5. CASE Confirm
  BY <1>5 DEF Confirm
<1>6. CASE Close
  BY <1>6 DEF Close
<1>7. CASE Reboot
  <2>1. 0 \in 0 .. (SizeWrap - 1)
    BY PageSizeAssumption
  <2>2. received' = {}
    BY <1>7 DEF Reboot, UpgradeBoots
  <2>3. PacketTypeOK'
    BY <2>2
  <2>. QED  BY <1>7, <2>1, <2>3 DEF Reboot, UpgradeBoots
<1>8. CASE UNCHANGED upgradeVars
  BY <1>8 DEF upgradeVars
<1>. QED  BY <1>1, <1>2, <1>3, <1>4, <1>5, <1>6, <1>7, <1>8 DEF UpgradeNext

(* The statics keep their types for images of every size.                   *)
THEOREM UpgradeTypeCorrect == UpgradeSpec => []UpgradeTypeOK
BY UpgradeInitType, UpgradeNextType, PTL DEF UpgradeSpec

-----------------------------------------------------------------------------
(* The loop is the step of Maintenance                                      *)

PageNumbers == {packet.page : packet \in received}
Confirmed == "COMM_SUCCESS" \in ConfirmCodes
NotConfirmed == \E code \in ConfirmCodes : code # "COMM_SUCCESS"

(* In the loop the image is the one the pass began with and has not been    *)
(* sent; between passes nothing is left of an image that has not.           *)
ImageInv ==
  /\ pc # "idle" => /\ ~notify /\ file # NoFile
                    /\ pages = PageCount(file) /\ currentPage <= pages
  /\ pc = "idle" /\ ~notify => currentPage = 0 /\ received = {}

(* Pages received are among those tried, and all of them if none is lost.   *)
TriedInv ==
  /\ PageNumbers \subseteq 0 .. (currentPage - 1)
  /\ received # {} => "COMM_SUCCESS" \in SendCodes
  /\ PageNumbers # 0 .. (currentPage - 1)
       => \E code \in SendCodes : code # "COMM_SUCCESS"

(* What must have been confirmed to have come to the page.                  *)
ConfirmInv ==
  /\ pc = "send" /\ currentPage > 0 => Confirmed
  /\ pc \in {"confirm", "close"} => /\ currentPage > 0
                                    /\ currentPage > 1 => Confirmed
  /\ pc = "close" => NotConfirmed

LoopInv == UpgradeTypeOK /\ ImageInv /\ TriedInv /\ ConfirmInv

LEMMA LoopInvInit == UpgradeInit => LoopInv
<1>. SUFFICES ASSUME UpgradeInit PROVE LoopInv
  OBVIOUS
<1>1. received = {} /\ currentPage = 0 /\ pc = "idle"
  BY DEF UpgradeInit
<1>2. TriedInv
  BY <1>1 DEF TriedInv, PageNumbers
<1>. QED  BY <1>1, <1>2, UpgradeInitType DEF LoopInv, ImageInv, ConfirmInv

LEMMA SendKeeps == LoopInv /\ Send => ImageInv' /\ TriedInv' /\ ConfirmInv'
<1>. SUFFICES ASSUME LoopInv, Send PROVE ImageInv' /\ TriedInv' /\ ConfirmInv'
  OBVIOUS
<1>1. PICK code \in SendCodes : SendPage(code)
  BY DEF Send
<1>2. /\ pc = "send" /\ pc' = "confirm" /\ currentPage < pages
      /\ currentPage' = currentPage + 1 /\ currentPage \in Nat /\ pages \in Nat
      /\ UNCHANGED <<file, pages, notify>>
  BY <1>1 DEF Send, SendPage, LoopInv, UpgradeTypeOK
<1>3. ImageInv'
  BY <1>2 DEF LoopInv, ImageInv
<1>4. ConfirmInv'
  BY <1>2 DEF LoopInv, ConfirmInv, Confirmed
<1>5. 0 .. (currentPage' - 1) = (0 .. (currentPage - 1)) \cup {currentPage}
  BY <1>2
<1>6. CASE code = "COMM_SUCCESS"
  <2>1. received' = received \cup {Packet} /\ Packet.page = currentPage
    BY <1>1, <1>6 DEF SendPage, Packet
  <2>2. PageNumbers' = PageNumbers \cup {currentPage}
    BY <2>1 DEF PageNumbers
  <2>3. TriedInv'
    BY <1>5, <1>6, <2>2 DEF LoopInv, TriedInv
  <2>. QED  BY <1>3, <1>4, <2>3
<1>7. CASE code # "COMM_SUCCESS"
  <2>1. received' = received /\ PageNumbers' = PageNumbers
    BY <1>1, <1>7 DEF SendPage, PageNumbers
  <2>2. TriedInv'
    BY <1>5, <1>7, <2>1 DEF LoopInv, TriedInv
  <2>. QED  BY <1>3, <1>4, <2>2
<1>. QED  BY <1>6, <1>7

LEMMA LoopInvNext == LoopInv /\ [UpgradeNext]_upgradeVars => LoopInv'
<1>. SUFFICES ASSUME LoopInv, [UpgradeNext]_upgradeVars PROVE LoopInv'
  OBVIOUS
<1>1. UpgradeTypeOK'
  BY UpgradeNextType DEF LoopInv
<1>2. ImageInv' /\ TriedInv' /\ ConfirmInv'
  <2>1. CASE Download
    BY <2>1 DEF LoopInv, ImageInv, TriedInv, ConfirmInv, PageNumbers, Download
  <2>2. CASE Begin
    <3>1. file \in Nat /\ PageCount(file) \in Nat
      BY <2>2, FileSizesAssumption, PageCountType
         DEF Begin, LoopInv, UpgradeTypeOK, NoFile
    <3>2. currentPage = 0 /\ currentPage' = 0
      BY <2>2 DEF Begin, LoopInv, ImageInv
    <3>. QED  BY <2>2, <3>1, <3>2
              DEF LoopInv, ImageInv, TriedInv, ConfirmInv, PageNumbers, Begin
  <2>3. CASE BeginFails
    BY <2>3 DEF LoopInv, ImageInv, TriedInv, ConfirmInv, PageNumbers,
                BeginFails, upgradeVars, Confirmed, NotConfirmed
  <2>4. CASE Send
    BY <2>4, SendKeeps
  <2>5. CASE Confirm
    <3>1. PICK code \in ConfirmCodes :
            pc' = IF code = "COMM_SUCCESS" THEN "send" ELSE "close"
      BY <2>5 DEF Confirm
    <3>2. /\ pc = "confirm" /\ pc' \in {"send", "close"}
          /\ pc' = "send" => Confirmed
          /\ pc' = "close" => NotConfirmed
      BY <2>5, <3>1 DEF Confirm, Confirmed, NotConfirmed
    <3>3. UNCHANGED <<file, fileSize, pages, notify, currentPage, received>>
      BY <2>5 DEF Confirm
    <3>4. Confirmed' = Confirmed /\ NotConfirmed' = NotConfirmed
      BY DEF Confirmed, NotConfirmed
    <3>5. ImageInv' /\ TriedInv'
      BY <3>2, <3>3 DEF LoopInv, ImageInv, TriedInv, PageNumbers
    <3>6. ConfirmInv'
      BY <3>2, <3>3, <3>4 DEF LoopInv, ConfirmInv
    <3>. QED  BY <3>5, <3>6
  <2>6. CASE Close
    BY <2>6 DEF LoopInv, ImageInv, TriedInv, ConfirmInv, PageNumbers, Close
  <2>7. CASE Reboot
    <3>1. pc' = "idle" /\ currentPage' = 0 /\ received' = {} /\ notify' = FALSE
      BY <2>7 DEF Reboot, UpgradeBoots
    <3>. QED  BY <3>1 DEF ImageInv, TriedInv, ConfirmInv, PageNumbers
  <2>8. CASE UNCHANGED upgradeVars
    BY <2>8 DEF LoopInv, ImageInv, TriedInv, ConfirmInv, PageNumbers,
                upgradeVars, Confirmed, NotConfirmed
  <2>. QED  BY <2>1, <2>2, <2>3, <2>4, <2>5, <2>6, <2>7, <2>8 DEF UpgradeNext
<1>. QED  BY <1>1, <1>2 DEF LoopInv

(* Closing the file is the push of the pages that were tried.               *)
LEMMA CloseIsPush ==
  LoopInv /\ Close => Push!PushDue /\ Push!PushImage
<1>. SUFFICES ASSUME LoopInv, Close PROVE Push!PushDue /\ Push!PushImage
  OBVIOUS
<1>1. /\ pc # "idle" /\ ~notify /\ notify' = TRUE /\ file # NoFile
      /\ currentPage' = currentPage /\ received' = received /\ file' = file
      /\ currentPage \in Nat /\ pages \in Nat
      /\ pages = PageCount(file) /\ currentPage <= pages
  BY DEF LoopInv, ImageInv, UpgradeTypeOK, Close
<1>2. Push!PushDue
  BY <1>1 DEF Push!PushDue
<1>3. /\ PagesTried = 0 /\ PagesTried' = currentPage
      /\ PagesReceived = {} /\ PagesReceived' = PageNumbers
  BY <1>1 DEF PagesTried, PagesReceived, PageNumbers
<1>4. CASE pages = 0
  <2>1. PageNumbers = {} /\ currentPage = 0
    BY <1>1, <1>4 DEF LoopInv, TriedInv
  <2>. QED  BY <1>1, <1>2, <1>3, <1>4, <2>1 DEF Push!PushImage
<1>5. CASE pages # 0
  <2>. DEFINE lost == (0 .. (currentPage - 1)) \ PageNumbers
  <2>1. currentPage \in 1 .. pages
    BY <1>1, <1>5 DEF LoopInv, ConfirmInv, Close
  <2>2. /\ currentPage > 1 => "COMM_SUCCESS" \in ConfirmCodes
        /\ currentPage < pages => \E code \in ConfirmCodes : code # "COMM_SUCCESS"
    BY <1>1, <2>1 DEF LoopInv, ConfirmInv, Close, Confirmed, NotConfirmed
  <2>3. /\ lost # {} => Push!NotSent
        /\ lost # 0 .. (currentPage - 1) => Push!Sent
        /\ PageNumbers = {} \cup ((0 .. (currentPage - 1)) \ lost)
    <3>1. PageNumbers \subseteq 0 .. (currentPage - 1)
      BY DEF LoopInv, TriedInv
    <3>2. lost # {} => Push!NotSent
      BY DEF LoopInv, TriedInv, Push!NotSent
    <3>3. lost # 0 .. (currentPage - 1) => received # {}
      BY DEF PageNumbers
    <3>4. lost # 0 .. (currentPage - 1) => Push!Sent
      BY <3>3 DEF LoopInv, TriedInv, Push!Sent
    <3>. QED  BY <3>1, <3>2, <3>4
  <2>4. lost \in SUBSET (0 .. (currentPage - 1))
    OBVIOUS
  <2>. HIDE DEF lost
  <2>5. Push!SendPages
    BY <1>1, <1>3, <2>1, <2>2, <2>3, <2>4 DEF Push!SendPages
  <2>. QED  BY <1>1, <1>2, <1>3, <1>5, <2>5 DEF Push!PushImage
<1>. QED  BY <1>4, <1>5

LEMMA StepIsPush ==
  LoopInv /\ [UpgradeNext]_upgradeVars
    => [(Push!PushDue /\ Push!PushImage) \/ Push!MaintReboots]_
         <<notify, PagesTried, PagesReceived>>
<1>. SUFFICES ASSUME LoopInv, [UpgradeNext]_upgradeVars
              PROVE  [(Push!PushDue /\ Push!PushImage) \/ Push!MaintReboots]_
                       <<notify, PagesTried, PagesReceived>>
  OBVIOUS
<1>. USE DEF PagesTried, PagesReceived
<1>1. CASE Download \/ BeginFails \/ Confirm \/ Begin
  BY <1>1 DEF Download, BeginFails, Confirm, Begin, upgradeVars
<1>2. CASE Send
  BY <1>2 DEF Send, LoopInv, ImageInv
<1>3. CASE Close
  BY <1>3, CloseIsPush
<1>4. CASE Reboot
  <2>1. notify' = FALSE /\ PagesTried' = 0 /\ PagesReceived' = {}
    BY <1>4 DEF Reboot, UpgradeBoots
  <2>2. Push!MaintReboots
    BY <2>1 DEF Push!MaintReboots
  <2>. QED  BY <2>2
<1>5. CASE UNCHANGED upgradeVars
  BY <1>5 DEF upgradeVars
<1>. QED  BY <1>1, <1>2, <1>3, <1>4, <1>5 DEF UpgradeNext

(* Taking the page loop as one step loses nothing, for images and pages of  *)
(* every size and all codes.                                                *)
THEOREM PushImplemented == UpgradeSpec => ImplementsPush
<1>1. UpgradeSpec => []LoopInv
  BY LoopInvInit, LoopInvNext, PTL DEF UpgradeSpec
<1>2. LoopInv /\ [UpgradeNext]_upgradeVars
        => [(Push!PushDue /\ Push!PushImage) \/ Push!MaintReboots]_
             <<notify, PagesTried, PagesReceived>>
  BY StepIsPush
<1>. QED  BY <1>1, <1>2, PTL DEF UpgradeSpec, ImplementsPush

(* Every call of the loop leaves fewer calls to be made, for images and     *)
(* pages of every size and all codes.                                       *)
THEOREM LoopIsAdvancing == UpgradeSpec => LoopAdvances
<1>1. UpgradeSpec => []LoopInv
  BY LoopInvInit, LoopInvNext, PTL DEF UpgradeSpec
<1>2. LoopInv => [Send \/ Confirm \/ Close
                    => CallsLeft' \in 0 .. (CallsLeft - 1)]_upgradeVars
  <2>. SUFFICES ASSUME LoopInv, Send \/ Confirm \/ Close
                PROVE  CallsLeft' \in 0 .. (CallsLeft - 1)
    OBVIOUS
  <2>1. /\ pages \in Nat /\ currentPage \in Nat
        /\ pc # "idle" => currentPage <= pages
    BY DEF LoopInv, UpgradeTypeOK, ImageInv
  <2>2. CASE Send
    <3>1. /\ pc = "send" /\ pc' = "confirm" /\ pages' = pages
          /\ currentPage < pages /\ currentPage' = currentPage + 1
      BY <2>2 DEF Send, SendPage
    <3>2. /\ CallsLeft = 2 * (pages - currentPage) + 2
          /\ CallsLeft' = 2 * (pages - (currentPage + 1)) + 3
      BY <3>1 DEF CallsLeft
    <3>. QED  BY <2>1, <3>1, <3>2
  <2>3. CASE Confirm
    <3>1. /\ pc = "confirm" /\ pc' \in {"send", "close"}
          /\ UNCHANGED <<pages, currentPage>>
      BY <2>3 DEF Confirm
    <3>2. /\ CallsLeft = 2 * (pages - currentPage) + 3
          /\ CallsLeft' \in {2 * (pages - currentPage) + 2, 1}
      BY <3>1 DEF CallsLeft
    <3>. QED  BY <2>1, <3>1, <3>2
  <2>4. CASE Close
    <3>1. pc \in {"send", "close"} /\ pc' = "idle"
      BY <2>4 DEF Close
    <3>2. CallsLeft' = 0 /\ CallsLeft \in {2 * (pages - currentPage) + 2, 1}
      BY <3>1 DEF CallsLeft
    <3>. QED  BY <2>1, <3>1, <3>2
  <2>. QED  BY <2>2, <2>3, <2>4
<1>. QED  BY <1>1, <1>2, PTL DEF UpgradeSpec, LoopAdvances

-----------------------------------------------------------------------------
(* What is in the pages                                                     *)

(* Where a page begins, and where the last one ends.                        *)
First(page) == IF page * PageSize <= fileSize THEN page * PageSize ELSE fileSize

LEMMA NextPage ==
  ASSUME NEW page \in Nat
  PROVE  /\ (page + 1) * PageSize = page * PageSize + PageSize
         /\ page * PageSize \in Nat
BY PageSizeAssumption

LEMMA PageOfByte ==
  ASSUME NEW byte \in Nat
  PROVE  /\ byte \div PageSize \in Nat
         /\ (byte \div PageSize) * PageSize <= byte
         /\ byte < (byte \div PageSize) * PageSize + PageSize
BY PageSizeAssumption

LEMMA PageOrder ==
  ASSUME NEW p \in Nat, NEW q \in Nat, p < q
  PROVE  p * PageSize + PageSize <= q * PageSize
<1>1. PICK d \in Nat : q = p + 1 + d
  <2>. WITNESS q - p - 1 \in Nat
  <2>. QED  OBVIOUS
<1>2. q * PageSize = p * PageSize + PageSize + d * PageSize
  BY <1>1, PageSizeAssumption
<1>3. d * PageSize \in Nat /\ p * PageSize \in Nat
  BY PageSizeAssumption
<1>. QED  BY <1>2, <1>3, PageSizeAssumption

(* The page a byte belongs to is the only one whose range it is in.         *)
LEMMA PageIsUnique ==
  ASSUME NEW page \in Nat, NEW byte \in Nat,
         page * PageSize <= byte, byte < page * PageSize + PageSize
  PROVE  byte \div PageSize = page
<1>. DEFINE q == byte \div PageSize
<1>1. q \in Nat /\ q * PageSize <= byte /\ byte < q * PageSize + PageSize
  BY PageOfByte
<1>. HIDE DEF q
<1>2. page * PageSize \in Nat /\ q * PageSize \in Nat
  BY <1>1, NextPage
<1>3. ~(page < q)
  <2>1. ASSUME page < q PROVE FALSE
    <3>1. page * PageSize + PageSize <= q * PageSize
      BY <1>1, <2>1, PageOrder
    <3>. QED  BY <1>1, <1>2, <3>1, PageSizeAssumption
  <2>. QED  BY <2>1
<1>4. ~(q < page)
  <2>1. ASSUME q < page PROVE FALSE
    <3>1. q * PageSize + PageSize <= page * PageSize
      BY <1>1, <2>1, PageOrder
    <3>. QED  BY <1>1, <1>2, <3>1, PageSizeAssumption
  <2>. QED  BY <2>1
<1>5. q = page
  BY <1>1, <1>3, <1>4
<1>. QED  BY <1>5 DEF q

(* Every byte of an image is in one of the pages that are counted.          *)
LEMMA EveryByteCounted ==
  ASSUME NEW bytes \in Nat, NEW byte \in 0 .. (bytes - 1)
  PROVE  byte \div PageSize \in 0 .. (PageCount(bytes) - 1)
<1>. DEFINE q == bytes \div PageSize
            r == bytes % PageSize
            b == byte \div PageSize
<1>1. /\ q \in Nat /\ r \in 0 .. (PageSize - 1) /\ bytes = PageSize * q + r
      /\ PageSize * q = q * PageSize
  BY PageSizeAssumption
<1>2. b \in Nat /\ b * PageSize <= byte
  BY PageOfByte
<1>3. PageCount(bytes) = q + (IF r = 0 THEN 0 ELSE 1)
  BY DEF PageCount
<1>. HIDE DEF q, r, b
<1>4. b * PageSize \in Nat /\ q * PageSize \in Nat
  BY <1>1, <1>2, NextPage
<1>5. ~(q < b)
  <2>1. ASSUME q < b PROVE FALSE
    <3>1. q * PageSize + PageSize <= b * PageSize
      BY <1>1, <1>2, <2>1, PageOrder
    <3>. QED  BY <1>1, <1>2, <1>4, <3>1, PageSizeAssumption
  <2>. QED  BY <2>1
<1>6. b = q => r # 0
  <2>1. ASSUME b = q, r = 0 PROVE FALSE
    <3>1. b * PageSize = bytes
      BY <1>1, <1>4, <2>1
    <3>. QED  BY <1>2, <3>1
  <2>. QED  BY <2>1
<1>7. b \in 0 .. (PageCount(bytes) - 1)
  BY <1>1, <1>2, <1>3, <1>5, <1>6
<1>. QED  BY <1>7 DEF b

-----------------------------------------------------------------------------
(* Every page holds the bytes its number stands for, and the position of    *)
(* the file is where the next one begins.                                   *)
RightPage(packet) ==
  /\ packet.pages = PageCount(fileSize)
  /\ packet.data = First(packet.page) .. (First(packet.page + 1) - 1)

ContentInv ==
  /\ pc # "idle" => fileSize = file /\ filePos = First(currentPage)
  /\ \A packet \in received : RightPage(packet)

PageInv == LoopInv /\ ContentInv

(* readBytes leaves the file where the next page begins.                    *)
LEMMA ReadsOnePage ==
  ASSUME fileSize \in Nat, currentPage \in Nat, filePos = First(currentPage)
  PROVE  Position = First(currentPage + 1)
<1>1. /\ (currentPage + 1) * PageSize = currentPage * PageSize + PageSize
      /\ currentPage * PageSize \in Nat
  BY NextPage
<1>. DEFINE at == currentPage * PageSize
            after == (currentPage + 1) * PageSize
<1>2. /\ First(currentPage) = IF at <= fileSize THEN at ELSE fileSize
      /\ First(currentPage + 1) = IF after <= fileSize THEN after ELSE fileSize
  BY DEF First
<1>. HIDE DEF at, after
<1>3. after = at + PageSize /\ at \in Nat
  BY <1>1 DEF at, after
<1>. QED  BY <1>2, <1>3, PageSizeAssumption DEF Position, ReadBytes

LEMMA ContentInvInductive ==
  /\ UpgradeInit => ContentInv
  /\ LoopInv /\ ContentInv /\ [UpgradeNext]_upgradeVars => ContentInv'
<1>1. ASSUME UpgradeInit PROVE ContentInv
  BY <1>1 DEF UpgradeInit, ContentInv
<1>2. ASSUME LoopInv, ContentInv, [UpgradeNext]_upgradeVars PROVE ContentInv'
  <2>. USE <1>2
  <2>1. CASE Download
    BY <2>1 DEF Download, ContentInv, RightPage, First
  <2>2. CASE Begin
    <3>1. received' = {}
      BY <2>2 DEF Begin, LoopInv, ImageInv
    <3>2. fileSize' = file' /\ filePos' = 0 /\ currentPage' = 0 /\ file' \in Nat
      BY <2>2, FileSizesAssumption
         DEF Begin, LoopInv, ImageInv, UpgradeTypeOK, NoFile
    <3>3. First(currentPage)' = 0
      BY <3>2, PageSizeAssumption DEF First
    <3>. QED  BY <3>1, <3>2, <3>3 DEF ContentInv
  <2>3. CASE BeginFails
    BY <2>3 DEF BeginFails, ContentInv, upgradeVars, RightPage, First
  <2>4. CASE Send
    <3>1. PICK code \in SendCodes : SendPage(code)
      BY <2>4 DEF Send
    <3>2. /\ pc = "send" /\ currentPage' = currentPage + 1 /\ filePos' = Position
          /\ UNCHANGED <<file, fileSize>>
          /\ fileSize \in Nat /\ currentPage \in Nat
          /\ fileSize = file /\ filePos = First(currentPage)
          /\ pages = PageCount(fileSize)
      BY <2>4, <3>1
         DEF Send, SendPage, LoopInv, UpgradeTypeOK, ImageInv, ContentInv
    <3>3. Position = First(currentPage + 1)
      BY <3>2, ReadsOnePage
    <3>4. filePos' = First(currentPage)'
      BY <3>2, <3>3 DEF First
    <3>5. RightPage(Packet)
      <4>1. /\ Packet.pages = PageCount(fileSize) /\ Packet.page = currentPage
            /\ Packet.data = filePos .. (Position - 1)
        <5>1. Packet.pages = pages /\ Packet.page = currentPage
          BY DEF Packet
        <5>2. Packet.data = filePos .. (filePos + ReadBytes - 1)
          BY DEF Packet
        <5>3. Packet.pages = PageCount(fileSize)
          BY <3>2, <5>1
        <5>4. filePos \in Int /\ ReadBytes \in Int
          BY <3>2, PageSizeAssumption DEF LoopInv, UpgradeTypeOK, ReadBytes
        <5>5. filePos + ReadBytes - 1 = Position - 1
          BY <5>4 DEF Position
        <5>6. Packet.data = filePos .. (Position - 1)
          BY <5>2, <5>5
        <5>. QED  BY <5>1, <5>3, <5>6
      <4>. QED  BY <3>2, <3>3, <4>1 DEF RightPage
    <3>6. received' \subseteq received \cup {Packet}
      BY <3>1 DEF SendPage
    <3>7. \A packet \in received' : RightPage(packet)
      BY <3>5, <3>6 DEF ContentInv
    <3>8. \A packet \in received' : RightPage(packet)'
      BY <3>2, <3>7 DEF RightPage, First
    <3>. QED  BY <3>2, <3>4, <3>8 DEF ContentInv
  <2>5. CASE Confirm
    BY <2>5 DEF Confirm, ContentInv, RightPage, First
  <2>6. CASE Close
    BY <2>6 DEF Close, ContentInv, RightPage, First
  <2>7. CASE Reboot
    BY <2>7 DEF Reboot, UpgradeBoots, ContentInv
  <2>8. CASE UNCHANGED upgradeVars
    BY <2>8 DEF ContentInv, upgradeVars, RightPage, First
  <2>. QED  BY <2>1, <2>2, <2>3, <2>4, <2>5, <2>6, <2>7, <2>8 DEF UpgradeNext
<1>. QED  BY <1>1, <1>2

(* The bytes between the beginnings of two pages are those of the first.    *)
LEMMA BytesOfPage ==
  ASSUME fileSize \in Nat, NEW page \in Nat, NEW byte \in Nat
  PROVE  byte \in First(page) .. (First(page + 1) - 1)
           <=> byte < fileSize /\ byte \div PageSize = page
<1>. DEFINE at == page * PageSize
            after == (page + 1) * PageSize
<1>1. after = at + PageSize /\ at \in Nat
  BY NextPage
<1>2. /\ First(page) = IF at <= fileSize THEN at ELSE fileSize
      /\ First(page + 1) = IF after <= fileSize THEN after ELSE fileSize
  BY DEF First
<1>3. byte \div PageSize = page => at <= byte /\ byte < after
  BY <1>1, PageOfByte
<1>4. at <= byte /\ byte < after => byte \div PageSize = page
  BY <1>1, PageIsUnique
<1>. HIDE DEF at, after
<1>5. byte \in First(page) .. (First(page + 1) - 1)
        <=> byte < fileSize /\ at <= byte /\ byte < after
  BY <1>1, <1>2, PageSizeAssumption
<1>. QED  BY <1>3, <1>4, <1>5

LEMMA FirstType ==
  ASSUME fileSize \in Nat, NEW page \in Nat PROVE First(page) \in Nat
BY NextPage DEF First

LEMMA PageInvSuffices == PageInv => PagesMatch /\ ImageRebuilt
<1>. SUFFICES ASSUME PageInv PROVE PagesMatch /\ ImageRebuilt
  OBVIOUS
<1>1. fileSize \in Nat /\ \A packet \in received : packet.page \in Nat
  BY DEF PageInv, LoopInv, UpgradeTypeOK, PacketTypeOK
<1>2. ASSUME NEW packet \in received
      PROVE  /\ packet.pages = PageCount(fileSize) /\ packet.data \subseteq Nat
             /\ \A byte \in Nat :
                  byte \in packet.data
                    <=> byte < fileSize /\ byte \div PageSize = packet.page
  <2>1. /\ packet.pages = PageCount(fileSize)
        /\ packet.data = First(packet.page) .. (First(packet.page + 1) - 1)
    BY DEF PageInv, ContentInv, RightPage
  <2>2. packet.page \in Nat /\ packet.page + 1 \in Nat
    BY <1>1
  <2>3. First(packet.page) \in Nat /\ First(packet.page + 1) \in Nat
    BY <1>1, <2>2, FirstType
  <2>4. packet.data \subseteq Nat
    BY <2>1, <2>3
  <2>. QED  BY <1>1, <2>1, <2>2, <2>4, BytesOfPage
<1>3. PagesMatch
  BY <1>2 DEF PagesMatch
<1>4. ASSUME NEW last \in received,
             {packet.page : packet \in received} = 0 .. (last.pages - 1)
      PROVE  UNION {packet.data : packet \in received} = 0 .. (fileSize - 1)
  <2>1. ASSUME NEW byte \in 0 .. (fileSize - 1)
        PROVE  \E packet \in received : byte \in packet.data
    <3>1. byte \in Nat /\ byte < fileSize
      BY <1>1
    <3>2. byte \div PageSize \in 0 .. (last.pages - 1)
      BY <1>1, <1>2, EveryByteCounted
    <3>3. PICK packet \in received : packet.page = byte \div PageSize
      BY <1>4, <3>2
    <3>4. byte \in packet.data
      BY <1>2, <3>1, <3>3
    <3>. QED  BY <3>4
  <2>2. ASSUME NEW packet \in received, NEW byte \in packet.data
        PROVE  byte \in 0 .. (fileSize - 1)
    <3>1. byte \in Nat /\ byte < fileSize
      BY <1>2
    <3>. QED  BY <1>1, <3>1
  <2>. QED  BY <2>1, <2>2
<1>. QED  BY <1>3, <1>4 DEF ImageRebuilt

LEMMA PageInvHolds == UpgradeSpec => []PageInv
<1>1. UpgradeInit => PageInv
  BY LoopInvInit, ContentInvInductive DEF PageInv
<1>2. PageInv /\ [UpgradeNext]_upgradeVars => PageInv'
  BY LoopInvNext, ContentInvInductive DEF PageInv
<1>. QED  BY <1>1, <1>2, PTL DEF UpgradeSpec

(* Every page carries its own bytes, whatever the size of image and page.   *)
THEOREM PagesAlwaysMatch == UpgradeSpec => []PagesMatch
BY PageInvHolds, PageInvSuffices, PTL

(* All pages together are the whole image, for every size of image and      *)
(* page: none is missing at its end and none is there twice.                *)
THEOREM ImageAlwaysRebuilt == UpgradeSpec => []ImageRebuilt
BY PageInvHolds, PageInvSuffices, PTL

=============================================================================
