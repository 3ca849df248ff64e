# EMSECC in TLA+

This directory holds a TLA+ model of the charge controller in `src/`: the
firmware of an ESP module (the SECC) that sits between a charging-station board
(the EVSE, reached over SPI, formerly over a UART) and an OCPP central system
(reached over WebSocket by the library ArduinoOcpp). TLC checks the modules on
small instances, TLAPS proves the main safety properties for every value of the
constants.

## 1. The system

`setup()` (`main.cpp`) connects the network, sets the clock and creates the
controller; `loop()` then alternates `emEVSE.secc_loop()` and `OCPP_loop()` for
ever, on one thread. There is no preemption between the two: a handler runs from
its first line to its return, and the listeners it has left with the OCPP client
run later, from `OCPP_loop`, in whatever state the controller is by then. What
the two sides share is held in members of `EMSECC` and in static variables.

| Component | State it keeps | Operations | Talks to |
|---|---|---|---|
| Charge controller (`secc/emSECC.*`) | `evseIsBooted`, `authStatus`, `authorizationProvided`, `transactionRunning`, `evIsPlugged`, `evRequestsEnergy`, `evIsLock`, the static `loopCount` of its handlers | one handler per state, called by `secc_loop`; listeners of boot, authorize, startTransaction and the firmware service | EVSE interface (calls that block), OCPP client (requests, listeners), firmware proxy |
| State holder (`secc/emFiniteStateMachine.*`) | `fsmState` | `setFsmState`, `getFsmState` | inherited by the controller |
| Maintenance (`seccMaintaince` in `emSECC.cpp`) | static `notify`, `currentPage`, `loopCount` | sends a downloaded image to the EVSE page by page; restarts the module | firmware proxy (status, file), EVSE interface, flash |
| Firmware proxy (`secc/FirmwareProxy.*`) | static download and installation status, file name; the file on flash | `proxyDownload`, `proxyInstall`, status samplers | called by the OCPP firmware service |
| EVSE interface (`secc/evseInterface.*`) | `ifRxBuffer`, locals of the receive loop | `sendRequest`, `receiveResponse`, and the pair for an upgrade page | SPI port, protocol |
| EVSE protocol (`secc/ProtocolEVSE.*`) | none | packs requests, checks and unpacks replies | called by the interface |
| SPI port (`SECC_SPI.*`) | registers of the port | `write`, `available`, transfers | the EVSE board |
| OCPP client (ArduinoOcpp, not in the repository) | requests in flight, transaction id, firmware service | `bootNotification`, `authorize`, `startTransaction`, `stopTransaction`, `OCPP_loop` | central system; calls the listeners |
| Time (`Common.*`) | system clock | `validateOcppTime`, setting the clock | controller, protocol |
| Cellular client and server (`cell/CellClient.*`, `cell/CellServer.*`) | `_buffer`, `_pos`, `_fill`, `_failed` of the receive buffer; socket, `_connected` | `connect`, `read`, `peek`, `available`, `flush`, `write`, `connected`, `stop` | lwIP sockets, the peer; not used by the WIFI build of this commit |
| Cellular modem (`cell/cellular.*`) | - | start of the modem | modem library; not used by this build |
| `secc/emProxyUpgrade.cpp` | - | - | an earlier version of the firmware proxy; nothing calls it |

### What is hard in it

- *Late listeners.* The answer to `authorize` or `startTransaction` may come
  after a fault, a settlement, a stop or a download has moved the state on.
- *Several `setFsmState` calls in one pass.* The last one wins, and a handler
  that has reported a fault goes on.
- *State older than its use.* The plug and the request for energy are kept from
  earlier polls; the lock is read afresh.
- *Partial failure.* Each exchange with the EVSE may be not sent, or not
  answered. A page of an image may be lost and the next one sent.
- *Downloads in the middle of a session.* They take the controller to
  maintenance from any state.
- *Restarts.* Memory is lost, but the flash, the EVSE and perhaps the
  transaction id of the client survive.
- *Counters and clocks that wrap.* The pass counter of maintenance, and
  `millis()` in the receive loop; a size kept in 16 bits.
- *A link that disturbs packets.* The length that says where the check value is
  may itself be wrong.
- *A peer between two system calls.* Bytes arrive while a read decides, a socket
  takes a part of a write, the connection ends in the middle of either.

`PROJECT.json` lists these hazards one by one, each at its line, with the
properties that would catch it or the reason why none does.

### What makes each component correct

- Controller: no service before boot; no charge and no transaction without an
  accepted authorization; charging starts only locked and with the plug last seen
  in, and goes on only with the plug in and locked; settlement belongs to a charge that had a transaction; boot reaches
  service; a pulled plug ends the charge.
- Maintenance and firmware proxy: pages go out in order, once; nothing but a
  restart ends maintenance; an installed image leads to the restart.
- EVSE interface: an exchange always returns, soon, and with a code its caller
  expects, the wrap of the clock included.
- Page loop: each page carries the bytes of its number, all of them make up the
  image, and the loop ends.
- EVSE protocol: a disturbed reply is refused, an undisturbed one is not, and
  requests look as the EVSE expects them.
- Cellular client: bytes come out once and in order; a short read means silence;
  a write reports what was taken, and gives up only after all its tries.

## 2. The modules

| Module | Models | Uses |
|---|---|---|
| `FiniteStateMachine` | the state and `setFsmState` | |
| `EvseInterface` | an exchange with the EVSE as a handler sees it (not sent, unanswered, answered) and the EVSE's pilot and lock | |
| `OcppClient` | the client as the SECC uses it: requests in flight and the transaction id (external) | |
| `FirmwareProxy` | `proxyDownload`, `proxyInstall`, the file on flash | |
| `Maintenance` | the static variables of `seccMaintaince`, page loop and restart test | `FirmwareProxy`, `EvseInterface` |
| `Emsecc` | all handlers and listeners; the composed system and its properties | `FiniteStateMachine`, `OcppClient`, `Maintenance` |
| `ChargeSession` | abstract specification: what a charging session promises | |
| `MCEmsecc` | what comments and log lines claim and the code does not do | `Emsecc` |
| `EmseccProofs` | inductive invariant and the safety theorems | `Emsecc`, `TLAPS` |
| `SessionProofs` | `Emsecc` implements `ChargeSession` | `EmseccProofs` |
| `UpgradeLoop` | the page loop of `seccMaintaince`, one step for each call of the file, of `sendRequest_upgrade` and of `receiveResponse_upgrade` | implements the step of `Maintenance` |
| `MCUpgradeLoop` | image sizes, and what a comment says of the announced size | `UpgradeLoop` |
| `PageProofs` | the theorems of the page loop | `UpgradeLoop`, `TLAPS` |
| `ProtocolEVSE` | the checks of `unpack_ProtocolResponse`, the code made of their result, the sizes of requests | |
| `Crc16` | `CRC16_Calc`, bit by bit | |
| `ReplyCheck` | a packet in memory on both ways: a request put together and sealed with its check value; a reply, perhaps disturbed, copied for the log, its size and check value checked | `Crc16`, `ProtocolEVSE` |
| `MCReplyCheck` | the names and texts of `ProtocolEVSE.cpp`, the traffic recorded in `test/ocpp_serial.ack` | `ReplyCheck` |
| `CrcProofs` | what `CRC16_Calc` keeps: a byte more can be undone, and the parity of the bits | `Crc16`, `TLAPS` |
| `ReplyProofs` | disturbed replies are refused, right ones accepted, copies fit, requests carry their check value where their length ends | `ReplyCheck`, `CrcProofs`, `TLAPS` |
| `EvseExchange` | one exchange from inside: packing, receive loop, clock, buffer | `ProtocolEVSE` |
| `MCEvseExchange` | the claim about recorded traffic | `EvseExchange` |
| `ExchangeProofs` | how long an exchange takes and what it returns | `EvseExchange`, `TLAPS` |
| `ByteQueue` | abstract specification: what the user of a TCP client may rely on | |
| `CellRxBuffer` | `CellClientRxBuffer`: `fillBuffer`, `read`, `peek`, `available` | |
| `CellClient` | the client around it: connect, stop, flush, write, the peer | `CellRxBuffer`; implements `ByteQueue` |
| `MCCellClient` | what a comment says of `flush` | `CellClient` |
| `CellProofs` | the inductive invariant of the client and the refinement of `ByteQueue` | `CellClient`, `TLAPS` |

### How they correspond to the code

Each handler of `emSECC.cpp` is one action of `Emsecc` with the handler's name;
`secc_loop` is their disjunction, each guarded by the `case` that calls it. The
listeners are the actions of `OCPP_loop`: `BootConfirmed`, `AuthorizeEnds`,
`StartTransactionEnds`, `OnDownload`, `OnInstall`. `Reboot` stands for
`esp_restart`, `ESP.restart` and a loss of power: every member and static
variable starts again. `Environment` changes the pilot and the lock at any time.

- `ran` is the set of handlers whose static `loopCount` is not 0; only the
  difference between the first pass and the later ones matters.
- An exchange is the pair of conditions `NotSent`, `Unanswered`, `Answered`
  over the codes the two functions may return: handlers only compare with
  `COMM_SUCCESS`. `SendCodes` and `ReceiveCodes` choose the link: a perfect, an
  unreliable or a dead one.
- `cp` and `lock` are the EVSE's, and `evIsPlugged`, `evRequestsEnergy`,
  `evIsLock` are what the controller knows of them. A pilot outside A, B, C
  leaves the knowledge as it was; `evRequestsEnergy` is never cleared, as in the
  code, where the reset is commented out.
- `txId` is the sign of `getTransactionId()`. When the library changes it is not
  visible in the repository: with `TxPending` TRUE it becomes 0 with the
  request, with FALSE it stays negative until the confirmation. A refused or
  lost request leaves the id or removes it.
- A firmware location matters by its prefix (LPC, ESP, other). All LPC images
  are taken to share one file name, so that a download overwrites the last one.
- In `Maintenance`, `RestartPeriod` and `CountWrap` stand for 100000 and 2^32.
  `delivered` (pages the EVSE got) is not in the code; it is what the page
  properties are about.
- In `EvseExchange`, `replies` (the EVSE answers correctly and in time) and
  `waited` (time spent in the loop) are not in the code. `PollPort` is one pass of the
  receive loop that sees the clock change.

- `UpgradeLoop` has the statics of `emSECC.cpp` under their names. An image is
  the bytes 0 to its size less one, so that a byte is its own offset and a page's
  data the offsets it was read from; `received` (what the EVSE got) is not in the
  code. `PageSize` stands for 1024 and `SizeWrap` for the 2^16 of
  `reqFirmwarePage.size`. Its refinement of `Maintenance` hides the pages until
  the file is closed: `PagesTried` and `PagesReceived` change once for each pass.
- In `Crc16` a byte is the set of its bits that are 1: exclusive or is the
  symmetric difference and a shift takes one off each bit. `ReplyCheck` has a
  packet as a function of positions, the buffer's 256 and the few behind them
  that a length of 256 makes the code read. `sent` and `intact`, the packet
  and the check value as the sender knows them, are not in the code. The checks
  that follow the check value are those of `ProtocolEVSE`.
- `PackedBytes` is what the `packet_ProtocolRequest` functions write, byte by
  byte: the command's name, `ACK_NOACK`, the length they state (`StatedLength`,
  which is 0 for getRFIDState though it has a text), high byte first, and the
  text. Names and texts are the constants `CommandID` and `PayloadText`;
  `MCReplyCheck` gives them the literals of the code. What the EVSE expects
  (`Requests`) is the recorded traffic and goes into nothing but the comparison.
- `CopyPayload` is the `memcpy` of `evseInterface.hpp:116`: for a payload
  without a fixed size it takes as many bytes as the reply states, up to 65535,
  into a string of 256, before `unpack` looks at the size. A longer copy
  overwrites the stack; the model ends there in `Overrun`, and the properties of
  the later checks say nothing of it. One of 246 to 256 bytes reads a few bytes
  behind the buffer, which are among the positions a packet has here.
- In `CellRxBuffer` bytes are numbered in the order in which they arrive; the
  socket holds `taken + 1 .. arrived`. A call of `fillBuffer` is one step, as is a
  `memcpy`; `pc` says where a read is, so that bytes arrive between the decision
  on line 92 and what it decides. A failure of malloc, ioctl or recv is possible
  wherever the code handles one. In `CellClient`, `sent`, `fruitless` and `gaveUp`
  (what the socket took, tries in vain, and why a write ended) are not in the code.
  One thread calls the client; `read` and `peek` are called on an open client
  only, since the code does not ask.

## 3. The runs

`tlc -config X.cfg M`, all with deadlock checked but for the check of a packet,
which ends (`replies`, `claim_request`).

| Run | Module | What it asks |
|---|---|---|
| `session` | `Emsecc` | one session after another, all pilot values the switch tells apart (F stands for D, E, F), every answer of the central system, an unreliable link, power cuts: boot, authorization, at most one start and one open transaction, settlement, and with which pilot and lock charging starts and goes on |
| `upgrade` | `Emsecc` | downloads and installations of all kinds at any moment of a session, pages lost or not confirmed, power cuts, a client without pending ids: the inductive invariant `Inv`, types included, page order, that the pages of one boot are those of one image, that a boot serves one session, and the refinement of `ChargeSession` |
| `progress` | `Emsecc` | with a working link, boot reaches service, a finished charge stays settled, a plug that stays out ends the charge, an LPC image installed during maintenance leads to the restart |
| `exchange` | `EvseExchange` | the receive loop returns, briefly, with the codes the SPI port allows, wherever on the clock it starts |
| `replies` | `MCReplyCheck` | recorded replies pass, replies disturbed in two neighbouring bytes or in three bits that lie apart are refused unless the copy for the log overran, which only a disturbed length makes it do, and what the code packs are the recorded requests |
| `pages` | `MCUpgradeLoop` | pages match their numbers and make up the image, every call brings the loop nearer to its end, it returns, and it is the step `Maintenance` takes it for |
| `cell` | `MCCellClient` | the inductive invariant, bytes once and in order, honest and stubborn writes, short reads mean silence, every step brings a call nearer to its end, calls return, whatever the peer does between two system calls |

The remaining runs check one statement each that a comment, a log line or the
recorded traffic makes, and TLC refutes it; they are the findings of
`PROJECT.json`:

| Run | Statement | What the code does |
|---|---|---|
| `claim_s2` | Preparing waits for S2 (`emFiniteStateMachine.hpp:29`) | a request for energy counts for ever, and a plug until a poll shows A: Charging may be entered with the pilot at B, or, as the run shows, at F ("plugout", `ProtocolEVSE.hpp:92`), for which the same pass has just set SuspendedEVSE |
| `claim_answer` | the recorded answer to getTime (`test/ocpp_serial.ack:4-6`) is accepted | both reads of the port into the buffer are commented out: every exchange whose reply is unpacked ends in `COMM_ERROR_Unpack` |
| `claim_request` | the request getRFIDState as recorded (`test/ocpp_serial.ack:24`), with the check value of its header, which states a length of 0 | the length is 0 as recorded, the check value covers 21 bytes of payload as well |
| `claim_size` | `"Size":01288736` in a page (`ProtocolEVSE.hpp:220`) | the size is kept in 16 bits and announced modulo 65536 |
| `claim_flush` | flush "also means to clear RX" (`CellClient.cpp:453`) | what is in the receive buffer is counted and left there |

`claim_answer` decides how to read the others. At this commit the SPI port is
written to but never read, so the controller as built never gets past
`seccLinkEvse` and `seccBootOcpp`. `SpiOutcomes` states exactly which codes an
exchange can return, and all of them are among those `EvseInterface` allows.
`Emsecc` takes the codes as parameters, so that `ReceiveCodes =
{"COMM_ERROR_Unpack"}` is this build and a set with `COMM_SUCCESS` in it is a
build whose port is read. The theorems hold for both. For the former,
`ServedOnlyIfAnswered` is proved, and `IdleUnlessAnswered` beyond it: the way
round a failed getTime (`emSECC.cpp:239`) ends at the boot, no car is served,
nothing is learned of plug, lock and card, and nothing is asked of the central
system but to boot. The hypothesis of both, that one of the two codes is never
`COMM_SUCCESS`, is what `SpiOutcomes` says of the exchanges the handlers of a
session make. The runs use the latter, where the behaviour is.

Disagreements met on the way and not stated as a run, all of them reachable in
the models: a pass that reads a faulty pilot sets SuspendedEVSE, "the state of an
EVSE fault" (`emFiniteStateMachine.hpp:36`), and then replaces it with the next
state of the charge (`claim_s2` ends with such a pass, and `SafeStart` says what
such a start still rests on); the length a reply states decides how much is
copied before it is checked (`CopyFits` says when that can go wrong); nothing leads out of SuspendedEVSE, though a message says
"SECC set state to SECC_State_Unknown 5s after" (`emSECC.cpp:832`); a download
whose connection closes early ends in "Firmware download success"
(`emSECC.cpp:196`) and the short file is sent on; a page that could not be sent
is counted, and the next confirmation is taken for it (`emSECC.cpp:794`, "Wait a
confirm"); an ioctl that fails within `available` throws away the bytes it then
reports; `CellServer::available` leaks a socket whose options cannot be set. The recorded answer to getEVSEState
(`test/ocpp_serial.ack:21`) has no `Lock` and the checks refuse it; an ESP image
takes the SECC to maintenance, where there is nothing to send and no restart
unless its installation succeeds; a first byte that `available()` always promises confirms an upgrade page
even if the EVSE is silent; `REQUEST_RETRY_MAX` is declared and not used.

### Bounds, and why they are enough

- `MaxStart = 2` StartTransactions in flight: one more than `AtMostOneStart`
  allows, so that its violation is reachable (its mutant finds it); without
  pending ids the bound is reached and stops further requests. The theorems
  hold for every `MaxStart`.
- Images of 0 to 10 bytes with pages of 3: none, exact multiples and one byte
  more or less, up to four pages. `SizeWrap = 8` lets some of these sizes wrap
  and others not. The theorems hold for all sizes.
- `replies` uses the recorded packets at their real size. The noise turns over
  one bit or all of a byte, in two bytes next to each other or one, or one bit
  in each of three bytes up to seven places apart: enough to move the length by
  any power of two, to hit the check value and to hit both. What lies behind the
  buffer is zero there; `BurstRefused` and `OddRefused` are proved for anything.
- `cell`: a buffer of 3, reads and writes of up to 4, so that a read is longer
  than the buffer, and 5 bytes on a connection, so that the buffer is filled,
  used up and filled again; two tries, so that a write gives up after a part;
  a flush in chunks of 2. The theorems hold for all of these.
- `MaxPages` 1 or 2: two pages are what a lost page followed by a confirmed one,
  and a loop that stops in the middle, need.
- `RestartPeriod = 2`, `CountWrap = 7`: passes 2, 4 and 0 are looked at, and
  1, 3, 5, 6 are not, as 100000, 200000 and 0 among 2^32. The theorems hold for
  all values with `CountWrap > 2 * RestartPeriod`, the code's among them.
- `ClockWrap = 24`, `Timeout = 10`, `RxPeriod = 4`, `MaxLag = 2`: the ratios of
  2^32, 5000 and 500, coarsened; every start on the clock is tried, so every
  position of the wrap relative to start and to the last byte is. The
  assumption `ClockWrap > Timeout + MaxLag` is the one that matters: the loop
  must not be held up for a whole turn of the clock.
- `MaxWait` stops the counter `waited`, not the model.
- `session` has no downloads and `upgrade` fewer pilot values and
  no refused authorization but one that times out, to keep each question small; the invariant of both is proved without these limits.
- Nothing else is bounded: the sets of answers and codes are complete where a
  run is about them.

### Fairness

`FairSpec` assumes that `loop()` goes on calling `secc_loop`, and that what
`OCPP_loop` has to deliver is delivered: BootNotification is confirmed (the
client repeats it), authorize and startTransaction end, by an answer or by a
timeout, and the firmware service installs what it has downloaded. Nothing is
assumed of the EVSE, of drivers, or of the central system wanting an upgrade.
Weak fairness of `secc_loop` is enough because the handler of the current state
is always enabled. `progress` has a central system that accepts: with one that refuses every
StartTransaction, a charge that was unplugged never ends, since `ChargeOver`
asks for a running transaction. In `EvseExchange` the receive loop and its clock run. In
`UpgradeLoop` and `CellClient` a call that has begun goes on, nothing more: the
EVSE and the peer may be silent for ever. `CallsReturn` therefore has an
exception, the loop of `flush` on a connection the peer has closed.

## 4. What is proved

All by TLAPS, for every value of the constants that satisfies the assumptions
named in the modules (sets of codes within those the functions can return,
bounds natural numbers, `CountWrap > 2 * RestartPeriod`).

`EmseccProofs`: `Spec => []Inv`, with `Inv == TypeOK /\ BootFirst /\ AuthInv /\
TxInv`, one lemma per action. The safety properties are not inductive alone:

- `BootFirst` is, with types: every way into service tests `evseIsBooted`.
- `AuthorizedSession` needs to know that a late listener cannot replace an
  accepted answer. `AuthInv` adds that an answer is awaited only while
  `AUTHORIZING`, and that a boot starts without authorization.
- `TxOnlyIfAuthorized`, `SettlementMatchesTx` and `AtMostOneStart` need to know
  that nothing is requested before Charging, and that a request in flight shows
  in the transaction id while Charging. `TxInv` adds both.

From `Inv` follow the theorems `TypeCorrect`, `ServiceAfterBoot`,
`SessionsAreAuthorized`, `TransactionsAreAuthorized`, `OneStart`,
`NoSecondTransaction`, `SettlementsMatch`, and the action properties `ChargingStartsSafely`,
`ChargingStaysSafe`, `MaintenanceIsLasting` and `OneSession`. The first says no
more than the code keeps: the lock is closed at that moment, but a pilot of D,
E, F or INVALID does not hinder the start, which then rests on an earlier poll
that saw the plug in and one that saw S2 closed. A charge that has begun does
not outlast such a pilot (`ChargingStaysSafe`). The last one orders
the states by `Stage`, from the boot to Finishing, faults and maintenance: no
step goes back, and none replaces an accepted answer, but a restart, which
forgets boot, card and answer as well. The lemmas are `StageStep` and `AnswerStep`;
the second needs `AuthInv`, without which a late answer might be the second one.
It is why the next car is not served after a charge: the code has no way from
Finishing to Waitting.

`SessionProofs`: `Spec => ImplementsSession`. The refinement mapping reads the
phase off `fsmState`, authorization off `authState` and metering off
`transactionRunning`; every action maps to a step of `ChargeSession` or to a
stutter, and the simulation uses `Inv` in both states.

`PagesStayInOrder` (in `EmseccProofs`): `PagesInOrder` is inductive with the
types. A run of pages starts at `currentPage`, and the only step that
disturbs either side of the property is `SendPages` or a restart.

`OneOpenTx` is the part of `TxInv` that says what a late confirmation cannot do:
with a transaction open at the central system none is being requested, in
whatever state the confirmation has found the controller.
`ServedOnlyIfAnswered` and `IdleUnlessAnswered` (no run of their own, since no
run has such a link) are inductive one after the other: the ways into
service are a boot and a poll that were answered, and out of service no handler
reads the EVSE or asks for more than the boot. `OneImagePerBoot` needs `Untouched`: while the image is
not marked as sent there is no page it could be added to, and after that no pass
sends one.

`PageProofs`: an invariant of the loop relates the position of the file to the
page counter (`filePos` is `PageSize * currentPage` or the end of the file) and
what was received to both. `PagesMatch` and `ImageRebuilt` follow by the
arithmetic of whole pages; the latter needs that the statics keep the size of
the image until the next one. `PushImplemented` shows each step of the loop to be
a stutter of `Maintenance`'s step but the one that closes the file, for which
the invariant says that the pages tried are a run from 0 on.

`ExchangeProofs`: `BlocksBriefly` is not inductive; what was waited must be
related to the clock. The invariant says that before the first byte nothing has
been waited and that after it the distance to `lastRecvTime`, taken modulo
`ClockWrap`, is within `MaxLag` of it. The lemmas about `Since` are where the
assumptions on the clock are used. `SpiOutcomes` follows from the sizes both
sides compute and from the cleared buffer.

`CrcProofs` and `ReplyProofs`: the check value is a function of all that was
computed, so the proofs compare two computations, that of the packet as it was
sent (`intact`) and that of the packet in memory (`crc`).

- `BurstRefused`: a turn of the two registers can be undone, so registers that
  are different stay different while the bytes are the same. A second disturbed
  byte could undo the first, and that it cannot is seen in the high register:
  the next byte is added to the low one only. Read backwards, the eight turns of
  one byte let the high register tell every bit that left the low one
  (`LowFromHigh`), so two bytes added to equal registers leave high registers
  that differ (`AddByteShows`), and no second byte makes up for that
  (`HighKeeps`). `RegisterInv` keeps both facts; the cases at the end of the
  packet are those where the check value itself is disturbed.
- `OddRefused`: the constant that is added when a bit is shifted out has an odd
  number of bits, so each step keeps the parity of registers and bytes.
  `ParityInv` says that the two computations differ in parity if and only if
  the bytes so far do.
- `RecordedAccepted`: for replies that carry the value the computation arrives
  at (`RightReply`), as the recorded ones do, which `replies` shows. The
  invariant says that there is a computation ending in that value which the
  registers are on the way of.
- `CopiesFit`: the same invariant knows that the length of a reply as it was
  sent is one the code accepts, 256 at most, and with a fixed size the length is
  not looked at; what is left for an overrun is a length changed on the way.
- `RequestsCheckOut`: `PackInv` follows the registers over the bytes packed and
  knows that the length stays as it was written. For every text, a finished
  request has its check value where its stated length ends, but for
  getRFIDState. That the requests are those of the EVSE is a matter of their
  texts, so of the recorded traffic: `RequestsAsRecorded` is only model-checked.

- `NoiseIsRefused`: `BurstRefused` and `OddRefused` ask for `EndFound`, that the
  value is read from where the sender put it. For a burst that leaves the length
  as it was this is proved too (`BurstInv`: the burst stays within the reply,
  and the computation ends at `ReplyEnd`), so that nothing but the undisturbed
  reply is ever taken for good. It asks of the replies that they end where
  their length says (`WholeReply`) with the right value there (`RightReply`),
  as the recorded ones do.

A disturbed length moves the place the value is read from, and then the value
is right by chance once in 65536 times. What the code does about it is therefore
only model-checked (`NoiseRefused`, for the recorded packets).

`CellProofs`: `Inv` adds to the properties what a read has found when it is
between two steps (`ReadInv`) and how pointer, rest, count and tries of a write fit
together (`WriteInv`). From it follow the order of the bytes, the copies and the
writes, `ShortReadMeansSilence`, and `ImplementsQueue`: what is pending is the
unread part of the buffer and the bytes of the socket, and each fill moves
bytes from the one to the other. `BytesComeInOrder` says what a user can tell of
it (`ServedInOrder`): the bytes he gets go up, and only a flush passes over one
(`PendingIsNewer`: what is pending is newer than what was read).

### What is proved of the liveness properties

Liveness itself is out of the prover's reach. What it rests on is not: for six
of the seven properties there is a number that is never negative and that
the steps which are to bring the end nearer make smaller. That it must then
reach its end, if those steps go on being taken, is left to TLC.

| Liveness property | Theorem | What gets smaller | What the proof needs |
|---|---|---|---|
| `BootsToService` | `BootIsAdvancing` | `BootLeft`, the passes of a boot that are left, two for each of its states | a pass that waits for a confirmation has asked for one, now or before, and it is still to come (`BootAwaited`) |
| `FinishingSettles` | `SettlingIsAdvancing` | `ToSettle`, the requests in flight and the running transaction, an accepted request counting for the transaction it starts | `Inv`, for what is left when nothing is to be settled |
| `InstalledImageRestarts` | `RestartIsNearing` | `PassesLeft`, the passes up to the next one that is looked at | the arithmetic of the wrapped counter (`PeriodDivides`, `NextPass`): the passes looked at are those numbered 0, `RestartPeriod` and twice that |
| `ExchangeReturns` | `ExchangeIsAdvancing` | `PollsLeft`, the milliseconds the receive loop still has | the invariant of `ExchangeProofs` (`PollAdvances`) |
| `LoopReturns` | `LoopIsAdvancing` | `CallsLeft` of the page loop | the page counter stays within the number of pages |
| `CallsReturn` | `CallsAreAdvancing` | `StepsLeft` of a read, a write or a flush | a copy moves at least one byte and no more than are left; a part of a write costs more than the tries it gives back |

`UnplugEndsCharging` has none: what it waits for is one answered poll, and
whether there is one is up to the link. `LoopAdvances` and `CallsAdvance` are
properties of the runs `pages` and `cell`. The other four (`BootAdvances`,
`SettlingAdvances`, `RestartNears`, `ExchangeAdvances`) are defined next to the
liveness property they belong to and are settled by their proofs; a run that
evaluates them would say no more.

Only model-checked: the seven liveness properties as such,
`RequestsAsRecorded`, and `NoiseRefused` for a disturbed length, which is true of the recorded packets and
not of all.

## 5. What is not modelled, and why

- Reads of the flash that fail in the middle of an image (`UpgradeLoop` reads a
  whole page or what is left of the file). With a file that cannot be opened the
  pass returns before the restart test (`emSECC.cpp:760`); `upgrade` has this,
  `progress`, which has a flash that works, does not.
- The power limit, the PWM value computed from it, the energy meter and meter
  values: data that no handler decides on. The energy sampler converts a clock
  reading to float, which is beyond the arithmetic TLC has.
- The text of payloads: `ProtocolEVSE` models which checks are made, in which
  order, and with which result, by the keys an object has.
- The SPI driver but for `available`: register access. The byte behind the packet
  that `SPIString` sends is listed as a hazard.
- `setup()`, WIFI, the modem start: sequences of calls to libraries, repeated
  until they succeed.
- Time: `validateOcppTime` is a list of conditions on a string whose result is
  only logged (the call that would set the clock is commented out); a model would
  be that list again. The rest of `Common.cpp` calls the C library.
- Of the cellular client: writing a stream, which calls `write` piece by piece,
  socket options and addresses, name resolution. `CellServer` wraps `accept`.
- `secc/emProxyUpgrade.cpp`: an earlier version of the firmware proxy, which
  nothing calls.
- Heartbeat, smart charging, the web socket: inside the library.

## 6. Plan

Done: the controller with its surroundings, its invariant and the refinement of
`ChargeSession`; the exchange and its proofs; the page loop and its refinement
of a step of `Maintenance`; the check value; the TCP client and its refinement of
`ByteQueue`; the measures of the liveness properties. What is left, in this
order:

1. The exchange and the controller in one module, so that the hypothesis of
   `IdleUnlessAnswered` is a consequence of `SpiOutcomes` and not read off it.
2. `CellServer` on top of `CellClient`, if a build comes to use it.
3. The sampler of the energy meter, if its value comes to decide anything.
