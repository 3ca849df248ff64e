---------------------------- MODULE EvseExchange ----------------------------
(***************************************************************************)
(* One exchange with the EVSE from inside EVSE_Interfacer: the request is  *)
(* packed and written to the SPI port, the receive loop polls the port     *)
(* against the millisecond clock, and the buffer is unpacked.  The caller  *)
(* is a handler of EMSECC, which waits for the code.                       *)
(*                                                                         *)
(* The clock is unsigned and wraps: 2^32 ms in the code.  EvseInterface is *)
(* what a handler sees of all this.                                        *)
(***************************************************************************)
EXTENDS ProtocolEVSE

CONSTANTS
  ClockWrap,     \* 2^32 in the code
  Timeout,       \* EVSE_RESPONSE_TIMEOUT, 5000 ms
  RxPeriod,      \* UART_RX_PERIOD, 500 ms
  MaxLag         \* bound: ms between two readings of the clock

VARIABLES
  phase,         \* what the caller waits for
  cmd,           \* the command of the exchange
  replies,       \* the EVSE answers it, correctly and in time
  now,           \* millis()
  start, lastRecvTime, recvBytes,   \* locals of evseif_RecvBuffer_sync
  waited,        \* ms spent in the loop: not in the code; never wraps, and
                 \* stops counting at MaxWait
  code           \* what the exchange returned

vars == <<phase, cmd, replies, now, start, lastRecvTime, recvBytes, waited,
          code>>

ASSUME TimesAssumption ==
  /\ RxPeriod \in Nat /\ Timeout \in Nat /\ MaxLag \in Nat \ {0}
  /\ ClockWrap \in Nat
  /\ ClockWrap > Timeout + MaxLag /\ ClockWrap > RxPeriod + MaxLag
  /\ MaxLag <= Timeout    \* the loop polls more often than it gives up

MaxWait == RxPeriod + 2 * MaxLag + 1

Requests == Commands \cup {"upgrade"}
Time == 0 .. (ClockWrap - 1)

(* available() of the SPI port counts no bytes: it always answers 1.        *)
available == 1

-----------------------------------------------------------------------------
(* Sending                                                                  *)

(* The size sendRequest reserves for the payload: the size of the request's *)
(* structure, and nothing if that is empty.  Sizes of an upgrade page are   *)
(* relative to its description, which both sides measure.                   *)
RequestSize(request) ==
  CASE request \in {"gettime", "gsysstat"} -> 0
    [] request = "settime" -> 37
    [] request = "gconevse" -> 22
    [] request = "grfstate" -> 21
    [] request = "upgrade" -> PAGE_SIZE * 3 - 1 + 2

(* The handler has done something else for any time since the last one.     *)
sendRequest ==
  /\ phase = "idle"
  /\ now' \in Time /\ cmd' \in Requests /\ replies' \in BOOLEAN
  /\ \/ phase' = "returned" /\ code' = "COMM_ERROR_MALLOC"
        /\ UNCHANGED <<start, lastRecvTime, recvBytes, waited>>
     \/ /\ RequestSize(cmd') # PackedSize(cmd')
        /\ phase' = "returned" /\ code' = "COMM_ERROR_PacketSize"
        /\ UNCHANGED <<start, lastRecvTime, recvBytes, waited>>
     \/ /\ RequestSize(cmd') = PackedSize(cmd')
        /\ phase' = "receiving" /\ start' = now' /\ lastRecvTime' = 0
        /\ recvBytes' = 0 /\ waited' = 0 /\ code' = "none"

-----------------------------------------------------------------------------
(* Receiving                                                                *)

(* Unsigned difference of two readings of the clock.                        *)
Since(time, earlier) == (time - earlier) % ClockWrap

(* Mutant: the end of the quiet period is computed instead of the distance. *)
QuietUntil == recvBytes > 0 /\ now' > (lastRecvTime + RxPeriod) % ClockWrap

Quiet == recvBytes > 0 /\ Since(now', lastRecvTime) > RxPeriod

(* Mutant: both ends are computed, in a type wider than the clock.          *)
LoopEndsLate ==
  \/ now' > start + Timeout
  \/ recvBytes > 0 /\ now' > lastRecvTime + RxPeriod

LoopEnds ==
  \/ Since(now', start) > Timeout
  \/ Quiet

(* One pass of the loop that sees the clock change.  Passes within the same *)
(* millisecond change nothing: they are stuttering.                         *)
PollPort ==
  /\ phase = "receiving"
  /\ \E lag \in 1 .. MaxLag :
       /\ now' = (now + lag) % ClockWrap
       /\ waited' = IF waited + lag < MaxWait THEN waited + lag ELSE MaxWait
  /\ \/ LoopEnds /\ phase' = "received"
        /\ UNCHANGED <<lastRecvTime, recvBytes>>
     \/ /\ ~LoopEnds
        /\ recvBytes' = IF available > recvBytes THEN available ELSE recvBytes
        /\ lastRecvTime' = IF available > recvBytes THEN now' ELSE lastRecvTime
        /\ phase' = IF recvBytes' >= BufferSize THEN "received" ELSE phase
  /\ UNCHANGED <<cmd, replies, start, code>>

(* The bytes of the port are never moved into the buffer, which is as it    *)
(* was cleared: the copy of the payload that receiveResponse makes for its  *)
(* log takes 37 zeros or nothing (ReplyCheck has the copy of a real reply). *)
(* The confirmation of an upgrade page is not unpacked.                     *)
receiveResponse ==
  /\ phase = "received" /\ phase' = "returned"
  /\ code' = CASE recvBytes = 0 -> "COMM_ERROR_ReceiveTimeout"
               [] recvBytes > BufferSize -> "COMM_ERROR_ReceiveSize"
               [] OTHER -> IF cmd = "upgrade" THEN "COMM_SUCCESS"
                           ELSE ResponseCode(cmd, EmptyBuffer)
  /\ UNCHANGED <<cmd, replies, now, start, lastRecvTime, recvBytes, waited>>

(* The locals and the packet are gone.                                      *)
Return ==
  /\ phase = "returned" /\ phase' = "idle"
  /\ cmd' = "gettime" /\ replies' = FALSE /\ code' = "none"
  /\ start' = 0 /\ lastRecvTime' = 0 /\ recvBytes' = 0 /\ waited' = 0
  /\ UNCHANGED now

-----------------------------------------------------------------------------
Init ==
  /\ phase = "idle" /\ cmd = "gettime" /\ replies = FALSE /\ now = 0
  /\ start = 0 /\ lastRecvTime = 0 /\ recvBytes = 0 /\ waited = 0
  /\ code = "none"

Next == sendRequest \/ PollPort \/ receiveResponse \/ Return

(* The loop runs and the clock with it.                                     *)
Spec == Init /\ [][Next]_vars /\ WF_vars(PollPort) /\ WF_vars(receiveResponse)

-----------------------------------------------------------------------------
(* secc_loop is held up for little more than the quiet period, the wrap of  *)
(* the clock included, whatever the EVSE does: OCPP_loop is not starved.    *)
BlocksBriefly == waited < MaxWait

(* Every exchange comes back to its handler.                                *)
ExchangeReturns == phase = "receiving" ~> phase = "returned"

(* A bound on the milliseconds in which the loop still polls, and so on its *)
(* passes that see the clock change, and on the steps after them.           *)
PollsLeft ==
  CASE phase = "receiving" /\ recvBytes = 0 -> RxPeriod + 3
    [] phase = "receiving" /\ recvBytes > 0 ->
         RxPeriod + 2 - Since(now, lastRecvTime)
    [] phase = "received" -> 1
    [] OTHER -> 0

(* Every pass that sees the clock change brings the loop nearer to its end, *)
(* across the wrap of the clock as well, and whatever the EVSE does.        *)
ExchangeAdvances ==
  [][PollPort \/ receiveResponse => PollsLeft' \in 0 .. (PollsLeft - 1)]_vars

(* What EvseInterface may assume of this port: nothing but memory stops a   *)
(* request, and no reply is ever taken for an answer.                       *)
SpiOutcomes ==
  phase = "returned" =>
    code \in IF cmd = "upgrade" THEN {"COMM_ERROR_MALLOC", "COMM_SUCCESS"}
                                ELSE {"COMM_ERROR_MALLOC", "COMM_ERROR_Unpack"}

=============================================================================
