---------------------------- MODULE ExchangeProofs ----------------------------
(***************************************************************************)
(* The exchange over the SPI port for every clock, timeout and quiet       *)
(* period: it holds its caller up for little more than the quiet period,   *)
(* and it has the outcomes EvseInterface takes it to have.                 *)
(***************************************************************************)
EXTENDS EvseExchange, TLAPS

-----------------------------------------------------------------------------
(* The clock                                                                *)

LEMMA Quotient ==
  ASSUME NEW x \in Int
  PROVE  /\ x % ClockWrap \in Time
         /\ x = ClockWrap * (x \div ClockWrap) + (x % ClockWrap)
         /\ x \div ClockWrap \in Int
<1>1. ClockWrap \in Nat /\ ClockWrap > 0
  BY TimesAssumption
<1>2. x \div ClockWrap \in Int
  BY <1>1
<1>3. x % ClockWrap \in 0 .. (ClockWrap - 1)
  BY <1>1
<1>4. x = ClockWrap * (x \div ClockWrap) + (x % ClockWrap)
  BY <1>1
<1>. QED  BY <1>2, <1>3, <1>4 DEF Time

LEMMA MultipleInRange ==
  ASSUME NEW k \in Int, NEW r \in Time,
         ClockWrap * k + r \in (0 - ClockWrap) .. (2 * ClockWrap - 1)
  PROVE  k \in {-1, 0, 1}
<1>1. ClockWrap \in Nat \ {0}
  BY TimesAssumption
<1>2. ~(k >= 2)
  <2>1. ASSUME k >= 2 PROVE FALSE
    <3>1. ClockWrap * k >= ClockWrap * 2
      BY <1>1, <2>1
    <3>. QED  BY <1>1, <3>1 DEF Time
  <2>. QED  BY <2>1
<1>3. ~(k <= -2)
  <2>1. ASSUME k <= -2 PROVE FALSE
    <3>1. ClockWrap * k <= ClockWrap * (-2)
      BY <1>1, <2>1
    <3>. QED  BY <1>1, <3>1 DEF Time
  <2>. QED  BY <2>1
<1>. QED  BY <1>2, <1>3

(* The remainder of a number less than a wrap away from the clock's range.  *)
LEMMA WrapOnce ==
  ASSUME NEW x \in (0 - ClockWrap) .. (2 * ClockWrap - 1)
  PROVE  x % ClockWrap = IF x < 0 THEN x + ClockWrap
                         ELSE IF x < ClockWrap THEN x ELSE x - ClockWrap
<1>. DEFINE k == x \div ClockWrap
            r == x % ClockWrap
<1>1. /\ x \in Int /\ ClockWrap \in Nat \ {0}
  BY TimesAssumption
<1>2. r \in Time /\ k \in Int /\ x = ClockWrap * k + r
  BY <1>1, Quotient
<1>. HIDE DEF k, r
<1>3. k \in {-1, 0, 1}
  BY <1>2, MultipleInRange
<1>4. CASE k = -1
  <2>1. x = r - ClockWrap
    BY <1>1, <1>2, <1>4 DEF Time
  <2>. QED  BY <1>1, <1>2, <2>1 DEF Time, r
<1>5. CASE k = 0
  <2>1. x = r
    BY <1>1, <1>2, <1>5 DEF Time
  <2>. QED  BY <1>1, <1>2, <2>1 DEF Time, r
<1>6. CASE k = 1
  <2>1. x = ClockWrap + r
    BY <1>1, <1>2, <1>6 DEF Time
  <2>. QED  BY <1>1, <1>2, <2>1 DEF Time, r
<1>. QED  BY <1>3, <1>4, <1>5, <1>6

(* As long as it stays below a wrap, a difference of two readings grows by  *)
(* what the clock grows, across the wrap as well.                           *)
LEMMA SinceGrows ==
  ASSUME NEW time \in Time, NEW earlier \in Time, NEW lag \in Nat,
         Since(time, earlier) + lag < ClockWrap
  PROVE  /\ (time + lag) % ClockWrap \in Time
         /\ Since((time + lag) % ClockWrap, earlier) = Since(time, earlier) + lag
<1>1. /\ ClockWrap \in Nat \ {0} /\ time \in Int /\ earlier \in Int
      /\ time >= 0 /\ time < ClockWrap /\ earlier >= 0 /\ earlier < ClockWrap
  BY TimesAssumption DEF Time
<1>2. time - earlier \in (0 - ClockWrap) .. (2 * ClockWrap - 1)
  BY <1>1
<1>3. Since(time, earlier) = IF time < earlier THEN time - earlier + ClockWrap
                                               ELSE time - earlier
  BY <1>1, <1>2, WrapOnce DEF Since
<1>4. lag < ClockWrap
  BY <1>1, <1>3
<1>5. time + lag \in (0 - ClockWrap) .. (2 * ClockWrap - 1)
  BY <1>1, <1>4
<1>. DEFINE later == (time + lag) % ClockWrap
<1>6. later = IF time + lag < ClockWrap THEN time + lag
                                        ELSE time + lag - ClockWrap
  BY <1>1, <1>5, WrapOnce
<1>. HIDE DEF later
<1>7. later \in Time
  BY <1>1, <1>4, <1>6 DEF Time
<1>8. later - earlier \in (0 - ClockWrap) .. (2 * ClockWrap - 1)
  BY <1>1, <1>7 DEF Time
<1>9. Since(later, earlier) = IF later < earlier THEN later - earlier + ClockWrap
                                                 ELSE later - earlier
  BY <1>1, <1>7, <1>8, WrapOnce DEF Since, Time
<1>10. Since(later, earlier) = Since(time, earlier) + lag
  BY <1>1, <1>3, <1>4, <1>6, <1>9
<1>. QED  BY <1>7, <1>10 DEF later

LEMMA SinceSelf == ASSUME NEW time \in Time PROVE Since(time, time) = 0
<1>1. ClockWrap \in Nat \ {0} /\ time - time = 0
  BY TimesAssumption DEF Time
<1>2. 0 \in (0 - ClockWrap) .. (2 * ClockWrap - 1)
  BY <1>1
<1>. QED  BY <1>1, <1>2, WrapOnce DEF Since

-----------------------------------------------------------------------------
(* The checks on a buffer nothing was written to                            *)

LEMMA SizesAgree ==
  ASSUME NEW request \in Requests
  PROVE  RequestSize(request) = PackedSize(request)
BY DEF RequestSize, PackedSize, Requests, Commands, PAGE_SIZE

LEMMA EmptyIsRefused ==
  ASSUME NEW command \in Commands
  PROVE  ResponseCode(command, EmptyBuffer) = "COMM_ERROR_Unpack"
<1>. DEFINE failed == {i \in DOMAIN CheckErrors :
                         ~Checks(command, EmptyBuffer)[i]}
            least == CHOOSE i \in failed : \A j \in failed : i <= j
<1>1. DOMAIN CheckErrors = 1 .. 7
  BY DEF CheckErrors
<1>2. ~Checks(command, EmptyBuffer)[2]
  BY DEF Checks, EmptyBuffer
<1>3. 0 <= MaxPayload(command)
  BY DEF MaxPayload, BufferSize, Overhead
<1>4. Checks(command, EmptyBuffer)[1]
  BY <1>3 DEF Checks, EmptyBuffer
<1>5. 2 \in failed /\ 1 \notin failed /\ failed \subseteq 1 .. 7
  BY <1>1, <1>2, <1>4
<1>. HIDE DEF failed
<1>6. \E i \in failed : \A j \in failed : i <= j
  BY <1>5
<1>7. least \in failed
  BY <1>6
<1>. HIDE DEF least
<1>8. CheckErrors[least] # "Success"
  BY <1>5, <1>7 DEF CheckErrors
<1>9. unpack_ProtocolResponse(command, EmptyBuffer) = CheckErrors[least]
  BY <1>5 DEF unpack_ProtocolResponse, failed, least
<1>. QED  BY <1>8, <1>9 DEF ResponseCode

-----------------------------------------------------------------------------
(* The invariant                                                            *)

(* The first pass of the loop finds the byte the port always claims to      *)
(* have; from then on the quiet period runs.                                *)
LoopInv ==
  /\ phase = "receiving" /\ recvBytes = 0 => now = start /\ waited = 0
  /\ phase = "receiving" /\ recvBytes = 1 =>
       /\ Since(now, lastRecvTime) <= RxPeriod
       /\ waited <= MaxLag + Since(now, lastRecvTime)

ExchangeInv ==
  /\ phase \in {"idle", "receiving", "received", "returned"}
  /\ cmd \in Requests /\ recvBytes \in {0, 1}
  /\ now \in Time /\ start \in Time /\ lastRecvTime \in Time
  /\ waited \in Nat /\ BlocksBriefly
  /\ phase = "received" => recvBytes = 1
  /\ LoopInv
  /\ SpiOutcomes

LEMMA ExchangeInvInit == Init => ExchangeInv
BY TimesAssumption
   DEF Init, ExchangeInv, LoopInv, SpiOutcomes, BlocksBriefly, MaxWait,
       Requests, Commands, Time

LEMMA PollKeeps == ExchangeInv /\ PollPort => ExchangeInv'
<1>. SUFFICES ASSUME ExchangeInv, PollPort PROVE ExchangeInv'
  OBVIOUS
<1>1. PICK lag \in 1 .. MaxLag :
        /\ now' = (now + lag) % ClockWrap
        /\ waited' = IF waited + lag < MaxWait THEN waited + lag ELSE MaxWait
  BY DEF PollPort
<1>2. /\ lag \in Nat /\ lag >= 1 /\ lag <= MaxLag
      /\ RxPeriod \in Nat /\ Timeout \in Nat /\ MaxLag \in Nat
      /\ ClockWrap > Timeout + MaxLag /\ ClockWrap > RxPeriod + MaxLag
      /\ MaxLag <= Timeout /\ ClockWrap \in Nat
  BY TimesAssumption
<1>3. /\ phase = "receiving" /\ recvBytes \in {0, 1} /\ cmd \in Requests
      /\ now \in Time /\ start \in Time /\ lastRecvTime \in Time
      /\ waited \in Nat
      /\ UNCHANGED <<cmd, start>>
  BY DEF ExchangeInv, PollPort
<1>4. CASE recvBytes = 0
  <2>1. now = start /\ waited = 0
    BY <1>3, <1>4 DEF ExchangeInv, LoopInv
  <2>2. Since(now, start) = 0
    BY <1>3, <2>1, SinceSelf
  <2>3. now' \in Time /\ Since(now', start) = lag
    BY <1>1, <1>2, <1>3, <2>2, SinceGrows
  <2>4. ~LoopEnds
    BY <1>2, <1>4, <2>3 DEF LoopEnds, Quiet
  <2>5. recvBytes' = 1 /\ lastRecvTime' = now' /\ phase' = "receiving"
    BY <1>3, <1>4, <2>4 DEF PollPort, available, BufferSize
  <2>6. Since(now', lastRecvTime') = 0
    BY <2>3, <2>5, SinceSelf
  <2>7. waited' = lag /\ waited' < MaxWait
    BY <1>1, <1>2, <2>1 DEF MaxWait
  <2>8. LoopInv'
    <3>1. Since(now, lastRecvTime)' = 0
      BY <2>6 DEF Since
    <3>. QED  BY <1>2, <2>5, <2>7, <3>1 DEF LoopInv
  <2>. QED  BY <1>2, <1>3, <2>3, <2>5, <2>7, <2>8
            DEF ExchangeInv, BlocksBriefly, SpiOutcomes, MaxWait
<1>5. CASE recvBytes = 1
  <2>. DEFINE quiet == Since(now, lastRecvTime)
  <2>1. quiet <= RxPeriod /\ waited <= MaxLag + quiet /\ quiet \in Nat
    <3>1. now - lastRecvTime \in Int
      BY <1>3 DEF Time
    <3>2. quiet \in Time
      BY <3>1, Quotient DEF Since
    <3>. QED  BY <1>3, <1>5, <3>2 DEF ExchangeInv, LoopInv, Time
  <2>2. now' \in Time /\ Since(now', lastRecvTime) = quiet + lag
    BY <1>1, <1>2, <1>3, <2>1, SinceGrows
  <2>. HIDE DEF quiet
  <2>3. waited + lag < MaxWait
    BY <1>2, <1>3, <2>1 DEF MaxWait
  <2>4. /\ waited' = waited + lag /\ waited' < MaxWait /\ waited' \in Nat
        /\ waited' <= MaxLag + (quiet + lag)
    BY <1>1, <1>2, <1>3, <2>1, <2>3
  <2>5. MaxWait' = MaxWait
    BY DEF MaxWait
  <2>6. CASE LoopEnds
    <3>1. phase' = "received" /\ recvBytes' = 1 /\ lastRecvTime' = lastRecvTime
      BY <1>5, <2>6 DEF PollPort
    <3>. QED  BY <1>3, <2>2, <2>4, <2>5, <3>1
              DEF ExchangeInv, LoopInv, BlocksBriefly, SpiOutcomes
  <2>7. CASE ~LoopEnds
    <3>1. /\ recvBytes' = 1 /\ lastRecvTime' = lastRecvTime
          /\ phase' = "receiving"
      BY <1>3, <1>5, <2>7 DEF PollPort, available, BufferSize
    <3>2. quiet + lag <= RxPeriod
      BY <1>2, <1>5, <2>1, <2>2, <2>7 DEF LoopEnds, Quiet
    <3>3. Since(now, lastRecvTime)' = quiet + lag
      BY <2>2, <3>1 DEF Since
    <3>4. LoopInv'
      BY <2>4, <3>1, <3>2, <3>3 DEF LoopInv
    <3>. QED  BY <1>3, <2>2, <2>4, <2>5, <3>1, <3>4
              DEF ExchangeInv, BlocksBriefly, SpiOutcomes
  <2>. QED  BY <2>6, <2>7
<1>. QED  BY <1>3, <1>4, <1>5

(* What a pass does to the distance from the last byte.                     *)
LEMMA PollAdvances ==
  ASSUME ExchangeInv, ExchangeInv', PollPort
  PROVE  PollsLeft' \in 0 .. (PollsLeft - 1)
<1>1. PICK lag \in 1 .. MaxLag : now' = (now + lag) % ClockWrap
  BY DEF PollPort
<1>2. /\ lag \in Nat /\ lag >= 1 /\ lag <= MaxLag
      /\ RxPeriod \in Nat /\ MaxLag \in Nat
      /\ ClockWrap \in Nat /\ ClockWrap > RxPeriod + MaxLag
  BY TimesAssumption
<1>3. /\ phase = "receiving" /\ recvBytes \in {0, 1}
      /\ now \in Time /\ lastRecvTime \in Time
  BY DEF ExchangeInv, PollPort
<1>4. CASE phase' = "received"
  <2>1. PollsLeft' = 1
    BY <1>4 DEF PollsLeft
  <2>2. CASE recvBytes = 0
    BY <1>2, <1>3, <2>1, <2>2 DEF PollsLeft
  <2>3. CASE recvBytes = 1
    <3>1. Since(now, lastRecvTime) \in Time /\ Since(now, lastRecvTime) <= RxPeriod
      <4>1. now - lastRecvTime \in Int
        BY <1>3 DEF Time
      <4> QED BY <1>3, <2>3, <4>1, Quotient DEF Since, ExchangeInv, LoopInv
    <3>2. PollsLeft = RxPeriod + 2 - Since(now, lastRecvTime)
      BY <1>3, <2>3 DEF PollsLeft
    <3> QED BY <1>2, <2>1, <3>1, <3>2 DEF Time
  <2> QED BY <1>3, <2>2, <2>3
<1>5. CASE phase' = "receiving"
  <2>1. ~LoopEnds
    BY <1>5 DEF PollPort
  <2>2. CASE recvBytes = 0
    <3>1. recvBytes' = 1 /\ lastRecvTime' = now' /\ now' \in Time
      BY <2>1, <2>2 DEF PollPort, available, ExchangeInv
    <3>2. Since(now, lastRecvTime)' = 0
      BY <3>1, SinceSelf DEF Since
    <3>3. PollsLeft = RxPeriod + 3
      BY <1>3, <2>2 DEF PollsLeft
    <3>4. PollsLeft' = RxPeriod + 2
      BY <1>2, <1>5, <3>1, <3>2 DEF PollsLeft
    <3> QED BY <1>2, <3>3, <3>4
  <2>3. CASE recvBytes = 1
    <3> DEFINE quiet == Since(now, lastRecvTime)
    <3>1. quiet \in Nat /\ quiet <= RxPeriod
      <4>1. now - lastRecvTime \in Int
        BY <1>3 DEF Time
      <4>2. quiet \in Time
        BY <4>1, Quotient DEF Since
      <4> QED BY <1>3, <2>3, <4>2 DEF ExchangeInv, LoopInv, Time
    <3>2. recvBytes' = 1 /\ lastRecvTime' = lastRecvTime
      BY <2>1, <2>3 DEF PollPort, available
    <3>3. Since(now', lastRecvTime) = quiet + lag
      BY <1>1, <1>2, <1>3, <3>1, SinceGrows
    <3>4. quiet + lag <= RxPeriod
      BY <1>2, <2>1, <2>3, <3>1, <3>3 DEF LoopEnds, Quiet
    <3>5. PollsLeft = RxPeriod + 2 - quiet
      BY <1>3, <2>3 DEF PollsLeft
    <3>6. PollsLeft' = RxPeriod + 2 - (quiet + lag)
      BY <1>5, <3>2, <3>3 DEF PollsLeft, Since
    <3> HIDE DEF quiet
    <3> QED BY <1>2, <3>1, <3>4, <3>5, <3>6
  <2> QED BY <1>3, <2>2, <2>3
<1> QED BY <1>3, <1>4, <1>5 DEF PollPort

LEMMA ExchangeInvNext == ExchangeInv /\ [Next]_vars => ExchangeInv'
<1>. SUFFICES ASSUME ExchangeInv, [Next]_vars PROVE ExchangeInv'
  OBVIOUS
<1>1. CASE sendRequest
  <2>1. now' \in Time /\ cmd' \in Requests
    BY <1>1 DEF sendRequest
  <2>2. RequestSize(cmd') = PackedSize(cmd')
    BY <2>1, SizesAgree
  <2>3. CASE phase' = "returned" /\ code' = "COMM_ERROR_MALLOC"
               /\ UNCHANGED <<start, lastRecvTime, recvBytes, waited>>
    BY <2>1, <2>3
       DEF ExchangeInv, LoopInv, BlocksBriefly, SpiOutcomes, MaxWait
  <2>4. CASE /\ phase' = "receiving" /\ start' = now' /\ lastRecvTime' = 0
             /\ recvBytes' = 0 /\ waited' = 0 /\ code' = "none"
    <3>1. 0 \in Time /\ 0 < MaxWait
      BY TimesAssumption DEF Time, MaxWait
    <3>. QED  BY <2>1, <2>4, <3>1
              DEF ExchangeInv, LoopInv, BlocksBriefly, SpiOutcomes, MaxWait
  <2>. QED  BY <1>1, <2>2, <2>3, <2>4 DEF sendRequest
<1>2. CASE PollPort
  BY <1>2, PollKeeps
<1>3. CASE receiveResponse
  <2>1. recvBytes = 1 /\ cmd \in Requests /\ phase' = "returned"
    BY <1>3 DEF receiveResponse, ExchangeInv
  <2>2. code' = IF cmd = "upgrade" THEN "COMM_SUCCESS"
                ELSE ResponseCode(cmd, EmptyBuffer)
    BY <1>3, <2>1 DEF receiveResponse, BufferSize
  <2>3. cmd # "upgrade" => code' = "COMM_ERROR_Unpack"
    BY <2>1, <2>2, EmptyIsRefused DEF Requests
  <2>4. SpiOutcomes'
    BY <1>3, <2>2, <2>3 DEF SpiOutcomes, receiveResponse
  <2>. QED  BY <1>3, <2>1, <2>4
            DEF receiveResponse, ExchangeInv, LoopInv, BlocksBriefly, MaxWait
<1>4. CASE Return
  <2>1. 0 \in Time /\ 0 < MaxWait /\ "gettime" \in Requests
    BY TimesAssumption DEF Time, MaxWait, Requests, Commands
  <2>. QED  BY <1>4, <2>1
            DEF Return, ExchangeInv, LoopInv, BlocksBriefly, SpiOutcomes, MaxWait
<1>5. CASE UNCHANGED vars
  BY <1>5 DEF vars, ExchangeInv, LoopInv, BlocksBriefly, SpiOutcomes, MaxWait,
              Since
<1>. QED  BY <1>1, <1>2, <1>3, <1>4, <1>5 DEF Next

LEMMA ExchangeInvHolds == Spec => []ExchangeInv
BY ExchangeInvInit, ExchangeInvNext, PTL DEF Spec

(* However long the wrap, the timeout and the quiet period, the handler is  *)
(* held up for at most the quiet period and two readings of the clock.      *)
THEOREM ExchangeIsBrief == Spec => []BlocksBriefly
BY ExchangeInvHolds, PTL DEF ExchangeInv

(* The receive loop approaches its end with every reading of the clock.     *)
THEOREM ExchangeIsAdvancing == Spec => ExchangeAdvances
<1>1. ASSUME ExchangeInv, ExchangeInv', [Next]_vars, PollPort \/ receiveResponse
      PROVE  PollsLeft' \in 0 .. (PollsLeft - 1)
  <2>1. CASE receiveResponse
    BY <2>1 DEF receiveResponse, PollsLeft
  <2> QED BY <1>1, <2>1, PollAdvances
<1> QED BY <1>1, ExchangeInvHolds, PTL DEF Spec, ExchangeAdvances

(* No exchange over this port ends in anything but a failed allocation, a   *)
(* reply that is refused or, for a page, a confirmation nobody gave.        *)
THEOREM ExchangeOutcomes == Spec => []SpiOutcomes
BY ExchangeInvHolds, PTL DEF ExchangeInv

=============================================================================
