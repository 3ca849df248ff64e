----------------------------- MODULE CellProofs -----------------------------
(***************************************************************************)
(* CellClient: the inductive invariant, and that a client is a queue of    *)
(* bytes, for every size of the buffer, every number of tries and every    *)
(* way in which a read is cut into fills and copies.                       *)
(***************************************************************************)
EXTENDS CellClient, SequenceTheorems, TLAPS

USE SizesAssumption, LimitsAssumption

-----------------------------------------------------------------------------
(* The buffer                                                               *)

(* fillBuffer keeps what is pending, its order and the members' types; what *)
(* is unread stays where it is unless the buffer has been used up.          *)
LEMMA FillIsSound ==
  ASSUME RxTypeOK, BufferInOrder, NEW count \in 0 .. Size, fillBuffer(count),
         last' = last
  PROVE  /\ RxTypeOK' /\ BufferInOrder' /\ Pending' = Pending
         /\ fill' - pos' = (fill - pos) + count
         /\ pos < fill => fill' = fill + count
         /\ arrived' = arrived
<1> DEFINE Rest == pos .. (fill - 1)
<1>1. CASE count = 0 /\ ~allocated /\ failed' = TRUE
             /\ UNCHANGED <<socketVars, allocated, buffer, pos, fill>>
  <2>1. RxTypeOK' /\ Pending' = Pending
    BY <1>1 DEF RxTypeOK, Pending, socketVars
  <2>2. BufferInOrder'
    BY <1>1 DEF BufferInOrder, socketVars
  <2> QED BY <1>1, <2>1, <2>2 DEF RxTypeOK, socketVars
<1>2. CASE count = 0 /\ allocated' = TRUE
             /\ pos' = (IF Rewound THEN 0 ELSE pos) /\ fill' = Start + count
             /\ failed' \in BOOLEAN /\ UNCHANGED <<socketVars, buffer>>
  <2>1. pos' .. (fill' - 1) = Rest
    BY <1>2 DEF RxTypeOK, Rewound, Start
  <2>2. CASE Rewound
    BY <1>2, <2>1, <2>2 DEF RxTypeOK, BufferInOrder, Pending, socketVars,
                            Rewound, Start
  <2>3. CASE ~Rewound
    BY <1>2, <2>1, <2>3 DEF RxTypeOK, BufferInOrder, Pending, socketVars,
                            Rewound, Start
  <2> QED BY <2>2, <2>3
<1>3. CASE count > 0 /\ count <= Room /\ count <= r_available
             /\ allocated' = TRUE
             /\ pos' = (IF Rewound THEN 0 ELSE pos) /\ fill' = Start + count
             /\ Received(count) /\ taken' = taken + count
             /\ UNCHANGED <<arrived, failed>>
  <2> DEFINE New == Start .. (Start + count - 1)
  <2>1. /\ Start \in 0 .. Size /\ Start + count <= Size
        /\ taken + count <= arrived
        /\ arrived \in Nat /\ taken \in Nat /\ MaxBytes \in Nat
    BY <1>3 DEF RxTypeOK, Room, Start, r_available, Queued
  <2>2. /\ pos' = IF Rewound THEN 0 ELSE pos
        /\ fill' = Start + count /\ taken' = taken + count
    BY <1>3
  <2>3. RxTypeOK'
    BY <1>3, <2>1 DEF RxTypeOK, Received, Rewound, Start
  <2>4. \A i \in New : buffer'[i] = taken + 1 + (i - Start)
    BY <1>3, <2>1 DEF Received
  <2>5. \A i \in Rest : i \notin New /\ buffer'[i] = buffer[i]
    BY <1>3, <2>1 DEF Received, RxTypeOK, Rewound, Start
  <2>6. /\ pos' .. (fill' - 1) = Rest \cup New
        /\ \A i \in Rest, j \in New : i < j
    BY <2>1, <2>2 DEF Rewound, Start, RxTypeOK
  <2>7. BufferInOrder'
    <3>1. last' <= taken'
      BY <2>1, <2>2 DEF BufferInOrder, RxTypeOK
    <3>2. \A i \in Rest \cup New : last' < buffer'[i] /\ buffer'[i] <= taken'
      <4> TAKE i \in Rest \cup New
      <4>1. CASE i \in Rest
        <5>1. buffer'[i] = buffer[i] /\ i \in 0 .. (Size - 1)
          BY <4>1, <2>5 DEF RxTypeOK
        <5>2. buffer[i] \in Nat /\ last < buffer[i] /\ buffer[i] <= taken
          BY <4>1, <5>1 DEF BufferInOrder, RxTypeOK
        <5> QED BY <5>1, <5>2, <2>1, <2>2
      <4>2. CASE i \in New
        BY <4>2, <2>4, <2>1, <2>2 DEF BufferInOrder, RxTypeOK
      <4> QED BY <4>1, <4>2
    <3>3. \A i, j \in Rest \cup New : i < j => buffer'[i] < buffer'[j]
      <4> SUFFICES ASSUME NEW i \in Rest \cup New, NEW j \in Rest \cup New,
                          i < j
                   PROVE  buffer'[i] < buffer'[j]
        OBVIOUS
      <4>1. CASE i \in Rest /\ j \in Rest
        <5>1. j \in (i + 1) .. (fill - 1)
          BY <4>1 DEF RxTypeOK
        <5>2. buffer[i] < buffer[j]
          BY <4>1, <5>1 DEF BufferInOrder
        <5> QED BY <4>1, <5>2, <2>5
      <4>2. CASE i \in Rest /\ j \in New
        <5>1. buffer'[i] = buffer[i] /\ buffer[i] <= taken /\ buffer[i] \in Nat
          BY <4>2, <2>5 DEF BufferInOrder, RxTypeOK
        <5>2. buffer'[j] = taken + 1 + (j - Start) /\ j >= Start /\ j \in Int
          BY <4>2, <2>4, <2>1
        <5> QED BY <5>1, <5>2, <2>1
      <4>3. CASE i \in New /\ j \in New
        BY <4>3, <2>4, <2>1
      <4>4. CASE i \in New /\ j \in Rest
        <5> HIDE DEF Rest, New
        <5>1. j < i
          BY <4>4, <2>6
        <5> USE DEF Rest, New
        <5>2. i \in Int
          BY <4>4, <2>1
        <5>3. j \in Int
          BY <4>4 DEF RxTypeOK
        <5> QED BY <5>1, <5>2, <5>3
      <4> QED BY <4>1, <4>2, <4>3, <4>4
    <3>4. \A i \in Rest \cup New, j \in Int :
            j \in (i + 1) .. (fill' - 1) => j \in Rest \cup New /\ i < j
      BY <2>1, <2>2, <2>6 DEF Rewound, Start, RxTypeOK
    <3>5. \A i \in pos' .. (fill' - 1) :
            /\ last' < buffer'[i] /\ buffer'[i] <= taken'
            /\ \A j \in (i + 1) .. (fill' - 1) : buffer'[i] < buffer'[j]
      BY <2>6, <3>2, <3>3, <3>4
    <3> QED BY <3>1, <3>5 DEF BufferInOrder
  <2>8. Pending' = Pending
    <3>1. {buffer'[i] : i \in New} = (taken + 1) .. (taken + count)
      <4>1. \A i \in New : buffer'[i] \in (taken + 1) .. (taken + count)
        BY <2>1, <2>4
      <4>2. \A b \in (taken + 1) .. (taken + count) :
              /\ Start + (b - taken - 1) \in New
              /\ buffer'[Start + (b - taken - 1)] = b
        BY <2>1, <2>4
      <4> QED BY <4>1, <4>2
    <3>2. {buffer'[i] : i \in Rest} = {buffer[i] : i \in Rest}
      BY <2>5
    <3>3. {buffer'[i] : i \in pos' .. (fill' - 1)}
            = {buffer[i] : i \in Rest} \cup (taken + 1) .. (taken + count)
      BY <2>6, <3>1, <3>2
    <3>4. (taken + 1) .. (taken + count) \cup (taken' + 1) .. arrived'
            = (taken + 1) .. arrived
      BY <1>3, <2>1, <2>2
    <3> QED BY <3>3, <3>4 DEF Pending
  <2>9. /\ fill' - pos' = (fill - pos) + count
        /\ pos < fill => fill' = fill + count
    BY <2>1, <2>2 DEF Rewound, Start, RxTypeOK
  <2> QED BY <1>3, <2>3, <2>7, <2>8, <2>9
<1> QED BY <1>1, <1>2, <1>3 DEF fillBuffer, RxTypeOK

(* The memcpy of a read delivers the oldest pending bytes.                  *)
LEMMA CopyDelivers ==
  ASSUME RxTypeOK, BufferInOrder, CopyIsBuffered, CopyOut
  PROVE  /\ RxTypeOK' /\ BufferInOrder'
         /\ last' \in Pending
         /\ Pending' = {later \in Pending : later > last'}
<1> DEFINE end == pos + take - 1
<1>1. /\ take \in 1 .. (fill - pos) /\ pos' = pos + take
      /\ last' = buffer[end]
      /\ UNCHANGED <<arrived, taken, allocated, buffer, fill, failed>>
  BY DEF CopyOut, CopyIsBuffered, socketVars
<1>2. /\ end \in pos .. (fill - 1) /\ end \in 0 .. (Size - 1)
      /\ pos' \in 0 .. fill /\ pos' .. (fill - 1) = (end + 1) .. (fill - 1)
      /\ pos' .. (fill - 1) \subseteq pos .. (fill - 1)
  BY <1>1 DEF RxTypeOK
<1>3. /\ last < buffer[end] /\ buffer[end] <= taken
      /\ buffer[end] \in 0 .. MaxBytes /\ taken \in Nat /\ arrived \in Nat
  BY <1>2 DEF BufferInOrder, RxTypeOK
<1>4. \A i \in pos' .. (fill - 1) : last' < buffer[i] /\ buffer[i] <= taken
  BY <1>1, <1>2 DEF BufferInOrder
<1>5. \A i \in pos .. end : buffer[i] <= last' /\ buffer[i] \in Nat
  <2> TAKE i \in pos .. end
  <2>1. i \in pos .. (fill - 1) /\ i \in 0 .. (Size - 1)
    BY <1>2 DEF RxTypeOK
  <2>2. buffer[i] \in Nat
    BY <2>1 DEF RxTypeOK
  <2>3. CASE i = end
    BY <2>3, <2>2, <1>1
  <2>4. CASE i # end
    <3>1. end \in (i + 1) .. (fill - 1)
      BY <2>1, <2>4, <1>2
    <3>2. buffer[i] < buffer[end]
      BY <2>1, <3>1 DEF BufferInOrder
    <3> QED BY <3>2, <2>2, <1>1, <1>3
  <2> QED BY <2>3, <2>4
<1>6. RxTypeOK'
  BY <1>1, <1>2, <1>3 DEF RxTypeOK
<1>7. BufferInOrder'
  <2>1. \A i \in pos' .. (fill - 1) :
          \A j \in (i + 1) .. (fill - 1) : buffer[i] < buffer[j]
    BY <1>2 DEF BufferInOrder
  <2> QED BY <1>1, <1>3, <1>4, <2>1 DEF BufferInOrder
<1>8. last' \in Pending
  BY <1>1, <1>2 DEF Pending
<1>9. Pending' = {later \in Pending : later > last'}
  <2>1. Pending' = {buffer[i] : i \in pos' .. (fill - 1)}
                     \cup (taken + 1) .. arrived
    BY <1>1 DEF Pending
  <2>2. pos .. (fill - 1) = (pos .. end) \cup pos' .. (fill - 1)
    BY <1>1, <1>2 DEF RxTypeOK
  <2>3. Pending = {buffer[i] : i \in pos .. end} \cup Pending'
    BY <2>1, <2>2 DEF Pending
  <2>4. \A b \in {buffer[i] : i \in pos .. end} : ~(b > last')
    BY <1>1, <1>3, <1>5
  <2>5. \A b \in Pending' : b > last'
    BY <2>1, <1>1, <1>3, <1>4
  <2> QED BY <2>3, <2>4, <2>5
<1> QED BY <1>6, <1>7, <1>8, <1>9

-----------------------------------------------------------------------------
(* Each step of the client is a step of the queue                           *)

QueueKept == UNCHANGED <<open, flushing, arrived, Pending, last>>
QueueStep == RxTypeOK' /\ BufferInOrder' /\ (Queue!Next \/ QueueKept)

(* Steps that touch neither the buffer nor the socket.                      *)
LEMMA OutsideBuffer ==
  ASSUME RxTypeOK, BufferInOrder,
         UNCHANGED <<socketVars, memberVars, last, open>>
  PROVE  /\ RxTypeOK' /\ BufferInOrder' /\ Pending' = Pending
         /\ UNCHANGED <<open, arrived, last>>
  BY DEF RxTypeOK, BufferInOrder, Pending, socketVars, memberVars

(* A new buffer is an empty queue.                                          *)
LEMMA NewIsEmpty ==
  ASSUME RxNew
  PROVE  RxTypeOK' /\ BufferInOrder' /\ Queue!Empty'
<1>1. RxTypeOK'
  <2>1. NoBuffer \in [0 .. (Size - 1) -> 0 .. MaxBytes]
    BY DEF NoBuffer
  <2>2. buffer' \in [0 .. (Size - 1) -> 0 .. MaxBytes]
    BY <2>1 DEF RxNew
  <2>3. /\ arrived' \in 0 .. MaxBytes /\ taken' \in 0 .. arrived'
        /\ fill' \in 0 .. Size /\ pos' \in 0 .. fill'
        /\ last' \in 0 .. MaxBytes
    BY DEF RxNew
  <2>4. allocated' \in BOOLEAN /\ failed' \in BOOLEAN
    BY DEF RxNew
  <2> QED BY <2>2, <2>3, <2>4 DEF RxTypeOK
<1>2. BufferInOrder'
  BY DEF RxNew, BufferInOrder
<1>3. Pending' = {}
  BY DEF RxNew, Pending
<1> QED BY <1>1, <1>2, <1>3 DEF RxNew, Queue!Empty

LEMMA ConnectQueue == ASSUME Inv, connect PROVE QueueStep
<1>1. RxTypeOK' /\ BufferInOrder' /\ Queue!Empty'
  BY NewIsEmpty DEF connect
<1>2. Queue!Connect
  BY <1>1 DEF connect, Queue!Connect, Inv, FlushInv
<1> QED BY <1>1, <1>2 DEF QueueStep, Queue!Next

(* What stop leaves is a closed queue, whatever the rest of the step does.  *)
LEMMA StopQueue == ASSUME stop, flushing' = FALSE PROVE QueueStep
<1>1. RxTypeOK' /\ BufferInOrder' /\ Queue!Empty'
  BY NewIsEmpty DEF stop
<1>2. Queue!Close
  BY <1>1 DEF stop, Queue!Close
<1> QED BY <1>1, <1>2 DEF QueueStep, Queue!Next

LEMMA FillQueue ==
  ASSUME Inv, NEW count \in 0 .. Size, fillBuffer(count),
         UNCHANGED <<last, open, flushing>>
  PROVE  QueueStep
<1>1. RxTypeOK /\ BufferInOrder
  BY DEF Inv, TypeOK
<1> QED BY <1>1, FillIsSound DEF QueueStep, QueueKept

LEMMA ReadingQueue == ASSUME Inv, Reading, UNCHANGED flushing PROVE QueueStep
<1>1. RxTypeOK /\ BufferInOrder /\ CopyIsBuffered /\ FlushInv
  BY DEF Inv, TypeOK, ReadInv, FlushInv
<1>2. ASSUME NEW size \in 1 .. MaxLen, read(size), UNCHANGED linkVars
      PROVE  QueueStep
  BY <1>1, <1>2, OutsideBuffer DEF read, linkVars, QueueStep, QueueKept
<1>3. CASE peek /\ UNCHANGED linkVars
  <2>1. CASE pos = fill
    BY <1>3, <2>1, FillQueue DEF peek, linkVars
  <2>2. CASE pos # fill
    BY <1>1, <1>3, <2>2, OutsideBuffer DEF peek, linkVars, QueueStep, QueueKept
  <2> QED BY <2>1, <2>2
<1>4. CASE FirstFill /\ UNCHANGED linkVars
  BY <1>4, FillQueue DEF FirstFill, linkVars
<1>5. CASE Enough /\ UNCHANGED linkVars
  BY <1>1, <1>5, OutsideBuffer DEF Enough, linkVars, QueueStep, QueueKept
<1>6. CASE SecondFill /\ UNCHANGED linkVars
  BY <1>6, FillQueue DEF SecondFill, linkVars
<1>7. CASE CopyOut /\ UNCHANGED linkVars
  <2>1. Queue!Deliver
    <3>1. ~flushing /\ arrived' = arrived
      BY <1>1, <1>7 DEF CopyOut, socketVars, FlushInv
    <3> QED BY <1>1, <1>7, <3>1, CopyDelivers DEF Queue!Deliver, linkVars
  <2> QED BY <1>1, <1>7, <2>1, CopyDelivers DEF QueueStep, Queue!Next
<1>8. CASE LoopFill /\ UNCHANGED linkVars
  BY <1>8, FillQueue DEF LoopFill, linkVars
<1>9. CASE ReadReturns
  <2>1. CASE failed
    BY <1>1, <1>9, <2>1, StopQueue DEF ReadReturns, StopIfFailed, FlushInv
  <2>2. CASE ~failed
    BY <1>1, <1>9, <2>2, OutsideBuffer
    DEF ReadReturns, StopIfFailed, linkVars, QueueStep, QueueKept
  <2> QED BY <2>1, <2>2
<1> QED BY <1>2, <1>3, <1>4, <1>5, <1>6, <1>7, <1>8, <1>9
        DEF Reading, Read, Peek, ReadSteps

LEMMA FlushQueue == ASSUME Inv, flush \/ FlushStep PROVE QueueStep
<1>1. RxTypeOK /\ BufferInOrder /\ FlushInv
  BY DEF Inv, TypeOK, ReadInv, FlushInv
<1>2. CASE flush
  <2>1. Queue!Flush
    BY <1>1, <1>2, OutsideBuffer DEF flush, Queue!Flush, linkVars
  <2> QED BY <1>1, <1>2, <2>1, OutsideBuffer
          DEF flush, linkVars, QueueStep, Queue!Next
<1>3. CASE FlushStep /\ stop /\ flushing' = FALSE
  BY <1>3, StopQueue
<1>4. ASSUME pc = "flush", UNCHANGED <<arrived, memberVars, last, linkVars>>,
             flushing' \in BOOLEAN,
             NEW count \in 1 .. FlushChunk, count <= Queued,
             taken' = taken + count
      PROVE  QueueStep
  <2>1. /\ taken' \in Nat /\ taken <= taken' /\ taken' <= arrived
        /\ taken \in Nat /\ arrived \in Nat
    BY <1>1, <1>4 DEF RxTypeOK, Queued
  <2>2. RxTypeOK'
    BY <1>1, <1>4, <2>1 DEF RxTypeOK, memberVars
  <2>3. BufferInOrder'
    <3>1. \A i \in pos .. (fill - 1) : buffer[i] \in Nat
      BY <1>1 DEF RxTypeOK
    <3> QED BY <1>1, <1>4, <2>1, <3>1 DEF BufferInOrder, memberVars, RxTypeOK
  <2>4. Pending' \subseteq Pending
    BY <1>4, <2>1 DEF Pending, memberVars
  <2>5. Queue!Flush
    BY <1>1, <1>4, <2>4 DEF Queue!Flush, linkVars, FlushInv
  <2> QED BY <2>2, <2>3, <2>5 DEF QueueStep, Queue!Next
<1>5. CASE FlushStep
  <2>1. flushing' \in BOOLEAN
    BY <1>1, <1>5 DEF FlushStep, FlushInv
  <2> QED BY <1>3, <1>4, <1>5, <2>1 DEF FlushStep
<1> QED BY <1>2, <1>5

LEMMA WriteQueue ==
  ASSUME Inv, Write \/ WriteStep \/ WriteReturns PROVE QueueStep
<1>1. /\ RxTypeOK /\ BufferInOrder /\ FlushInv
      /\ UNCHANGED flushing
  BY DEF Inv, TypeOK, Write, WriteStep, WriteReturns
<1>2. CASE WriteStep /\ SendFails
  BY <1>1, <1>2, StopQueue DEF WriteStep, SendFails, FlushInv
<1>3. CASE UNCHANGED <<socketVars, memberVars, last, linkVars>>
  BY <1>1, <1>3, OutsideBuffer DEF linkVars, QueueStep, QueueKept
<1> QED BY <1>2, <1>3 DEF Write, WriteStep, WriteReturns, SelectFails,
                          TryAgain, SendSome

LEMMA ArrivesQueue == ASSUME Inv, Arrives PROVE QueueStep
<1>1. RxTypeOK /\ BufferInOrder
  BY DEF Inv, TypeOK
<1>2. /\ arrived' = arrived + 1 /\ arrived' \in 0 .. MaxBytes
      /\ UNCHANGED <<taken, memberVars, last, open, flushing>> /\ open
  BY <1>1 DEF Arrives, linkVars, RxTypeOK
<1>3. RxTypeOK' /\ BufferInOrder'
  BY <1>1, <1>2 DEF RxTypeOK, BufferInOrder, memberVars
<1>4. Pending' = Pending \cup {arrived'}
  <2>1. (taken + 1) .. arrived' = (taken + 1) .. arrived \cup {arrived'}
    BY <1>1, <1>2 DEF RxTypeOK
  <2> QED BY <1>2, <2>1 DEF Pending, memberVars
<1>5. Queue!Arrive
  BY <1>2, <1>4 DEF Queue!Arrive
<1> QED BY <1>3, <1>5 DEF QueueStep, Queue!Next

LEMMA EveryStepOfQueue == ASSUME Inv, [Next]_vars PROVE QueueStep
<1>1. RxTypeOK /\ BufferInOrder /\ FlushInv
  BY DEF Inv, TypeOK, ReadInv, FlushInv
<1>2. CASE connect
  BY <1>2, ConnectQueue
<1>3. CASE StopNow
  BY <1>1, <1>3, StopQueue DEF StopNow, FlushInv
<1>4. CASE flush \/ FlushStep
  BY <1>4, FlushQueue
<1>5. CASE Write \/ WriteStep \/ WriteReturns
  BY <1>5, WriteQueue
<1>6. CASE Reading /\ UNCHANGED <<flushing, writeVars>>
  BY <1>6, ReadingQueue
<1>7. CASE Arrives
  BY <1>7, ArrivesQueue
<1>8. CASE connected \/ PeerCloses \/ UNCHANGED vars
  BY <1>1, <1>8, OutsideBuffer
  DEF connected, PeerCloses, vars, rxVars, linkVars, QueueStep, QueueKept
<1> QED BY <1>2, <1>3, <1>4, <1>5, <1>6, <1>7, <1>8 DEF Next, Steps

-----------------------------------------------------------------------------
(* What the caller's locals keep to                                         *)

(* The data of a write that the socket has taken grows at its end.          *)
LEMMA SentGrows ==
  ASSUME sent \in Seq(1 .. MaxLen), Len(sent) = buf, buf \in Nat,
         \A i \in DOMAIN sent : sent[i] = i,
         NEW count \in Nat, buf + count <= MaxLen,
         sent' = sent \o [i \in 1 .. count |-> buf + i]
  PROVE  /\ sent' \in Seq(1 .. MaxLen) /\ Len(sent') = buf + count
         /\ \A i \in DOMAIN sent' : sent'[i] = i
<1> DEFINE part == [i \in 1 .. count |-> buf + i]
<1>1. part \in Seq(1 .. MaxLen) /\ Len(part) = count
  <2>1. \A i \in 1 .. count : buf + i \in 1 .. MaxLen
    OBVIOUS
  <2>2. part \in [1 .. count -> 1 .. MaxLen]
    BY <2>1
  <2> QED BY <2>2, IsASeq
<1>2. /\ sent' \in Seq(1 .. MaxLen) /\ Len(sent') = buf + count
      /\ \A i \in 1 .. (buf + count) :
           sent'[i] = IF i <= buf THEN sent[i] ELSE part[i - buf]
  <2>1. part \in Seq(1 .. MaxLen)
    BY <1>1
  <2> HIDE DEF part
  <2>2. sent' = sent \o part
    BY DEF part
  <2>3. /\ sent \o part \in Seq(1 .. MaxLen)
        /\ Len(sent \o part) = Len(sent) + Len(part)
        /\ \A i \in 1 .. Len(sent) + Len(part) :
             (sent \o part)[i] =
               IF i <= Len(sent) THEN sent[i] ELSE part[i - Len(sent)]
    BY <2>1, ConcatProperties, Zenon
  <2> QED BY <1>1, <2>2, <2>3, Zenon
<1>3. DOMAIN sent = 1 .. buf /\ DOMAIN sent' = 1 .. (buf + count)
  BY <1>2, LenProperties
<1>4. ASSUME NEW i \in 1 .. (buf + count) PROVE sent'[i] = i
  <2>1. CASE i <= buf
    <3>1. i \in DOMAIN sent
      BY <1>3, <2>1
    <3> HIDE DEF part
    <3> QED BY <1>2, <2>1, <3>1
  <2>2. CASE i > buf
    <3>1. i - buf \in 1 .. count
      BY <2>2
    <3>2. part[i - buf] = buf + (i - buf)
      BY <3>1
    <3> HIDE DEF part
    <3>3. sent'[i] = part[i - buf]
      BY <1>2, <2>2
    <3> QED BY <3>2, <3>3
  <2> QED BY <2>1, <2>2
<1> QED BY <1>2, <1>3, <1>4

CallOK ==
  /\ pc \in CallStates
  /\ len \in 0 .. MaxLen /\ left \in Nat /\ take \in 0 .. MaxLen
  /\ open \in BOOLEAN /\ _connected \in BOOLEAN /\ peerClosed \in BOOLEAN
  /\ flushing \in BOOLEAN
WriteOK ==
  /\ retry \in 0 .. MaxRetry /\ buf \in 0 .. MaxLen
  /\ totalBytesSent \in 0 .. MaxLen /\ sent \in Seq(1 .. MaxLen)
  /\ fruitless \in Nat /\ gaveUp \in {"no", "select", "send"}

LEMMA Longer ==
  ASSUME NEW from \in Int, NEW to \in Int, NEW before \in Int, before >= 0,
         NEW count \in Nat, to - from = before + count, count # 0
  PROVE  from < to
OBVIOUS

(* A step of a read keeps to its decisions, the fills in between included.  *)
LEMMA ReadingCall ==
  ASSUME Inv, Reading, UNCHANGED flushing
  PROVE  CallOK' /\ FlushInv' /\ ReadInv'
<1>1. RxTypeOK /\ BufferInOrder /\ CopyIsBuffered /\ CallOK /\ ReadInv
  BY DEF Inv, TypeOK, ReadInv, CallOK
<1>2. /\ pos \in Nat /\ fill \in Nat /\ pos <= fill /\ fill <= Size
      /\ len \in Nat /\ len <= MaxLen /\ left \in Nat /\ take \in Nat
  BY <1>1 DEF RxTypeOK, CallOK
<1>3. ASSUME NEW size \in 1 .. MaxLen, read(size), UNCHANGED linkVars
      PROVE  CallOK' /\ ReadInv'
  <2>1. CallOK'
    BY <1>1, <1>3 DEF read, CallOK, CallStates, linkVars
  <2>2. ReadInv'
    BY <1>1, <1>2, <1>3 DEF read, ReadInv, CopyIsBuffered, memberVars
  <2> QED BY <2>1, <2>2
<1>4. ASSUME peek, UNCHANGED linkVars
      PROVE  CallOK' /\ ReadInv'
  <2>1. CallOK'
    BY <1>1, <1>4 DEF peek, CallOK, CallStates, linkVars
  <2>2. pc' = "peeked"
    BY <1>4 DEF peek
  <2> QED BY <2>1, <2>2 DEF ReadInv, CopyIsBuffered
<1>5. ASSUME FirstFill, UNCHANGED linkVars
      PROVE  CallOK' /\ ReadInv'
  <2>1. PICK count \in 0 .. Size :
          /\ fillBuffer(count)
          /\ pc' = IF count = 0 THEN "readDone" ELSE "enough"
    BY <1>5 DEF FirstFill
  <2>2. fill' - pos' = (fill - pos) + count /\ RxTypeOK'
    BY <1>1, <1>5, <2>1, FillIsSound DEF FirstFill
  <2>3. pos' < fill' \/ count = 0
    <3>1. pos' \in Int /\ fill' \in Int /\ fill - pos >= 0 /\ fill - pos \in Int
      BY <1>2, <2>2 DEF RxTypeOK
    <3> QED BY <2>2, <3>1, Longer
  <2>4. CallOK'
    BY <1>1, <1>5, <2>1 DEF FirstFill, CallOK, CallStates, linkVars
  <2>5. ReadInv'
    BY <1>1, <1>5, <2>1, <2>3 DEF FirstFill, ReadInv, CopyIsBuffered
  <2> QED BY <2>4, <2>5
<1>6. ASSUME Enough, UNCHANGED linkVars
      PROVE  CallOK' /\ ReadInv'
  <2>1. pos < fill /\ left = len /\ left \in 1 .. len
    BY <1>1, <1>6 DEF Enough, ReadInv
  <2>2. CallOK'
    BY <1>1, <1>2, <1>6, <2>1 DEF Enough, CallOK, CallStates, linkVars
  <2>3. /\ pos' = pos /\ fill' = fill /\ len' = len /\ left' = left
        /\ take' = IF len <= fill - pos THEN len ELSE fill - pos
        /\ pc' = IF fill - pos < len /\ len - (fill - pos) <= Size - fill
                    THEN "second" ELSE "copy"
    BY <1>6 DEF Enough, Fits, memberVars
  <2>4. ReadInv'
    BY <1>2, <2>1, <2>3 DEF ReadInv, CopyIsBuffered
  <2> QED BY <2>2, <2>4
<1>7. ASSUME SecondFill, UNCHANGED linkVars
      PROVE  CallOK' /\ ReadInv'
  <2>1. PICK count \in 0 .. Size : fillBuffer(count) /\ take' = TakeAfter(count)
    BY <1>7 DEF SecondFill
  <2>2. /\ left = len /\ take = fill - pos /\ take > 0 /\ take < len
        /\ len - take <= Size - fill /\ left \in 1 .. len
    BY <1>1, <1>7 DEF SecondFill, ReadInv
  <2>3. fill' - pos' = (fill - pos) + count /\ fill' = fill + count
    BY <1>1, <1>2, <1>7, <2>1, <2>2, FillIsSound DEF SecondFill
  <2>4. /\ take' \in 1 .. (fill' - pos') /\ take' <= left
        /\ take' \in {left, fill' - pos'} \/ fill' < Size
    BY <1>2, <2>1, <2>2, <2>3 DEF TakeAfter
  <2>5. CallOK'
    BY <1>1, <1>2, <1>7, <2>1, <2>2
    DEF SecondFill, TakeAfter, CallOK, CallStates, linkVars
  <2>6. pc' = "copy" /\ len' = len /\ left' = left
    BY <1>7 DEF SecondFill
  <2>7. ReadInv'
    BY <2>2, <2>4, <2>6 DEF ReadInv, CopyIsBuffered
  <2> QED BY <2>5, <2>7
<1>8. ASSUME CopyOut, UNCHANGED linkVars
      PROVE  CallOK' /\ ReadInv'
  <2>1. /\ take \in 1 .. (fill - pos) /\ take <= left /\ left \in 1 .. len
        /\ take \in {left, fill - pos} \/ fill < Size
    BY <1>1, <1>8 DEF CopyOut, ReadInv, CopyIsBuffered
  <2>2. CallOK'
    BY <1>1, <1>2, <1>8, <2>1 DEF CopyOut, CallOK, CallStates, linkVars
  <2>3. /\ pos' = pos + take /\ fill' = fill /\ left' = left - take /\ len' = len
        /\ pc' = IF left' = 0 THEN "readDone" ELSE "loop"
    BY <1>8 DEF CopyOut
  <2>4. ReadInv'
    BY <1>2, <2>1, <2>3 DEF ReadInv, CopyIsBuffered
  <2> QED BY <2>2, <2>4
<1>9. ASSUME LoopFill, UNCHANGED linkVars
      PROVE  CallOK' /\ ReadInv'
  <2>1. PICK count \in 0 .. Size :
          /\ fillBuffer(count)
          /\ \/ count = 0 /\ pc' = "readDone" /\ UNCHANGED take
             \/ /\ count > 0 /\ pc' = "copy"
                /\ take' = IF fill' - pos' > left THEN left ELSE fill' - pos'
    BY <1>9 DEF LoopFill
  <2>2. fill' - pos' = (fill - pos) + count
    BY <1>1, <1>9, <2>1, FillIsSound DEF LoopFill
  <2>3. left \in 1 .. len
    BY <1>1, <1>9 DEF LoopFill, ReadInv
  <2>4. CallOK'
    BY <1>1, <1>2, <1>9, <2>1, <2>2, <2>3
    DEF LoopFill, CallOK, CallStates, linkVars
  <2>5. len' = len /\ left' = left
    BY <1>9 DEF LoopFill
  <2>6. ReadInv'
    BY <1>2, <2>1, <2>2, <2>3, <2>5 DEF ReadInv, CopyIsBuffered
  <2> QED BY <2>4, <2>6
<1>10. ASSUME ReadReturns
      PROVE  CallOK' /\ ReadInv'
  <2>1. pc' = "idle" /\ len' = 0 /\ left' = 0 /\ take' = 0
    BY <1>10 DEF ReadReturns
  <2>2. /\ open' \in BOOLEAN /\ _connected' \in BOOLEAN
        /\ peerClosed' \in BOOLEAN
    BY <1>1, <1>10 DEF ReadReturns, StopIfFailed, stop, linkVars, CallOK
  <2>3. flushing' \in BOOLEAN
    BY <1>1 DEF CallOK
  <2>4. len' \in 0 .. MaxLen /\ left' \in Nat /\ take' \in 0 .. MaxLen
    BY <2>1
  <2>5. CallOK'
    BY <2>1, <2>2, <2>3, <2>4 DEF CallOK, CallStates
  <2>6. ReadInv'
    BY <2>1 DEF ReadInv, CopyIsBuffered
  <2> QED BY <2>5, <2>6
<1>11. CallOK' /\ ReadInv'
  BY <1>3, <1>4, <1>5, <1>6, <1>7, <1>8, <1>9, <1>10
  DEF Reading, Read, Peek, ReadSteps
<1>12. pc # "flush" /\ pc' # "flush"
  BY DEF Reading, Read, Peek, ReadSteps, read, peek, FirstFill, Enough,
         SecondFill, CopyOut, LoopFill, ReadReturns
<1>13. FlushInv'
  BY <1>12 DEF FlushInv, Inv
<1> QED BY <1>11, <1>13

LEMMA OtherCall ==
  ASSUME Inv,
         \/ connect \/ StopNow \/ connected \/ flush \/ FlushStep
         \/ Write \/ WriteStep \/ WriteReturns \/ Arrives \/ PeerCloses
         \/ UNCHANGED vars
  PROVE  CallOK' /\ FlushInv' /\ ReadInv'
<1>1. RxTypeOK /\ CallOK /\ FlushInv /\ ReadInv
  BY DEF Inv, TypeOK, CallOK
<1>2. CASE connect \/ StopNow \/ connected
  <2>1. pc = "idle" /\ pc' = "idle" /\ UNCHANGED flushing
    BY <1>2 DEF connect, StopNow, connected, callVars, rxVars
  <2>2. CallOK'
    BY <1>1, <1>2 DEF connect, StopNow, connected, stop, callVars, rxVars,
                      CallOK, CallStates
  <2> QED BY <1>1, <2>1, <2>2 DEF FlushInv, ReadInv, CopyIsBuffered
<1>3. CASE flush
  <2>1. left' \in Nat
    BY <1>1, <1>3 DEF flush, available, r_available, Queued, RxTypeOK
  <2>2. CallOK'
    BY <1>1, <1>3, <2>1 DEF flush, linkVars, CallOK, CallStates
  <2>3. pc' = "flush" /\ flushing' = TRUE
    BY <1>3 DEF flush
  <2> QED BY <2>2, <2>3 DEF FlushInv, ReadInv, CopyIsBuffered
<1>4. CASE FlushStep
  <2>1. left' \in Nat
    BY <1>1, <1>4 DEF FlushStep, CallOK
  <2>2. /\ pc = "flush" /\ len' = len /\ take' = take
        /\ \/ pc' = "idle" /\ flushing' = FALSE
           \/ pc' = pc /\ flushing' = flushing
    BY <1>4 DEF FlushStep
  <2>3. open' \in BOOLEAN /\ _connected' \in BOOLEAN /\ peerClosed' \in BOOLEAN
    BY <1>1, <1>4 DEF FlushStep, stop, linkVars, CallOK
  <2>4. CallOK' /\ FlushInv'
    BY <1>1, <2>1, <2>2, <2>3 DEF CallOK, CallStates, FlushInv
  <2> QED BY <2>2, <2>4 DEF ReadInv, CopyIsBuffered
<1>5. CASE Write \/ WriteReturns
  <2>1. /\ pc \in {"idle", "wrote"} /\ pc' \in {"idle", "write"}
        /\ UNCHANGED flushing
    BY <1>5 DEF Write, WriteReturns
  <2>2. len' \in 0 .. MaxLen /\ left' \in Nat
    BY <1>5 DEF Write, WriteReturns
  <2>3. CallOK'
    BY <1>1, <1>5, <2>1, <2>2 DEF Write, WriteReturns, linkVars, CallOK,
                                  CallStates
  <2> QED BY <1>1, <2>1, <2>3 DEF FlushInv, ReadInv, CopyIsBuffered
<1>6. CASE WriteStep
  <2>1. /\ pc = "write" /\ pc' \in {"write", "wrote"} /\ left' \in Nat
        /\ UNCHANGED <<len, take, flushing>>
    <3>1. left \in Nat
      BY <1>1 DEF CallOK
    <3>2. ASSUME NEW count \in 1 .. left, AfterPart(count) PROVE left' \in Nat
      BY <3>1, <3>2 DEF AfterPart
    <3>3. left' \in Nat
      BY <1>6, <3>1, <3>2 DEF WriteStep, SelectFails, TryAgain, SendSome,
                              SendFails
    <3> QED BY <1>6, <3>3 DEF WriteStep, SelectFails, TryAgain, SendSome,
                              SendFails
  <2>2. open' \in BOOLEAN /\ _connected' \in BOOLEAN /\ peerClosed' \in BOOLEAN
    BY <1>1, <1>6 DEF WriteStep, SelectFails, TryAgain, SendSome, SendFails,
                      stop, linkVars, CallOK
  <2>3. CallOK' /\ FlushInv'
    BY <1>1, <2>1, <2>2 DEF CallOK, CallStates, FlushInv
  <2> QED BY <2>1, <2>3 DEF ReadInv, CopyIsBuffered
<1>7. CASE Arrives \/ PeerCloses \/ UNCHANGED vars
  <2>1. UNCHANGED <<callVars, memberVars, flushing>>
    BY <1>7 DEF Arrives, PeerCloses, vars, rxVars
  <2>2. CallOK'
    BY <1>1, <1>7, <2>1 DEF Arrives, PeerCloses, vars, linkVars, callVars,
                            CallOK
  <2> QED BY <1>1, <2>1, <2>2
          DEF callVars, memberVars, FlushInv, ReadInv, CopyIsBuffered
<1> QED BY <1>2, <1>3, <1>4, <1>5, <1>6, <1>7

-----------------------------------------------------------------------------
(* A write                                                                  *)

(* Steps that leave the locals of write alone do not end a write.           *)
LEMMA OutsideWrite ==
  ASSUME Inv, UNCHANGED writeVars, pc' \notin {"write", "wrote"}
  PROVE  WriteOK' /\ WriteInv'
<1>1. WriteOK /\ \A i \in DOMAIN sent : sent[i] = i
  BY DEF Inv, TypeOK, WriteOK, WriteInv, WriteReports
<1>2. WriteOK'
  BY <1>1 DEF WriteOK, writeVars
<1>3. WriteReports' /\ WriteIsStubborn'
  BY <1>1 DEF WriteReports, WriteIsStubborn, writeVars
<1> QED BY <1>2, <1>3 DEF WriteInv

LEMMA TryingWrite == ASSUME Inv, WriteStep PROVE WriteOK' /\ WriteInv'
<1>1. /\ pc = "write" /\ UNCHANGED len
      /\ retry \in 1 .. MaxRetry /\ buf \in Nat /\ totalBytesSent = buf
      /\ sent \in Seq(1 .. MaxLen) /\ Len(sent) = buf
      /\ len \in 0 .. MaxLen /\ left = len - buf /\ left > 0 /\ left \in Nat
      /\ fruitless = MaxRetry - retry /\ gaveUp = "no"
      /\ \A i \in DOMAIN sent : sent[i] = i
  BY DEF Inv, TypeOK, WriteInv, WriteReports, WriteStep
<1>2. buf \in 0 .. MaxLen /\ buf <= len
  BY <1>1
<1>3. CASE SelectFails
  <2>1. WriteOK'
    BY <1>1, <1>2, <1>3 DEF SelectFails, WriteOK
  <2>2. WriteInv'
    BY <1>1, <1>2, <1>3 DEF SelectFails, WriteInv, WriteReports, WriteIsStubborn
  <2> QED BY <2>1, <2>2
<1>4. CASE TryAgain
  <2>1. /\ retry' = retry - 1 /\ fruitless' = fruitless + 1
        /\ pc' = IF retry' = 0 THEN "wrote" ELSE pc
        /\ UNCHANGED <<left, buf, totalBytesSent, sent, gaveUp>>
    BY <1>4 DEF TryAgain
  <2>2. WriteOK'
    BY <1>1, <1>2, <2>1 DEF WriteOK
  <2>3. WriteReports' /\ WriteIsStubborn'
    BY <1>1, <1>2, <2>1 DEF WriteReports, WriteIsStubborn
  <2>4. WriteInv'
    BY <1>1, <2>1, <2>3 DEF WriteInv
  <2> QED BY <2>2, <2>4
<1>5. CASE SendSome
  <2>1. PICK count \in 1 .. left :
          /\ sent' = sent \o [i \in 1 .. count |-> buf + i]
          /\ totalBytesSent' = totalBytesSent + count
          /\ IF totalBytesSent' >= len
               THEN retry' = 0 /\ UNCHANGED <<buf, left>>
               ELSE AfterPart(count)
    BY <1>5 DEF SendSome
  <2>2. /\ count \in Nat /\ buf + count <= len /\ buf + count <= MaxLen
        /\ totalBytesSent' = buf + count
    BY <1>1, <2>1
  <2>3. /\ sent' \in Seq(1 .. MaxLen) /\ Len(sent') = buf + count
        /\ \A i \in DOMAIN sent' : sent'[i] = i
    BY <1>1, <2>1, <2>2, SentGrows
  <2>4. /\ fruitless' = 0 /\ gaveUp' = "no" /\ len' = len
        /\ pc' = IF retry' = 0 THEN "wrote" ELSE "write"
    BY <1>1, <1>5 DEF SendSome
  <2>5. CASE totalBytesSent' >= len
    <3>1. retry' = 0 /\ buf' = buf /\ left' = left /\ totalBytesSent' = len'
      BY <1>1, <2>1, <2>2, <2>4, <2>5
    <3>2. WriteOK'
      BY <1>1, <1>2, <2>2, <2>3, <2>4, <3>1 DEF WriteOK
    <3>3. WriteReports' /\ WriteIsStubborn'
      BY <1>1, <2>2, <2>3, <2>4, <3>1 DEF WriteReports, WriteIsStubborn
    <3> QED BY <2>4, <3>1, <3>2, <3>3 DEF WriteInv
  <2>6. CASE ~(totalBytesSent' >= len)
    <3>1. retry' = MaxRetry /\ buf' = buf + count /\ left' = left - count
      BY <2>1, <2>6 DEF AfterPart
    <3>2. pc' = "write" /\ buf' < len /\ retry' # 0
      BY <1>1, <2>2, <2>4, <2>6, <3>1
    <3>3. WriteOK'
      BY <1>1, <2>2, <2>3, <2>4, <3>1 DEF WriteOK
    <3>4. WriteReports' /\ WriteIsStubborn'
      BY <2>3, <3>2 DEF WriteReports, WriteIsStubborn
    <3>5. left' = len' - buf' /\ left' > 0 /\ fruitless' = MaxRetry - retry'
      BY <1>1, <2>2, <2>4, <3>1, <3>2
    <3> QED BY <2>2, <2>3, <2>4, <3>1, <3>2, <3>3, <3>4, <3>5 DEF WriteInv
  <2> QED BY <2>5, <2>6
<1>6. CASE SendFails
  <2>1. /\ retry' = 0 /\ gaveUp' = "send" /\ pc' = "wrote"
        /\ UNCHANGED <<left, buf, totalBytesSent, sent, fruitless>>
    BY <1>6 DEF SendFails
  <2>2. WriteOK'
    BY <1>1, <1>2, <2>1 DEF WriteOK
  <2>3. WriteInv'
    BY <1>1, <1>2, <2>1 DEF WriteInv, WriteReports, WriteIsStubborn
  <2> QED BY <2>2, <2>3
<1> QED BY <1>3, <1>4, <1>5, <1>6 DEF WriteStep

LEMMA MinusZero ==
  ASSUME NEW n \in Nat
  PROVE  n - 0 = n
OBVIOUS

LEMMA EveryStepOfWrite == ASSUME Inv, [Next]_vars PROVE WriteOK' /\ WriteInv'
<1>1. CASE Write
  <2>1. /\ retry' = MaxRetry /\ buf' = 0 /\ totalBytesSent' = 0
        /\ sent' = <<>> /\ fruitless' = 0 /\ gaveUp' = "no" /\ pc' = "write"
        /\ len' \in 1 .. MaxLen /\ left' = len'
    BY <1>1 DEF Write
  <2>2. sent' \in Seq(1 .. MaxLen) /\ Len(sent') = 0 /\ DOMAIN sent' = {}
    BY <2>1
  <2>3. WriteOK'
    BY <2>1, <2>2 DEF WriteOK
  <2>4. left' = len' - buf' /\ left' > 0 /\ retry' > 0
        /\ fruitless' = MaxRetry - retry'
    <3>1. len' \in Nat /\ len' > 0
      BY <2>1
    <3>2. len' - 0 = len'
      BY <3>1, MinusZero
    <3>3. left' = len' - buf' /\ left' > 0
      BY <2>1, <3>1, <3>2, Zenon
    <3>4. retry' > 0 /\ fruitless' = MaxRetry - retry'
      BY <2>1
    <3> QED BY <3>3, <3>4
  <2>5. WriteReports' /\ WriteIsStubborn'
    BY <2>1, <2>2 DEF WriteReports, WriteIsStubborn
  <2>6. WriteInv'
    BY <2>1, <2>2, <2>4, <2>5 DEF WriteInv
  <2> QED BY <2>3, <2>6
<1>2. CASE WriteStep
  BY <1>2, TryingWrite
<1>3. CASE WriteReturns
  <2>1. /\ retry' = 0 /\ buf' = 0 /\ totalBytesSent' = 0
        /\ sent' = <<>> /\ fruitless' = 0 /\ gaveUp' = "no" /\ pc' = "idle"
    BY <1>3 DEF WriteReturns
  <2>2. sent' \in Seq(1 .. MaxLen) /\ DOMAIN sent' = {}
    BY <2>1
  <2>3. WriteOK'
    BY <2>1, <2>2 DEF WriteOK
  <2>4. WriteInv'
    BY <2>1, <2>2 DEF WriteInv, WriteReports, WriteIsStubborn
  <2> QED BY <2>3, <2>4
<1>4. CASE \/ connect \/ StopNow \/ connected \/ flush \/ FlushStep
           \/ Reading /\ UNCHANGED <<flushing, writeVars>>
  <2>1. UNCHANGED writeVars
    BY <1>4 DEF connect, StopNow, connected, flush, FlushStep
  <2>2. pc' \notin {"write", "wrote"}
    BY <1>4 DEF connect, StopNow, connected, flush, FlushStep, rxVars, callVars,
           Reading, Read, Peek, ReadSteps, read, peek, FirstFill, Enough,
           SecondFill, CopyOut, LoopFill, ReadReturns
  <2> QED BY <2>1, <2>2, OutsideWrite
<1>5. CASE Arrives \/ PeerCloses \/ UNCHANGED vars
  <2>1. UNCHANGED <<writeVars, callVars>>
    BY <1>5 DEF Arrives, PeerCloses, vars, rxVars
  <2>2. WriteOK /\ WriteInv
    BY DEF Inv, TypeOK, WriteOK
  <2> QED BY <2>1, <2>2 DEF writeVars, callVars, WriteOK, WriteInv, WriteReports,
                            WriteIsStubborn
<1> QED BY <1>1, <1>2, <1>3, <1>4, <1>5 DEF Next, Steps

-----------------------------------------------------------------------------
(* The theorems                                                             *)

LEMMA InitInv == Init => Inv
<1> SUFFICES ASSUME Init PROVE Inv
  OBVIOUS
<1>1. RxTypeOK
  <2>1. NoBuffer \in [0 .. (Size - 1) -> 0 .. MaxBytes]
    BY DEF NoBuffer
  <2>2. buffer \in [0 .. (Size - 1) -> 0 .. MaxBytes]
    BY <2>1 DEF Init, RxInit
  <2>3. /\ arrived \in 0 .. MaxBytes /\ taken \in 0 .. arrived
        /\ fill \in 0 .. Size /\ pos \in 0 .. fill
        /\ last \in 0 .. MaxBytes
    BY DEF Init, RxInit
  <2>4. allocated \in BOOLEAN /\ failed \in BOOLEAN
    BY DEF Init, RxInit
  <2> QED BY <2>2, <2>3, <2>4 DEF RxTypeOK
<1>2. CallOK
  <2>1. len \in 0 .. MaxLen /\ left \in Nat /\ take \in 0 .. MaxLen
    BY DEF Init, RxInit
  <2> QED BY <2>1 DEF Init, RxInit, CallOK, CallStates
<1>3. WriteOK /\ DOMAIN sent = {}
  <2>1. sent \in Seq(1 .. MaxLen) /\ DOMAIN sent = {}
    BY DEF Init, WriteInit
  <2> QED BY <2>1 DEF Init, WriteInit, WriteOK
<1>4. BufferInOrder
  BY DEF Init, RxInit, BufferInOrder
<1>5. FlushInv /\ ReadInv /\ WriteInv
  BY <1>3 DEF Init, RxInit, FlushInv, ReadInv, CopyIsBuffered, WriteInv,
              WriteReports, WriteIsStubborn
<1> QED BY <1>1, <1>2, <1>3, <1>4, <1>5 DEF Inv, TypeOK, CallOK, WriteOK

LEMMA NextInv == ASSUME Inv, [Next]_vars PROVE Inv'
<1>1. RxTypeOK' /\ BufferInOrder'
  BY EveryStepOfQueue DEF QueueStep
<1>2. CallOK' /\ FlushInv' /\ ReadInv'
  <2>1. CASE Reading /\ UNCHANGED <<flushing, writeVars>>
    BY <2>1, ReadingCall
  <2>2. CASE ~(Reading /\ UNCHANGED <<flushing, writeVars>>)
    BY <2>2, OtherCall DEF Next, Steps
  <2> QED BY <2>1, <2>2
<1>3. WriteOK' /\ WriteInv'
  BY EveryStepOfWrite
<1> QED BY <1>1, <1>2, <1>3 DEF Inv, TypeOK, CallOK, WriteOK

(* The inductive invariant: in any state of any client the buffer holds     *)
(* what its indices say, and a call's locals fit what it has done.          *)
THEOREM CellInvHolds == FairSpec => []Inv
<1>1. Init => Inv
  BY InitInv
<1>2. Inv /\ [Next]_vars => Inv'
  BY NextInv
<1> QED BY <1>1, <1>2, PTL DEF FairSpec, Spec

(* fillBuffer, read and flush never mix up the bytes of the buffer.         *)
THEOREM BufferStaysInOrder == FairSpec => []BufferInOrder
  BY CellInvHolds, PTL DEF Inv

(* The memcpy calls of read stay within what was received, though the       *)
(* number of bytes was decided on before the last fill.                     *)
THEOREM CopiesStayInBuffer == FairSpec => []CopyIsBuffered
  BY CellInvHolds, PTL DEF Inv, ReadInv

(* write sends each byte once and in order, and reports what it sent.       *)
THEOREM WritesAreReported == FairSpec => []WriteReports
  BY CellInvHolds, PTL DEF Inv, WriteInv

(* write gives up only after MaxRetry tries in a row, or on an error.       *)
THEOREM WritesAreStubborn == FairSpec => []WriteIsStubborn
  BY CellInvHolds, PTL DEF Inv, WriteInv

(* A short read of an intact connection has found the socket empty.         *)
THEOREM ShortReadsFoundSilence == FairSpec => ShortReadMeansSilence
<1>1. Inv /\ [Next]_vars =>
        [LoopFill /\ pc' = "readDone" /\ ~failed' => Queued = 0]_vars
  <2> SUFFICES ASSUME Inv, LoopFill, pc' = "readDone", ~failed'
               PROVE  Queued = 0
    OBVIOUS
  <2>1. fillBuffer(0)
    BY DEF LoopFill
  <2>2. Room = 0 \/ r_available = 0
    BY <2>1 DEF fillBuffer
  <2>3. Room # 0
    BY DEF LoopFill, Inv, TypeOK, RxTypeOK, ReadInv, Room, Start, Rewound
  <2> QED BY <2>2, <2>3 DEF r_available
<1> QED BY <1>1, CellInvHolds, PTL DEF FairSpec, Spec, ShortReadMeansSilence

(* A client is a queue of bytes: nothing is delivered twice or out of       *)
(* order, and nothing is passed over but by a flush or with the connection. *)
THEOREM QueueImplemented == FairSpec => ImplementsQueue
<1>1. Init => Queue!Init
  <2> SUFFICES ASSUME Init PROVE Queue!Init
    OBVIOUS
  <2>1. Pending = {}
    BY DEF Init, RxInit, Pending
  <2> QED BY <2>1 DEF Init, RxInit, Queue!Init, Queue!Empty
<1>2. Inv /\ [Next]_vars => [Queue!Next]_(Queue!queueVars)
  BY EveryStepOfQueue DEF QueueStep, QueueKept, Queue!queueVars
<1> QED BY <1>1, <1>2, CellInvHolds, PTL
        DEF FairSpec, Spec, ImplementsQueue, Queue!Spec

(* Whatever is pending is newer than what the user has.                     *)
LEMMA PendingIsNewer ==
  ASSUME RxTypeOK, BufferInOrder
  PROVE  /\ last \in Int /\ Pending \subseteq Int
         /\ \A byte \in Pending : last < byte
<1>1. /\ last \in Int /\ taken \in Int /\ arrived \in Int /\ last <= taken
      /\ pos \in 0 .. Size /\ fill \in 0 .. Size
  BY DEF RxTypeOK, BufferInOrder
<1>2. ASSUME NEW i \in pos .. (fill - 1)
      PROVE  buffer[i] \in Int /\ last < buffer[i]
  BY <1>1, <1>2 DEF RxTypeOK, BufferInOrder
<1>3. ASSUME NEW byte \in (taken + 1) .. arrived
      PROVE  byte \in Int /\ last < byte
  BY <1>1, <1>3
<1> QED BY <1>1, <1>2, <1>3 DEF Pending

(* The queue as its user sees it: no byte after a later one, none left out. *)
THEOREM BytesComeInOrder == FairSpec => ServedInOrder
<1>1. ASSUME Inv, [Next]_vars
      PROVE  \/ arrived' = 0 /\ last' = 0 /\ Pending' = {}
             \/ /\ last' # last => last' \in Pending /\ last < last'
                /\ \A byte \in Pending :
                     byte \in Pending' \/ byte <= last' \/ flushing
  <2>1. /\ last \in Int /\ Pending \subseteq Int
        /\ \A byte \in Pending : last < byte
    BY <1>1, PendingIsNewer DEF Inv, TypeOK
  <2>2. Queue!Next \/ QueueKept
    BY <1>1, EveryStepOfQueue DEF QueueStep
  <2>3. CASE Queue!Connect \/ Queue!Close
    BY <2>3 DEF Queue!Connect, Queue!Close, Queue!Empty
  <2>4. CASE Queue!Arrive \/ QueueKept
    BY <2>4 DEF Queue!Arrive, QueueKept
  <2>5. CASE Queue!Deliver
    <3>1. PICK byte \in Pending :
            last' = byte /\ Pending' = {later \in Pending : later > byte}
      BY <2>5 DEF Queue!Deliver
    <3> QED BY <2>1, <3>1
  <2>6. CASE Queue!Flush
    BY <2>6 DEF Queue!Flush
  <2> QED BY <2>2, <2>3, <2>4, <2>5, <2>6 DEF Queue!Next
<1> QED BY <1>1, CellInvHolds, PTL DEF FairSpec, Spec, ServedInOrder

-----------------------------------------------------------------------------
(* Every call comes to its end                                              *)

LEMMA PartCostsMore ==
  ASSUME NEW n \in Nat, NEW count \in 1 .. n, NEW tries \in Nat
  PROVE  /\ n * tries \in Nat /\ (n - count) * tries \in Nat
         /\ (n - count) * tries + tries <= n * tries
<1>1. PICK more \in Nat : count = more + 1
  BY count - 1 \in Nat
<1>2. PICK rest \in Nat : n - count = rest
  BY n - count \in Nat
<1>3. n = rest + more + 1
  BY <1>1, <1>2
<1>4. n * tries = rest * tries + more * tries + tries
  BY <1>1, <1>2, <1>3
<1>5. rest * tries \in Nat /\ more * tries \in Nat
  BY <1>1, <1>2
<1> QED BY <1>2, <1>4, <1>5

LEMMA ReadAdvances ==
  ASSUME Inv, ReadSteps \/ ReadReturns
  PROVE  StepsLeft' \in 0 .. (StepsLeft - 1)
<1>1. /\ left \in Nat
      /\ pc \in {"first", "enough", "second", "loop", "copy"} => left > 0
      /\ pc = "copy" => take \in Nat /\ 1 <= take /\ take <= left
  <2>1. pc = "copy" => take \in Nat /\ 1 <= take /\ take <= left
    BY DEF Inv, TypeOK, ReadInv, CopyIsBuffered, RxTypeOK
  <2> QED BY <2>1 DEF Inv, TypeOK, ReadInv
<1>2. CASE FirstFill
  <2>1. pc = "first" /\ pc' \in {"readDone", "enough"} /\ left' = left
    BY <1>2 DEF FirstFill
  <2>2. StepsLeft = 2 * left + 3 /\ StepsLeft' \in {1, 2 * left + 2}
    BY <2>1 DEF StepsLeft
  <2> QED BY <1>1, <2>2
<1>3. CASE Enough
  <2>1. pc = "enough" /\ pc' \in {"second", "copy"} /\ left' = left
    BY <1>3 DEF Enough
  <2>2. StepsLeft = 2 * left + 2 /\ StepsLeft' \in {2 * left + 1, 2 * left}
    BY <2>1 DEF StepsLeft
  <2> QED BY <1>1, <2>2
<1>4. CASE SecondFill
  <2>1. pc = "second" /\ pc' = "copy" /\ left' = left
    BY <1>4 DEF SecondFill
  <2>2. StepsLeft = 2 * left + 1 /\ StepsLeft' = 2 * left
    BY <2>1 DEF StepsLeft
  <2> QED BY <1>1, <2>2
<1>5. CASE CopyOut
  <2>1. /\ pc = "copy" /\ left' = left - take
        /\ pc' = IF left' = 0 THEN "readDone" ELSE "loop"
    BY <1>5 DEF CopyOut
  <2>2. StepsLeft = 2 * left
    BY <2>1 DEF StepsLeft
  <2>3. StepsLeft' = IF left' = 0 THEN 1 ELSE 2 * left' + 1
    BY <2>1 DEF StepsLeft
  <2> QED BY <1>1, <2>1, <2>2, <2>3
<1>6. CASE LoopFill
  <2>1. pc = "loop" /\ pc' \in {"readDone", "copy"} /\ left' = left
    BY <1>6 DEF LoopFill
  <2>2. StepsLeft = 2 * left + 1 /\ StepsLeft' \in {1, 2 * left}
    BY <2>1 DEF StepsLeft
  <2> QED BY <1>1, <2>1, <2>2
<1>7. CASE ReadReturns
  <2>1. pc \in {"readDone", "peeked"} /\ pc' = "idle"
    BY <1>7 DEF ReadReturns
  <2>2. StepsLeft = 1 /\ StepsLeft' = 0
    BY <2>1 DEF StepsLeft
  <2> QED BY <2>2
<1> QED BY <1>2, <1>3, <1>4, <1>5, <1>6, <1>7 DEF ReadSteps

LEMMA FlushIsAdvancing ==
  ASSUME Inv, FlushStep PROVE StepsLeft' \in 0 .. (StepsLeft - 1)
<1>1. left \in Nat /\ pc = "flush" /\ StepsLeft = left + 1
  BY DEF Inv, TypeOK, FlushStep, StepsLeft
<1>2. CASE pc' = "idle"
  BY <1>1, <1>2 DEF StepsLeft
<1>3. CASE pc' # "idle"
  <2>1. PICK count \in 1 .. FlushChunk :
          count <= left /\ left' = left - count /\ pc' = pc
    BY <1>3 DEF FlushStep
  <2>2. StepsLeft' = left' + 1
    BY <1>1, <2>1 DEF StepsLeft
  <2> QED BY <1>1, <2>1, <2>2
<1> QED BY <1>2, <1>3

LEMMA WriteAdvances ==
  ASSUME Inv, WriteStep \/ WriteReturns
  PROVE  StepsLeft' \in 0 .. (StepsLeft - 1)
<1> DEFINE tries == MaxRetry + 1
<1>1. CASE WriteReturns
  <2>1. pc = "wrote" /\ pc' = "idle"
    BY <1>1 DEF WriteReturns
  <2>2. StepsLeft = 1 /\ StepsLeft' = 0
    BY <2>1 DEF StepsLeft
  <2> QED BY <2>2
<1>2. CASE WriteStep
  <2>1. /\ pc = "write" /\ left \in Nat
        /\ retry \in 1 .. MaxRetry /\ tries \in Nat
        /\ StepsLeft = left * tries + retry + 1
    <3>1. pc = "write"
      BY <1>2 DEF WriteStep
    <3>2. StepsLeft = left * tries + retry + 1
      BY <3>1 DEF StepsLeft
    <3> QED BY <3>1, <3>2 DEF Inv, TypeOK, WriteInv
  <2> HIDE DEF tries
  <2>2. left * tries \in Nat
    BY <2>1
  <2>3. CASE pc' = "wrote"
    <3>1. StepsLeft' = 1
      BY <2>3 DEF StepsLeft
    <3> QED BY <2>1, <2>2, <3>1
  <2>4. CASE pc' # "wrote"
    <3>1. \/ TryAgain /\ retry' # 0
          \/ \E count \in 1 .. left : AfterPart(count)
      BY <1>2, <2>1, <2>4 DEF WriteStep, SelectFails, TryAgain, SendSome,
                              SendFails
    <3>2. pc' = "write"
      BY <1>2, <2>1, <2>4 DEF WriteStep, SelectFails, TryAgain, SendSome,
                              SendFails
    <3>3. StepsLeft' = left' * tries + retry' + 1
      BY <3>2 DEF StepsLeft, tries
    <3>4. CASE TryAgain
      <4>1. retry' = retry - 1 /\ left' = left
        BY <3>4 DEF TryAgain
      <4> QED BY <2>1, <2>2, <3>3, <4>1
    <3>5. ASSUME NEW count \in 1 .. left, AfterPart(count)
          PROVE  StepsLeft' \in 0 .. (StepsLeft - 1)
      <4>1. left' = left - count /\ retry' = MaxRetry /\ tries = MaxRetry + 1
        BY <3>5 DEF AfterPart, tries
      <4>2. /\ (left - count) * tries \in Nat
            /\ (left - count) * tries + tries <= left * tries
        BY <2>1, PartCostsMore
      <4> DEFINE before == left * tries
                 after == (left - count) * tries
      <4>3. /\ before \in Nat /\ after \in Nat /\ after + tries <= before
            /\ StepsLeft = before + retry + 1
            /\ StepsLeft' = after + retry' + 1
        BY <2>1, <2>2, <3>3, <4>1, <4>2
      <4> HIDE DEF before, after
      <4> QED BY <2>1, <4>1, <4>3
    <3> QED BY <3>1, <3>4, <3>5
  <2> QED BY <2>3, <2>4
<1> QED BY <1>1, <1>2

(* Every step of a read, a write or a flush brings the call nearer to its   *)
(* end, whatever the peer does: the tries a sent part gives back are fewer  *)
(* than those its bytes stood for.                                          *)
THEOREM CallsAreAdvancing == FairSpec => CallsAdvance
<1>1. Inv => [pc # "idle" /\ Steps
                => StepsLeft' \in 0 .. (StepsLeft - 1)]_vars
  <2> SUFFICES ASSUME Inv, pc # "idle", Steps
               PROVE  StepsLeft' \in 0 .. (StepsLeft - 1)
    OBVIOUS
  <2>1. CASE Reading
    <3>1. ReadSteps \/ ReadReturns
      BY <2>1 DEF Reading, Read, Peek, read, peek
    <3> QED BY <3>1, ReadAdvances
  <2>2. CASE FlushStep
    BY <2>2, FlushIsAdvancing
  <2>3. CASE WriteStep \/ WriteReturns
    BY <2>3, WriteAdvances
  <2> QED BY <2>1, <2>2, <2>3 DEF Steps
<1> QED BY <1>1, CellInvHolds, PTL DEF FairSpec, Spec, CallsAdvance

=============================================================================
