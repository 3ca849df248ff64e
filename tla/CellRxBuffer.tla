---------------------------- MODULE CellRxBuffer ----------------------------
(***************************************************************************)
(* CellClientRxBuffer (CellClient.cpp): the buffer between a socket and    *)
(* the user of a client.  read takes what is buffered and refills the      *)
(* buffer up to three times on different grounds while the peer goes on    *)
(* sending: a call of fillBuffer is one step and bytes arrive in between.  *)
(*                                                                         *)
(* Bytes are numbered from 1 in the order in which they arrive.  The       *)
(* socket holds taken + 1 .. arrived, the buffer the numbers it was given. *)
(***************************************************************************)
EXTENDS Integers

CONSTANTS
  Size,           \* _size: 1436 in the code
  MaxLen,         \* bound: bytes asked for by one call
  MaxBytes        \* bound: bytes the peer sends on one connection

VARIABLES
  arrived, taken,             \* what the socket has received and handed over
  allocated,                  \* _buffer is not NULL
  buffer, pos, fill, failed,  \* the members of the class
  pc,                         \* where the call of the client is, or "idle"
  len, left,                  \* its argument, and what is still to be moved
  take,                       \* read: the bytes the next memcpy moves
  last                        \* the last byte given to the user: not in the code

socketVars == <<arrived, taken>>
memberVars == <<allocated, buffer, pos, fill, failed>>
callVars == <<pc, len, left, take>>
rxVars == <<socketVars, memberVars, callVars, last>>

ASSUME SizesAssumption ==
  Size \in Nat \ {0} /\ MaxLen \in Nat \ {0} /\ MaxBytes \in Nat

-----------------------------------------------------------------------------
(* A new object on a new socket.                                            *)
NoBuffer == [i \in 0 .. (Size - 1) |-> 0]
RxNew ==
  /\ arrived' = 0 /\ taken' = 0 /\ last' = 0
  /\ allocated' = FALSE /\ buffer' = NoBuffer /\ pos' = 0 /\ fill' = 0
  /\ failed' = FALSE

RxInit ==
  /\ arrived = 0 /\ taken = 0 /\ last = 0
  /\ allocated = FALSE /\ buffer = NoBuffer /\ pos = 0 /\ fill = 0
  /\ failed = FALSE
  /\ pc = "idle" /\ len = 0 /\ left = 0 /\ take = 0

Queued == arrived - taken          \* FIONREAD
r_available == Queued

(* Mutant: whatever is left in the buffer is dropped.                       *)
RewoundEarly == fill > 0

(* fillBuffer starts at the beginning of a buffer that has been used up.    *)
Rewound == fill > 0 /\ pos = fill

Start == IF Rewound THEN 0 ELSE fill
Room == Size - Start

(* Mutant: the received bytes go where the unread ones begin.               *)
ReceivedAtPos(count) ==
  buffer' = [i \in 0 .. (Size - 1) |->
    IF i >= pos /\ i < pos + count THEN taken + 1 + (i - pos) ELSE buffer[i]]

(* recv into the buffer, from Start on.                                     *)
Received(count) ==
  buffer' = [i \in 0 .. (Size - 1) |->
    IF i >= Start /\ i < Start + count THEN taken + 1 + (i - Start)
                                       ELSE buffer[i]]

(* fillBuffer returns count.  It returns 0 when there is no room, nothing   *)
(* has arrived, or malloc, ioctl or recv fails; recv may give less than     *)
(* there is.                                                                *)
fillBuffer(count) ==
  \/ /\ count = 0 /\ ~allocated
     /\ failed' = TRUE
     /\ UNCHANGED <<socketVars, allocated, buffer, pos, fill>>
  \/ /\ allocated' = TRUE
     /\ pos' = IF Rewound THEN 0 ELSE pos
     /\ fill' = Start + count
     /\ \/ /\ count = 0
           /\ \/ (Room = 0 \/ r_available = 0) /\ UNCHANGED failed
              \/ Room > 0 /\ failed' = TRUE
           /\ UNCHANGED <<socketVars, buffer>>
        \/ /\ count > 0 /\ count <= Room /\ count <= r_available
           /\ Received(count)
           /\ taken' = taken + count
           /\ UNCHANGED <<arrived, failed>>

-----------------------------------------------------------------------------
(* read(dst, len), step by step                                             *)

read(size) ==
  /\ pc = "idle" /\ size > 0
  /\ len' = size /\ left' = size /\ take' = 0
  /\ pc' = IF pos = fill THEN "first" ELSE "enough"
  /\ UNCHANGED <<socketVars, memberVars, last>>

FirstFill ==
  /\ pc = "first"
  /\ \E count \in 0 .. Size :
       /\ fillBuffer(count)
       /\ pc' = IF count = 0 THEN "readDone" ELSE "enough"
  /\ UNCHANGED <<len, left, take, last>>

(* Mutant: the room left in the buffer is not looked at.                    *)
FitsAlways(a) == a < len

(* What is missing may still come into the buffer.                          *)
Fits(a) == a < len /\ len - a <= Size - fill

Enough ==
  /\ pc = "enough"
  /\ LET a == fill - pos IN
       /\ take' = IF len <= a THEN len ELSE a
       /\ pc' = IF Fits(a) THEN "second" ELSE "copy"
  /\ UNCHANGED <<socketVars, memberVars, len, left, last>>

(* Mutant: any success of the second fill is taken for all of it.           *)
TakeAfterAny(count) == IF count > 0 THEN len ELSE take

(* If the second fill is not enough, the first copy takes only what was     *)
(* there before it; the rest of it is left to the loop.                     *)
TakeAfter(count) == IF count >= len - take THEN len ELSE take

SecondFill ==
  /\ pc = "second"
  /\ \E count \in 0 .. Size : fillBuffer(count) /\ take' = TakeAfter(count)
  /\ pc' = "copy"
  /\ UNCHANGED <<len, left, last>>

(* memcpy of take bytes to the user.                                        *)
CopyOut ==
  /\ pc = "copy"
  /\ last' = buffer[pos + take - 1]
  /\ pos' = pos + take
  /\ left' = left - take
  /\ take' = 0
  /\ pc' = IF left' = 0 THEN "readDone" ELSE "loop"
  /\ UNCHANGED <<socketVars, allocated, buffer, fill, failed, len>>

LoopFill ==
  /\ pc = "loop"
  /\ \E count \in 0 .. Size :
       /\ fillBuffer(count)
       /\ \/ count = 0 /\ pc' = "readDone" /\ UNCHANGED take
          \/ /\ count > 0 /\ pc' = "copy"
             /\ take' = IF fill' - pos' > left THEN left ELSE fill' - pos'
  /\ UNCHANGED <<len, left, last>>

ReadSteps == FirstFill \/ Enough \/ SecondFill \/ CopyOut \/ LoopFill

-----------------------------------------------------------------------------
(* peek fills an empty buffer once and moves nothing out of it.             *)
peek ==
  /\ pc = "idle"
  /\ IF pos = fill THEN \E count \in 0 .. Size : fillBuffer(count)
                   ELSE UNCHANGED <<socketVars, memberVars>>
  /\ pc' = "peeked"
  /\ UNCHANGED <<len, left, take, last>>

(* Bytes of the buffer and of the socket; ioctl may fail.                   *)
available == (fill - pos) + r_available

-----------------------------------------------------------------------------
RxTypeOK ==
  /\ arrived \in 0 .. MaxBytes /\ taken \in 0 .. arrived
  /\ allocated \in BOOLEAN /\ failed \in BOOLEAN
  /\ buffer \in [0 .. (Size - 1) -> 0 .. MaxBytes]
  /\ fill \in 0 .. Size /\ pos \in 0 .. fill
  /\ last \in 0 .. MaxBytes

(* What is buffered is newer than what the user has, older than what the    *)
(* socket holds, and in order.                                              *)
BufferInOrder ==
  /\ last <= taken
  /\ \A i \in pos .. (fill - 1) :
       /\ last < buffer[i] /\ buffer[i] <= taken
       /\ \A j \in (i + 1) .. (fill - 1) : buffer[i] < buffer[j]

(* memcpy never moves a byte that was not received: take is what a decision *)
(* before the last fill and its result make of it.                          *)
CopyIsBuffered == pc = "copy" => take \in 1 .. (fill - pos) /\ take <= left

(* The received bytes that have not been given to the user.                 *)
Pending ==
  {buffer[i] : i \in pos .. (fill - 1)} \cup (taken + 1) .. arrived

=============================================================================
