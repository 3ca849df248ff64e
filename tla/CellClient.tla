----------------------------- MODULE CellClient -----------------------------
(***************************************************************************)
(* CellClient (CellClient.cpp): a TCP client over lwIP sockets.  One       *)
(* thread calls it; the peer sends, closes and fails at any time, between  *)
(* two system calls of one operation too.                                  *)
(*                                                                         *)
(* read and peek use the receive buffer without asking whether there is    *)
(* one: like their callers, the model calls them on an open client only.   *)
(***************************************************************************)
EXTENDS CellRxBuffer, Sequences

CONSTANTS
  MaxRetry,     \* CELL_CLIENT_MAX_WRITE_RETRY: 10 in the code
  FlushChunk    \* CELL_CLIENT_FLUSH_BUFFER_SIZE: 1024 in the code

VARIABLES
  open,         \* clientSocketHandle and _rxBuffer are set
  _connected,
  peerClosed,   \* the peer sends nothing more
  flushing,     \* flush is throwing bytes away
  retry,        \* locals of write; len and left are its size and bytesRemaining
  buf,          \* how far write has moved its pointer into the user's data
  totalBytesSent,
  sent,         \* which of the user's bytes the socket took: not in the code
  fruitless,    \* tries in a row that sent nothing: not in the code
  gaveUp        \* why write ended early, or "no": not in the code

linkVars == <<open, _connected, peerClosed>>
writeVars == <<retry, buf, totalBytesSent, sent, fruitless, gaveUp>>
vars == <<rxVars, linkVars, flushing, writeVars>>

ASSUME LimitsAssumption == MaxRetry \in Nat \ {0} /\ FlushChunk \in Nat \ {0}

WriteInit ==
  /\ retry = 0 /\ buf = 0 /\ totalBytesSent = 0
  /\ sent = <<>> /\ fruitless = 0 /\ gaveUp = "no"

Init ==
  /\ RxInit /\ WriteInit
  /\ open = FALSE /\ _connected = FALSE /\ peerClosed = FALSE
  /\ flushing = FALSE

-----------------------------------------------------------------------------
(* connect, when it succeeds, puts a new socket and a new buffer in the     *)
(* place of the old ones.                                                   *)
connect ==
  /\ pc = "idle"
  /\ RxNew
  /\ open' = TRUE /\ _connected' = TRUE /\ peerClosed' = FALSE
  /\ UNCHANGED <<callVars, flushing, writeVars>>

(* The socket and the buffer are freed, what was in them is lost.           *)
stop == RxNew /\ open' = FALSE /\ _connected' = FALSE /\ peerClosed' = FALSE

(* The user stops the client, or calls available, also within flush, and    *)
(* the ioctl fails: the bytes available reports are gone with the buffer.   *)
StopNow ==
  pc = "idle" /\ open /\ stop /\ UNCHANGED <<callVars, flushing, writeVars>>

(* recv of no bytes tells nothing; errno may be that of an earlier call.    *)
connected ==
  /\ pc = "idle" /\ _connected
  /\ _connected' = FALSE
  /\ UNCHANGED <<rxVars, open, peerClosed, flushing, writeVars>>

-----------------------------------------------------------------------------
(* A call of the buffer that failed closes the client, read or not.         *)
StopIfFailed == IF failed THEN stop ELSE UNCHANGED <<linkVars, socketVars,
                                                      memberVars, last>>

Read == open /\ \E size \in 1 .. MaxLen : read(size)

Peek == open /\ peek

ReadReturns ==
  /\ pc \in {"readDone", "peeked"}
  /\ pc' = "idle" /\ len' = 0 /\ left' = 0 /\ take' = 0
  /\ StopIfFailed

Reading ==
  \/ Read /\ UNCHANGED linkVars
  \/ Peek /\ UNCHANGED linkVars
  \/ ReadSteps /\ UNCHANGED linkVars
  \/ ReadReturns

-----------------------------------------------------------------------------
(* flush counts the bytes of the buffer too, but takes them from the socket *)
(* only.  left is the code's a.                                             *)

flush ==
  /\ pc = "idle" /\ open /\ available > 0
  /\ pc' = "flush" /\ left' = available /\ flushing' = TRUE
  /\ UNCHANGED <<socketVars, memberVars, len, take, last, linkVars, writeVars>>

(* recv takes some bytes, says that there are none, or fails: only a peer   *)
(* that has closed lets recv return 0, and the loop tries again.            *)
FlushStep ==
  /\ pc = "flush"
  /\ \/ /\ \E count \in 1 .. FlushChunk :
             /\ count <= left /\ count <= Queued
             /\ taken' = taken + count
             /\ left' = left - count
        /\ IF left' = 0 THEN pc' = "idle" /\ flushing' = FALSE
                        ELSE UNCHANGED <<pc, flushing>>
        /\ UNCHANGED <<arrived, memberVars, last, linkVars>>
     \/ /\ Queued = 0 => ~peerClosed
        /\ stop /\ pc' = "idle" /\ left' = 0 /\ flushing' = FALSE
  /\ UNCHANGED <<len, take, writeVars>>

-----------------------------------------------------------------------------
(* write(buf, size)                                                         *)

Write ==
  /\ pc = "idle" /\ open /\ _connected
  /\ \E size \in 1 .. MaxLen : len' = size /\ left' = size
  /\ pc' = "write"
  /\ retry' = MaxRetry /\ buf' = 0 /\ totalBytesSent' = 0
  /\ sent' = <<>> /\ fruitless' = 0 /\ gaveUp' = "no"
  /\ UNCHANGED <<socketVars, memberVars, take, last, linkVars, flushing>>

(* select fails: nothing is reported, whatever was sent.                    *)
SelectFails ==
  /\ gaveUp' = "select" /\ totalBytesSent' = 0
  /\ pc' = "wrote"
  /\ UNCHANGED <<socketVars, memberVars, left, last, linkVars, retry, buf, sent,
                 fruitless>>

(* Mutant: a busy socket gives the write all its tries back.                *)
TryAgainAnew ==
  /\ retry' \in {retry - 1, MaxRetry}
  /\ pc' = IF retry' = 0 THEN "wrote" ELSE pc
  /\ UNCHANGED <<socketVars, memberVars, left, last, linkVars, buf,
                 totalBytesSent, sent, fruitless, gaveUp>>

(* select times out, or send is busy or takes nothing.                      *)
TryAgain ==
  /\ retry' = retry - 1
  /\ fruitless' = fruitless + 1
  /\ pc' = IF retry' = 0 THEN "wrote" ELSE pc
  /\ UNCHANGED <<socketVars, memberVars, left, last, linkVars, buf,
                 totalBytesSent, sent, gaveUp>>

(* Mutants of AfterPart: the pointer stays; the tries are not counted anew. *)
AfterPartSameData(count) ==
  buf' = buf /\ left' = left - count /\ retry' = MaxRetry
AfterPartSameTries(count) ==
  buf' = buf + count /\ left' = left - count /\ retry' = retry - 1

(* After a part the write goes on behind it, with all its tries.            *)
AfterPart(count) ==
  buf' = buf + count /\ left' = left - count /\ retry' = MaxRetry

SendSome ==
  /\ \E count \in 1 .. left :
       /\ sent' = sent \o [i \in 1 .. count |-> buf + i]
       /\ totalBytesSent' = totalBytesSent + count
       /\ IF totalBytesSent' >= len
            THEN retry' = 0 /\ UNCHANGED <<buf, left>>
            ELSE AfterPart(count)
  /\ fruitless' = 0
  /\ pc' = IF retry' = 0 THEN "wrote" ELSE pc
  /\ UNCHANGED <<socketVars, memberVars, last, linkVars, gaveUp>>

SendFails ==
  /\ stop
  /\ retry' = 0 /\ gaveUp' = "send" /\ pc' = "wrote"
  /\ UNCHANGED <<left, buf, totalBytesSent, sent, fruitless>>

WriteStep ==
  /\ pc = "write"
  /\ SelectFails \/ TryAgain \/ SendSome \/ SendFails
  /\ UNCHANGED <<len, take, flushing>>

WriteReturns ==
  /\ pc = "wrote"
  /\ pc' = "idle" /\ len' = 0 /\ left' = 0
  /\ retry' = 0 /\ buf' = 0 /\ totalBytesSent' = 0
  /\ sent' = <<>> /\ fruitless' = 0 /\ gaveUp' = "no"
  /\ UNCHANGED <<socketVars, memberVars, take, last, linkVars, flushing>>

-----------------------------------------------------------------------------
(* The peer                                                                 *)

Arrives ==
  /\ open /\ ~peerClosed /\ arrived < MaxBytes
  /\ arrived' = arrived + 1
  /\ UNCHANGED <<taken, memberVars, callVars, last, linkVars, flushing,
                 writeVars>>

PeerCloses ==
  /\ open /\ peerClosed' = TRUE
  /\ UNCHANGED <<rxVars, open, _connected, flushing, writeVars>>

Steps ==
  \/ Reading /\ UNCHANGED <<flushing, writeVars>>
  \/ FlushStep
  \/ WriteStep \/ WriteReturns

Next ==
  \/ connect \/ StopNow \/ connected
  \/ flush \/ Write
  \/ Steps
  \/ Arrives \/ PeerCloses

Spec == Init /\ [][Next]_vars

(* An operation that has begun goes on; nothing is asked of the peer.       *)
FairSpec == Spec /\ WF_vars(pc # "idle" /\ Steps)

-----------------------------------------------------------------------------
CallStates ==
  {"idle", "first", "enough", "second", "copy", "loop", "readDone", "peeked",
   "flush", "write", "wrote"}

TypeOK ==
  /\ RxTypeOK
  /\ pc \in CallStates
  /\ len \in 0 .. MaxLen /\ left \in Nat /\ take \in 0 .. MaxLen
  /\ open \in BOOLEAN /\ _connected \in BOOLEAN /\ peerClosed \in BOOLEAN
  /\ flushing \in BOOLEAN
  /\ retry \in 0 .. MaxRetry /\ buf \in 0 .. MaxLen
  /\ totalBytesSent \in 0 .. MaxLen
  /\ sent \in Seq(1 .. MaxLen)
  /\ fruitless \in Nat /\ gaveUp \in {"no", "select", "send"}

(* What the socket took is a beginning of the user's data, once and in      *)
(* order, and write reports all of it, unless select failed.                *)
WriteReports ==
  /\ \A i \in DOMAIN sent : sent[i] = i
  /\ pc = "wrote" /\ gaveUp # "select" => totalBytesSent = Len(sent)
  /\ pc = "wrote" => Len(sent) <= len

(* A write that ends early without an error has tried in vain MaxRetry      *)
(* times in a row, however often the socket took a part before.             *)
WriteIsStubborn ==
  pc = "wrote" /\ gaveUp = "no" =>
    totalBytesSent = len \/ fruitless = MaxRetry

(* Between its steps a read keeps to what it found: what it decided on is   *)
(* still in the buffer, and the room it counted on still there.             *)
ReadInv ==
  /\ pc \in {"first", "enough", "second", "loop", "copy"} => left \in 1 .. len
  /\ pc = "enough" => pos < fill /\ left = len
  /\ pc = "first" => left = len
  /\ pc = "second" => /\ left = len /\ take = fill - pos /\ take > 0
                      /\ take < len /\ len - take <= Size - fill
  /\ CopyIsBuffered
  /\ pc = "copy" => take \in {left, fill - pos} \/ fill < Size
  /\ pc = "loop" => pos = fill \/ fill < Size

FlushInv == flushing = (pc = "flush")

(* Within a write the pointer, the count and the rest fit together, and so  *)
(* do the tries that are left and those made in vain.                       *)
WriteInv ==
  /\ pc = "write" =>
       /\ buf = totalBytesSent /\ Len(sent) = totalBytesSent
       /\ left = len - buf /\ left > 0
       /\ retry > 0 /\ fruitless = MaxRetry - retry /\ gaveUp = "no"
  /\ WriteReports
  /\ WriteIsStubborn

(* The inductive invariant.                                                 *)
Inv == TypeOK /\ BufferInOrder /\ FlushInv /\ ReadInv /\ WriteInv

(* A read that gives less than was asked for, with the connection intact,   *)
(* has found the socket empty: a full buffer is never taken for silence.    *)
ShortReadMeansSilence ==
  [][LoopFill /\ pc' = "readDone" /\ ~failed' => Queued = 0]_vars

(* A bound on the steps a call still takes, without one of the peer's.      *)
StepsLeft ==
  CASE pc = "idle" -> 0
    [] pc \in {"readDone", "peeked", "wrote"} -> 1
    [] pc = "copy" -> 2 * left
    [] pc = "loop" -> 2 * left + 1
    [] pc = "second" -> 2 * left + 1
    [] pc = "enough" -> 2 * left + 2
    [] pc = "first" -> 2 * left + 3
    [] pc = "flush" -> left + 1
    [] pc = "write" -> left * (MaxRetry + 1) + retry + 1

(* Whatever the peer does between them, every step of a call brings it      *)
(* nearer to its end: a part that is sent costs more than the tries it      *)
(* gives back, a fill that gives nothing ends the read.                     *)
CallsAdvance ==
  [][pc # "idle" /\ Steps => StepsLeft' \in 0 .. (StepsLeft - 1)]_vars

(* Reads and writes return whatever the peer does; flush returns unless the *)
(* peer has closed, when it may wait for bytes that are in the buffer.      *)
CallsReturn == pc # "idle" ~> pc = "idle" \/ (pc = "flush" /\ peerClosed)

-----------------------------------------------------------------------------
Queue == INSTANCE ByteQueue WITH pending <- Pending

(* Bytes are delivered once and in order, wherever in a read they arrive,   *)
(* and are passed over only by a flush or with the connection.              *)
ImplementsQueue == Queue!Spec

(* What a user can tell of it: on one connection the bytes he gets go up,   *)
(* and no step but one of a flush passes over a byte that is pending.       *)
ServedInOrder ==
  [][\/ arrived' = 0 /\ last' = 0 /\ Pending' = {}
     \/ /\ last' # last => last' \in Pending /\ last < last'
        /\ \A byte \in Pending :
             byte \in Pending' \/ byte <= last' \/ flushing]_vars

=============================================================================
