------------------------------ MODULE ReplyCheck ------------------------------
(***************************************************************************)
(* A packet in memory on both of its ways.  packet_ProtocolRequest writes  *)
(* the header and the text of a request, computes the check value over     *)
(* them and puts it at the end.  receiveResponse copies the payload of a   *)
(* reply for its log; then the first lines of unpack_ProtocolResponse find *)
(* the end of the reply from the length the reply itself states, compute   *)
(* the value up to there and compare it with the two bytes that follow.    *)
(* On the way from the EVSE a reply may have been disturbed in two bytes   *)
(* next to each other, those of its length and of its check value          *)
(* included, or in bits further apart.                                     *)
(*                                                                         *)
(* This is what decides the first two checks of ProtocolEVSE.              *)
(***************************************************************************)
EXTENDS Crc16, ProtocolEVSE

CONSTANTS
  CommandID,      \* protocolCommand: the eight bytes that name a command
  PayloadText,    \* the bytes of the text a request carries
  Replies,        \* replies of the EVSE: [cmd, bytes]
  Requests,       \* requests as the EVSE expects them: [cmd, bytes]
  Noise,          \* what the link may turn over: from a byte on, which bits
  StackBytes      \* what may lie behind the receive buffer

VARIABLES
  cmd,            \* payload.cmdId
  sent,           \* the packet as its sender knows it
  packet,         \* the packet in memory
  covered,        \* where the computation ends: header and payloadSize
  pos,            \* the next byte it takes
  crc,            \* CRC16H and CRC16L
  intact,         \* their values for the packet sent: not in the code
  verdict         \* how the packet is doing

replyVars == <<cmd, sent, packet, covered, pos, crc, intact, verdict>>

HeaderSize == 8 + 1 + 2       \* CommandID, Acknowledge, Length
CRC_SIZE == 2

(* The buffer and what a payload as long as it makes the code read behind;  *)
(* a longer one is copied over the stack and ends in "Overrun".             *)
Cells == 0 .. (BufferSize + HeaderSize + CRC_SIZE - 1)
Packets == [Cells -> Byte]

ASSUME TextAssumption ==
  \A command \in Commands :
    /\ CommandID[command] \in [0 .. 7 -> Byte]
    /\ PayloadText[command] \in [0 .. (PackedSize(command) - 1) -> Byte]

ASSUME BytesAssumption ==
  /\ \A noise \in Noise : \A d \in DOMAIN noise : noise[d] \in Byte
  /\ StackBytes \subseteq Byte
  /\ \A message \in Replies \cup Requests :
       /\ message.cmd \in Commands
       /\ DOMAIN message.bytes \subseteq Cells
       /\ \A i \in DOMAIN message.bytes : message.bytes[i] \in Byte

-----------------------------------------------------------------------------
(* A packet in a buffer that has been cleared.                              *)
InBuffer(bytes, rest) ==
  [i \in Cells |-> IF i \in DOMAIN bytes THEN bytes[i]
                   ELSE IF i < BufferSize THEN {} ELSE rest]

ACK_NOACK == ByteOf(1)

(* What packet_ProtocolRequest puts into Length: the text of getRFIDState   *)
(* is not counted.                                                          *)
StatedLength(command) ==
  IF command \in {"settime", "gconevse"} THEN PackedSize(command) ELSE 0

(* Mutant: the bytes in the order of the processor.                         *)
NotSwapped(n) == <<ByteOf(n % 256), ByteOf(n \div 256)>>

(* The two bytes of a length as they lie in memory after the swap.          *)
BigToLittle(n) == <<ByteOf(n \div 256), ByteOf(n % 256)>>

(* A request before its check value is there.                               *)
PackedBytes(command) ==
  [i \in Cells |->
    CASE i \in DOMAIN CommandID[command] -> CommandID[command][i]
      [] i = 8 -> ACK_NOACK
      [] i \in {9, 10} -> BigToLittle(StatedLength(command))[i - 8]
      [] i - HeaderSize \in DOMAIN PayloadText[command]
           -> PayloadText[command][i - HeaderSize]
      [] OTHER -> {}]

(* LittleToBig(packet.Length).                                              *)
Length(p) == 256 * Value(p[9]) + Value(p[10])

(* The check value a packet carries, low byte first.                        *)
Trailer(p, end) == [l |-> p[end], h |-> p[end + 1]]

Starts ==
  pos = 0 /\ crc = Preset /\ intact = Preset

(* A reply has come in whole, disturbed or not.                             *)
ReplyArrives ==
  \E reply \in Replies, rest \in StackBytes :
    /\ cmd = reply.cmd /\ sent = InBuffer(reply.bytes, rest)
    /\ \E i \in DOMAIN reply.bytes, noise \in Noise :
         packet = [j \in Cells |->
           IF j \in DOMAIN reply.bytes /\ j - i \in DOMAIN noise
             THEN SymDiff(sent[j], noise[j - i]) ELSE sent[j]]
    /\ covered = 0 /\ verdict = "received"

(* A request has been put together up to its payload; sent is what the EVSE *)
(* expects.                                                                 *)
RequestPacked ==
  \E request \in Requests :
    /\ cmd = request.cmd /\ sent = InBuffer(request.bytes, {})
    /\ packet = PackedBytes(cmd)
    /\ covered = HeaderSize + PackedSize(cmd) /\ verdict = "packing"

ReplyInit == Starts /\ (ReplyArrives \/ RequestPacked)

-----------------------------------------------------------------------------
(* Mutant: the length as it lies in memory.                                 *)
CopySizeUnswapped ==
  IF evsePayloadSize(cmd) # 0 THEN evsePayloadSize(cmd)
                              ELSE 256 * Value(packet[10]) + Value(packet[9])

(* payloadSize in receiveResponse.                                          *)
CopySize ==
  IF evsePayloadSize(cmd) # 0 THEN evsePayloadSize(cmd) ELSE Length(packet)

(* memcpy(tempString, packet->Payload, payloadSize): tempString is as large *)
(* as the buffer, and nothing has looked at the size yet.  After an overrun *)
(* nothing is known of what the program does.                               *)
CopyPayload ==
  /\ verdict = "received"
  /\ verdict' = IF CopySize <= BufferSize THEN "copied" ELSE "Overrun"
  /\ UNCHANGED <<cmd, sent, packet, covered, pos, crc, intact>>

CheckSize ==
  /\ verdict = "copied"
  /\ \/ /\ Length(packet) \in 0 .. MaxPayload(cmd)
        /\ covered' = HeaderSize + Length(packet) /\ verdict' = "checking"
     \/ /\ Length(packet) \notin 0 .. MaxPayload(cmd)
        /\ verdict' = "BadSize" /\ UNCHANGED covered
  /\ UNCHANGED <<cmd, sent, packet, pos, crc, intact>>

(* One turn of the loop over the bytes.                                     *)
CalcByte ==
  /\ verdict \in {"checking", "packing"} /\ pos < covered
  /\ pos' = pos + 1
  /\ crc' = AddByte(crc, packet[pos]) /\ intact' = AddByte(intact, sent[pos])
  /\ UNCHANGED <<cmd, sent, packet, covered, verdict>>

(* Mutant: the values are compared in eight bits.                           *)
CompareCrcNarrow ==
  /\ verdict = "checking" /\ pos = covered
  /\ verdict' = IF crc.l = Trailer(packet, covered).l THEN "Success"
                                                      ELSE "BadCRC"
  /\ UNCHANGED <<cmd, sent, packet, covered, pos, crc, intact>>

CompareCrc ==
  /\ verdict = "checking" /\ pos = covered
  /\ verdict' = IF crc = Trailer(packet, covered) THEN "Success" ELSE "BadCRC"
  /\ UNCHANGED <<cmd, sent, packet, covered, pos, crc, intact>>

AppendCrc ==
  /\ verdict = "packing" /\ pos = covered
  /\ verdict' = "packed"
  /\ packet' = [packet EXCEPT ![covered] = crc.l, ![covered + 1] = crc.h]
  /\ UNCHANGED <<cmd, sent, covered, pos, crc, intact>>

ReplyNext == CopyPayload \/ CheckSize \/ CalcByte \/ CompareCrc \/ AppendCrc

ReplySpec == ReplyInit /\ [][ReplyNext]_replyVars

-----------------------------------------------------------------------------
(* The types; the computation of CRC16_Calc ends within the cells, since a  *)
(* payload it is made over has passed the check of its size.                *)
ReplyTypeOK ==
  /\ cmd \in Commands /\ sent \in Packets /\ packet \in Packets
  /\ covered \in 0 .. (HeaderSize + BufferSize)
  /\ pos \in 0 .. (HeaderSize + BufferSize)
  /\ crc \in Register /\ intact \in Register
  /\ verdict \in {"received", "copied", "Overrun", "checking", "BadSize",
                  "BadCRC", "Success", "packing", "packed"}

(* The bytes that have not arrived as they were sent, up to the last one    *)
(* the code looks at, and their bits.                                       *)
Disturbed == {i \in 0 .. (covered + 1) : sent[i] # packet[i]}

TurnedOver(s, p, last) ==
  {place \in (0 .. last) \X Bits : place[2] \in SymDiff(s[place[1]], p[place[1]])}

(* The payload is copied for the log before its size is checked (the        *)
(* memcpy of receiveResponse): the copy leaves its string only when the     *)
(* length has been disturbed on the way, and never for a command whose      *)
(* payload has a fixed size.                                                *)
CopyFits ==
  verdict = "Overrun"
    => evsePayloadSize(cmd) = 0 /\ Length(packet) # Length(sent)

(* No reply is taken for good that was disturbed, wherever the link has hit *)
(* it: a wrong length moves the end of the computation and the place the    *)
(* value is read from.  This says nothing of a length so wrong that the     *)
(* copy before the check overruns.                                          *)
NoiseRefused == verdict = "Success" => packet = sent

(* The check the SECC makes is the one the EVSE makes: a reply recorded at  *)
(* the EVSE passes when nothing disturbs it.                                *)
RecordedAccepted == verdict \in {"BadSize", "BadCRC"} => packet # sent

(* What packet_ProtocolRequest puts together from the command, the stated   *)
(* length, the text and the check value is, byte for byte, what the EVSE    *)
(* expects.                                                                 *)
RequestsAsRecorded == verdict = "packed" => packet = sent

(* The end of the reply was found where its sender put the check value.     *)
EndFound == intact = Trailer(sent, covered)

(* Whatever the replies and the noise: a reply is refused that is disturbed *)
(* in two bytes next to each other or in one of them, whichever their bits, *)
(* the last byte covered and the first of the check value included.         *)
BurstRefused ==
  verdict = "Success" /\ EndFound
    => \A i \in 0 .. (covered + 1) :
         Disturbed \subseteq {i, i + 1} => Disturbed = {}

(* And a reply is refused in which an odd number of bits is turned over,    *)
(* however far apart they are.                                              *)
OddRefused ==
  verdict = "Success" /\ EndFound
    => Cardinality(TurnedOver(sent, packet, covered + 1)) % 2 = 0

=============================================================================
