----------------------------- MODULE ReplyProofs -----------------------------
(***************************************************************************)
(* What the check value of a packet promises for every packet: the         *)
(* registers of CRC16_Calc never forget that two neighbouring bytes were   *)
(* different, nor that an odd number of bits was, a packet that nothing    *)
(* disturbs passes, and a request carries the value its own stated length  *)
(* leads to.                                                               *)
(***************************************************************************)
EXTENDS ReplyCheck, CrcProofs

-----------------------------------------------------------------------------
(* Type correctness                                                         *)

LEMMA InBufferType ==
  ASSUME NEW message \in Replies \cup Requests, NEW rest \in Byte
  PROVE  InBuffer(message.bytes, rest) \in Packets
<1>1. \A i \in DOMAIN message.bytes : message.bytes[i] \in Byte
  BY BytesAssumption
<1>2. {} \in Byte
  BY DEF Byte
<1>. QED  BY <1>1, <1>2 DEF InBuffer, Packets

LEMMA SizeType ==
  ASSUME NEW command \in Commands
  PROVE  /\ MaxPayload(command) \in 0 .. BufferSize
         /\ PackedSize(command) \in 0 .. BufferSize
BY DEF MaxPayload, PackedSize, Commands, BufferSize, Overhead

(* The numbers a request has in a byte of its own.                          *)
LEMMA ByteOfValue ==
  ASSUME NEW n \in {0, 1, 22, 37}
  PROVE  ByteOf(n) \in Byte /\ Value(ByteOf(n)) = n
<1>1. \E byte \in Byte : Value(byte) = n
  <2>1. /\ {} \in Byte /\ {0} \in Byte
        /\ {1, 2, 4} \in Byte /\ {0, 2, 5} \in Byte
    BY DEF Byte, Bits
  <2>2. Value({}) = 0 /\ Value({0}) = 1
    BY DEF Value
  <2>3. Value({1, 2, 4}) = 22 /\ Value({0, 2, 5}) = 37
    BY DEF Value
  <2>. QED  BY <2>1, <2>2, <2>3
<1>. QED  BY <1>1 DEF ByteOf

LEMMA LengthBytes ==
  ASSUME NEW command \in Commands
  PROVE  /\ StatedLength(command) \in {0, 22, 37}
         /\ StatedLength(command) \div 256 = 0
         /\ StatedLength(command) % 256 = StatedLength(command)
<1>1. StatedLength(command) \in {0, 22, 37}
  BY DEF StatedLength, PackedSize, Commands
<1>. QED  BY <1>1

LEMMA PackedBytesType ==
  ASSUME NEW command \in Commands
  PROVE  /\ PackedBytes(command) \in Packets
         /\ Length(PackedBytes(command)) = StatedLength(command)
<1>1. /\ CommandID[command] \in [0 .. 7 -> Byte]
      /\ PayloadText[command] \in [0 .. (PackedSize(command) - 1) -> Byte]
  BY TextAssumption
<1>2. /\ ByteOf(StatedLength(command) \div 256) \in Byte
      /\ ByteOf(StatedLength(command) % 256) \in Byte
      /\ Value(ByteOf(StatedLength(command) \div 256)) = 0
      /\ Value(ByteOf(StatedLength(command) % 256)) = StatedLength(command)
  BY LengthBytes, ByteOfValue
<1>3. ACK_NOACK \in Byte /\ {} \in Byte
  BY ByteOfValue DEF ACK_NOACK, Byte
<1>4. \A i \in Cells : PackedBytes(command)[i] \in Byte
  <2>1. \A i \in {9, 10} : BigToLittle(StatedLength(command))[i - 8] \in Byte
    BY <1>2 DEF BigToLittle
  <2>. QED  BY <1>1, <1>3, <2>1 DEF PackedBytes
<1>5. PackedBytes(command) \in Packets
  BY <1>4 DEF PackedBytes, Packets
<1>6. /\ 9 \in Cells /\ 10 \in Cells
      /\ 9 \notin DOMAIN CommandID[command]
      /\ 10 \notin DOMAIN CommandID[command]
      /\ 9 - HeaderSize \notin DOMAIN PayloadText[command]
      /\ 10 - HeaderSize \notin DOMAIN PayloadText[command]
  <2>1. PackedSize(command) \in Nat
    BY SizeType DEF BufferSize
  <2>2. \A size \in Nat : 0 - 1 \notin 0 .. (size - 1) /\ 0 - 2 \notin 0 .. (size - 1)
    OBVIOUS
  <2>3. 9 - HeaderSize = 0 - 2 /\ 10 - HeaderSize = 0 - 1
    BY DEF HeaderSize
  <2>4. DOMAIN PayloadText[command] = 0 .. (PackedSize(command) - 1)
    BY <1>1
  <2>. QED  BY <1>1, <2>1, <2>2, <2>3, <2>4
            DEF Cells, HeaderSize, BufferSize, CRC_SIZE
<1>7. /\ PackedBytes(command)[9] = ByteOf(StatedLength(command) \div 256)
      /\ PackedBytes(command)[10] = ByteOf(StatedLength(command) % 256)
  BY <1>6 DEF PackedBytes, BigToLittle
<1>8. StatedLength(command) \in Nat
  BY LengthBytes
<1>. QED  BY <1>2, <1>5, <1>7, <1>8 DEF Length

LEMMA PresetType == Preset \in Register
BY DEF Preset, Register, Byte

LEMMA ReplyInitType == ReplyInit => ReplyTypeOK
<1>. SUFFICES ASSUME ReplyInit PROVE ReplyTypeOK
  OBVIOUS
<1>1. pos = 0 /\ crc \in Register /\ intact \in Register
  BY PresetType DEF ReplyInit, Starts
<1>2. CASE ReplyArrives
  <2>1. PICK reply \in Replies, rest \in StackBytes, noise \in Noise :
          \E i \in DOMAIN reply.bytes :
            /\ cmd = reply.cmd /\ sent = InBuffer(reply.bytes, rest)
            /\ packet = [j \in Cells |->
                 IF j \in DOMAIN reply.bytes /\ j - i \in DOMAIN noise
                   THEN SymDiff(sent[j], noise[j - i]) ELSE sent[j]]
            /\ covered = 0 /\ verdict = "received"
    BY <1>2 DEF ReplyArrives
  <2>2. rest \in Byte /\ cmd \in Commands
    BY <2>1, BytesAssumption
  <2>3. sent \in Packets
    BY <2>1, <2>2, InBufferType
  <2>4. \A d \in DOMAIN noise : noise[d] \in Byte
    BY BytesAssumption
  <2>5. \A j \in Cells : sent[j] \in Byte
    BY <2>3 DEF Packets
  <2>6. \A j \in Cells, d \in DOMAIN noise : SymDiff(sent[j], noise[d]) \in Byte
    BY <2>4, <2>5, SymDiffType
  <2>7. packet \in Packets
    BY <2>1, <2>5, <2>6 DEF Packets
  <2>. QED  BY <1>1, <2>1, <2>2, <2>3, <2>7
            DEF ReplyTypeOK, HeaderSize, BufferSize
<1>3. CASE RequestPacked
  <2>1. PICK request \in Requests :
          /\ cmd = request.cmd /\ sent = InBuffer(request.bytes, {})
          /\ packet = PackedBytes(cmd)
          /\ covered = HeaderSize + PackedSize(cmd) /\ verdict = "packing"
    BY <1>3 DEF RequestPacked
  <2>2. {} \in Byte /\ cmd \in Commands
    BY <2>1, BytesAssumption DEF Byte
  <2>3. sent \in Packets /\ packet \in Packets
    BY <2>1, <2>2, InBufferType, PackedBytesType
  <2>4. PackedSize(cmd) \in 0 .. BufferSize
    BY <2>2, SizeType
  <2>. QED  BY <1>1, <2>1, <2>2, <2>3, <2>4
            DEF ReplyTypeOK, HeaderSize, BufferSize
<1>. QED  BY <1>2, <1>3 DEF ReplyInit

LEMMA ReplyNextType == ReplyTypeOK /\ [ReplyNext]_replyVars => ReplyTypeOK'
<1>. SUFFICES ASSUME ReplyTypeOK, [ReplyNext]_replyVars PROVE ReplyTypeOK'
  OBVIOUS
<1>. USE DEF ReplyTypeOK
<1>1. CASE CheckSize
  <2>1. MaxPayload(cmd) \in 0 .. BufferSize
    BY SizeType
  <2>2. covered' \in 0 .. (HeaderSize + BufferSize)
    BY <1>1, <2>1 DEF CheckSize, HeaderSize, BufferSize
  <2>. QED  BY <1>1, <2>2 DEF CheckSize
<1>2. CASE CalcByte
  <2>1. pos \in Cells /\ pos + 1 \in 0 .. (HeaderSize + BufferSize)
    BY <1>2 DEF CalcByte, Cells, HeaderSize, BufferSize, CRC_SIZE
  <2>2. packet[pos] \in Byte /\ sent[pos] \in Byte
    BY <2>1 DEF Packets
  <2>3. crc' \in Register /\ intact' \in Register
    BY <1>2, <2>2, AddByteKeeps DEF CalcByte
  <2>. QED  BY <1>2, <2>1, <2>3 DEF CalcByte
<1>3. CASE CompareCrc
  BY <1>3 DEF CompareCrc
<1>4. CASE AppendCrc
  <2>1. crc.l \in Byte /\ crc.h \in Byte
    BY DEF Register
  <2>2. packet' \in Packets
    BY <1>4, <2>1 DEF AppendCrc, Packets
  <2>. QED  BY <1>4, <2>2 DEF AppendCrc
<1>5. CASE CopyPayload
  BY <1>5 DEF CopyPayload
<1>6. CASE UNCHANGED replyVars
  BY <1>6 DEF replyVars
<1>. QED  BY <1>1, <1>2, <1>3, <1>4, <1>5, <1>6 DEF ReplyNext

LEMMA ReplyTypeCorrect == ReplySpec => []ReplyTypeOK
BY ReplyInitType, ReplyNextType, PTL DEF ReplySpec

-----------------------------------------------------------------------------
(* Disturbed bytes                                                          *)

(* The inductive invariant: over the bytes computed so far the two          *)
(* computations agree if the bytes do, and differ if the first byte that is *)
(* different is followed by none but its neighbour; when it is the last one *)
(* computed, the high register tells.                                       *)
Agree(bytes) == \A j \in bytes : packet[j] = sent[j]

RegisterInv ==
  /\ Agree(0 .. (pos - 1)) => crc = intact
  /\ \A i \in 0 .. (pos - 1) :
       packet[i] # sent[i] /\ Agree((0 .. (pos - 1)) \ {i, i + 1})
         => /\ crc # intact
            /\ i = pos - 1 => crc.h # intact.h
  /\ verdict = "Success" => pos = covered /\ crc = Trailer(packet, covered)

LEMMA CalcByteFacts ==
  ASSUME ReplyTypeOK, CalcByte
  PROVE  /\ pos \in Cells /\ pos \in Nat
         /\ packet' = packet /\ sent' = sent /\ pos' = pos + 1
         /\ verdict' # "Success"
         /\ crc' = AddByte(crc, packet[pos])
         /\ intact' = AddByte(intact, sent[pos])
         /\ packet[pos] \in Byte /\ sent[pos] \in Byte
         /\ crc \in Register /\ intact \in Register
<1>1. pos \in Cells /\ pos \in Nat
  BY DEF CalcByte, ReplyTypeOK, Cells, HeaderSize, BufferSize, CRC_SIZE
<1>2. packet[pos] \in Byte /\ sent[pos] \in Byte
  BY <1>1 DEF ReplyTypeOK, Packets
<1>. QED  BY <1>1, <1>2 DEF CalcByte, ReplyTypeOK

LEMMA CalcByteKeeps ==
  ReplyTypeOK /\ RegisterInv /\ CalcByte => RegisterInv'
<1>. SUFFICES ASSUME ReplyTypeOK, RegisterInv, CalcByte PROVE RegisterInv'
  OBVIOUS
<1>1. /\ pos \in Nat /\ packet' = packet /\ sent' = sent /\ pos' = pos + 1
      /\ verdict' # "Success"
      /\ crc' = AddByte(crc, packet[pos])
      /\ intact' = AddByte(intact, sent[pos])
  BY CalcByteFacts
<1>2. /\ packet[pos] \in Byte /\ sent[pos] \in Byte
      /\ crc \in Register /\ intact \in Register
  BY CalcByteFacts
<1>3. 0 .. (pos' - 1) = (0 .. (pos - 1)) \cup {pos} /\ pos \notin 0 .. (pos - 1)
  BY <1>1
<1>4. Agree(0 .. (pos - 1))' => crc' = intact'
  BY <1>1, <1>3 DEF Agree, RegisterInv
<1>5. ASSUME NEW i \in 0 .. (pos' - 1), packet[i] # sent[i],
             \A j \in (0 .. (pos' - 1)) \ {i, i + 1} : packet[j] = sent[j]
      PROVE  crc' # intact' /\ (i = pos' - 1 => crc'.h # intact'.h)
  <2>1. CASE i = pos
    <3>1. Agree(0 .. (pos - 1))
      BY <1>1, <1>5, <2>1 DEF Agree
    <3>2. crc = intact
      BY <3>1 DEF RegisterInv
    <3>3. crc'.h # intact'.h
      BY <1>1, <1>2, <1>5, <2>1, <3>2, AddByteShows
    <3>. QED  BY <3>3
  <2>2. CASE i # pos
    <3>1. i \in 0 .. (pos - 1) /\ i # pos' - 1
      BY <1>1, <1>3, <1>5, <2>2
    <3>2. Agree((0 .. (pos - 1)) \ {i, i + 1})
      BY <1>3, <1>5 DEF Agree
    <3>3. crc # intact /\ (i = pos - 1 => crc.h # intact.h)
      BY <1>5, <3>1, <3>2 DEF RegisterInv
    <3>4. CASE i = pos - 1
      <4>1. crc' # intact'
        BY <1>1, <1>2, <3>3, <3>4, HighKeeps
      <4>. QED  BY <3>1, <4>1
    <3>5. CASE i # pos - 1
      <4>1. pos \in (0 .. (pos' - 1)) \ {i, i + 1}
        BY <1>1, <2>2, <3>1, <3>5
      <4>2. packet[pos] = sent[pos]
        BY <1>5, <4>1
      <4>3. crc' # intact'
        BY <1>1, <1>2, <3>3, <4>2, AddByteKeeps
      <4>. QED  BY <3>1, <4>3
    <3>. QED  BY <3>4, <3>5
  <2>. QED  BY <2>1, <2>2
<1>. QED  BY <1>1, <1>4, <1>5 DEF RegisterInv, Agree

LEMMA RegisterInvInductive ==
  /\ ReplyInit => RegisterInv
  /\ ReplyTypeOK /\ RegisterInv /\ [ReplyNext]_replyVars => RegisterInv'
<1>1. ASSUME ReplyInit PROVE RegisterInv
  <2>1. pos = 0 /\ crc = intact /\ verdict # "Success"
    BY <1>1 DEF ReplyInit, Starts, ReplyArrives, RequestPacked
  <2>. QED  BY <2>1 DEF RegisterInv
<1>2. ASSUME ReplyTypeOK, RegisterInv, [ReplyNext]_replyVars
      PROVE  RegisterInv'
  <2>1. CASE CheckSize
    BY <1>2, <2>1 DEF CheckSize, RegisterInv, Agree
  <2>2. CASE CalcByte
    BY <1>2, <2>2, CalcByteKeeps
  <2>3. CASE CompareCrc
    BY <1>2, <2>3 DEF CompareCrc, RegisterInv, Agree, Trailer
  <2>4. CASE AppendCrc
    <3>1. /\ pos' = pos /\ crc' = crc /\ intact' = intact /\ sent' = sent
          /\ verdict' # "Success"
      BY <2>4 DEF AppendCrc
    <3>2. \A j \in 0 .. (pos - 1) : packet'[j] = packet[j]
      BY <1>2, <2>4 DEF AppendCrc, ReplyTypeOK, Packets, Cells, HeaderSize,
                        BufferSize, CRC_SIZE
    <3>. QED  BY <1>2, <3>1, <3>2 DEF RegisterInv, Agree
  <2>5. CASE CopyPayload
    BY <1>2, <2>5 DEF CopyPayload, RegisterInv, Agree
  <2>6. CASE UNCHANGED replyVars
    BY <1>2, <2>6 DEF replyVars, RegisterInv, Agree, Trailer
  <2>. QED  BY <1>2, <2>1, <2>2, <2>3, <2>4, <2>5, <2>6 DEF ReplyNext
<1>. QED  BY <1>1, <1>2

LEMMA RegisterInvSuffices == ReplyTypeOK /\ RegisterInv => BurstRefused
<1>. SUFFICES ASSUME ReplyTypeOK, RegisterInv, verdict = "Success", EndFound,
                     NEW k \in 0 .. (covered + 1),
                     Disturbed \subseteq {k, k + 1}, Disturbed # {}
              PROVE  FALSE
  BY DEF BurstRefused
<1>1. pos = covered /\ covered \in Nat /\ crc = Trailer(packet, covered)
      /\ intact = Trailer(sent, covered)
  BY DEF RegisterInv, ReplyTypeOK, EndFound
(* The first disturbed byte.                                                *)
<1>2. PICK i \in 0 .. (covered + 1) :
        /\ packet[i] # sent[i]
        /\ \A j \in 0 .. (covered + 1) :
             j # i /\ j # i + 1 => packet[j] = sent[j]
  <2>1. CASE k \in Disturbed
    BY <2>1 DEF Disturbed
  <2>2. CASE k \notin Disturbed
    <3>1. Disturbed = {k + 1} /\ k + 1 \in 0 .. (covered + 1)
      BY <2>2 DEF Disturbed
    <3>. QED  BY <3>1 DEF Disturbed
  <2>. QED  BY <2>1, <2>2
<1>3. CASE i < covered
  <2>1. i \in 0 .. (pos - 1) /\ Agree((0 .. (pos - 1)) \ {i, i + 1})
    BY <1>1, <1>2, <1>3 DEF Agree
  <2>2. crc # intact /\ (i = pos - 1 => crc.h # intact.h)
    BY <1>2, <2>1 DEF RegisterInv
  <2>3. packet[covered + 1] = sent[covered + 1]
    BY <1>1, <1>2, <1>3
  <2>4. crc.h = intact.h
    BY <1>1, <2>3 DEF Trailer
  <2>5. packet[covered] = sent[covered]
    BY <1>1, <1>2, <1>3, <2>2, <2>4
  <2>. QED  BY <1>1, <2>2, <2>3, <2>5 DEF Trailer
<1>4. CASE i >= covered
  <2>1. Agree(0 .. (pos - 1))
    BY <1>1, <1>2, <1>4 DEF Agree
  <2>2. crc = intact
    BY <2>1 DEF RegisterInv
  <2>3. /\ packet[covered] = sent[covered]
        /\ packet[covered + 1] = sent[covered + 1]
    BY <1>1, <2>2 DEF Trailer
  <2>4. i = covered \/ i = covered + 1
    BY <1>1, <1>4
  <2>. QED  BY <1>2, <2>3, <2>4
<1>. QED  BY <1>1, <1>3, <1>4

(* One disturbed byte, or two next to each other, are found in replies of   *)
(* every length and content: no byte that follows makes up for them.        *)
THEOREM BurstIsRefused == ReplySpec => []BurstRefused
<1>1. ReplySpec => []ReplyTypeOK
  BY ReplyTypeCorrect
<1>2. ReplyInit => RegisterInv
  BY RegisterInvInductive
<1>3. ReplyTypeOK /\ RegisterInv /\ [ReplyNext]_replyVars => RegisterInv'
  BY RegisterInvInductive
<1>4. ReplyTypeOK /\ RegisterInv => BurstRefused
  BY RegisterInvSuffices
<1>. QED  BY <1>1, <1>2, <1>3, <1>4, PTL DEF ReplySpec

-----------------------------------------------------------------------------
(* The number of disturbed bits                                             *)

LEMMA TurnedOverFinite ==
  ASSUME NEW s, NEW p, NEW last \in Int
  PROVE  IsFiniteSet(TurnedOver(s, p, last))
<1>1. IsFiniteSet(0 .. last) /\ IsFiniteSet(0 .. 7)
  <2>1. 0 \in Int /\ 7 \in Int
    OBVIOUS
  <2>. QED  BY <2>1, IntervalFinite, Zenon
<1>2. IsFiniteSet((0 .. last) \X Bits)
  BY <1>1, FS_Product DEF Bits
<1>3. TurnedOver(s, p, last) \subseteq (0 .. last) \X Bits
  BY DEF TurnedOver
<1>. QED  BY <1>2, <1>3, FS_Subset

LEMMA TurnedOverStart ==
  ASSUME NEW s, NEW p PROVE ~Odd(TurnedOver(s, p, 0 - 1))
<1>1. TurnedOver(s, p, 0 - 1) = {}
  BY DEF TurnedOver
<1>. QED  BY <1>1, FS_EmptySet DEF Odd

(* One more byte brings the bits in which it is different.                  *)
LEMMA TurnedOverNext ==
  ASSUME NEW s \in Packets, NEW p \in Packets, NEW n \in Nat,
         0 .. n \subseteq Cells
  PROVE  Odd(TurnedOver(s, p, n))
           <=> ~(Odd(TurnedOver(s, p, n - 1)) <=> Odd(SymDiff(s[n], p[n])))
<1>. DEFINE bits == SymDiff(s[n], p[n])
            old == TurnedOver(s, p, n - 1)
            new == {n} \X bits
            at == [bit \in bits |-> <<n, bit>>]
<1>1. bits \in Byte /\ IsFiniteSet(bits)
  <2>1. n \in 0 .. n
    OBVIOUS
  <2>2. s[n] \in Byte /\ p[n] \in Byte
    BY <2>1 DEF Packets
  <2>. QED  BY <2>2, SymDiffType, ByteFinite
<1>2. IsFiniteSet(old)
  BY TurnedOverFinite
<1>3. at \in Bijection(bits, new)
  <2>1. at \in [bits -> new]
    OBVIOUS
  <2>2. \A b, c \in bits : at[b] = at[c] => b = c
    OBVIOUS
  <2>3. \A place \in new : \E bit \in bits : at[bit] = place
    OBVIOUS
  <2>. QED  BY <2>1, <2>2, <2>3
            DEF Bijection, Injection, Surjection, IsInjective
<1>4. IsFiniteSet(new) /\ Cardinality(new) = Cardinality(bits)
  BY <1>1, <1>3, FS_Bijection DEF ExistsBijection
<1>5. TurnedOver(s, p, n) = old \cup new /\ old \cap new = {}
  <2>1. 0 .. n = (0 .. (n - 1)) \cup {n} /\ n \notin 0 .. (n - 1)
    OBVIOUS
  <2>2. bits \subseteq Bits
    BY <1>1 DEF Byte
  <2>. QED  BY <2>1, <2>2 DEF TurnedOver
<1>6. SymDiff(old, new) = old \cup new
  BY <1>5 DEF SymDiff
<1>7. Odd(new) <=> Odd(bits)
  BY <1>4 DEF Odd
<1>8. Odd(SymDiff(old, new)) <=> ~(Odd(old) <=> Odd(new))
  BY <1>2, <1>4, OddDiff
<1>. QED  BY <1>5, <1>6, <1>7, <1>8

(* The inductive invariant: the two computations differ in an odd number of *)
(* bits if and only if the bytes computed so far do.                        *)
ParityInv ==
  /\ Odd(TurnedOver(sent, packet, pos - 1))
       <=> ~(OddRegister(crc) <=> OddRegister(intact))
  /\ pos <= covered
  /\ verdict \in {"received", "copied"} => pos = 0

LEMMA ParityInvInductive ==
  /\ ReplyInit => ParityInv
  /\ ReplyTypeOK /\ ParityInv /\ [ReplyNext]_replyVars => ParityInv'
<1>1. ASSUME ReplyInit PROVE ParityInv
  <2>1. pos = 0 /\ crc = intact
    BY <1>1 DEF ReplyInit, Starts
  <2>2. ~Odd(TurnedOver(sent, packet, pos - 1))
    BY <2>1, TurnedOverStart
  <2>3. pos <= covered
    <3>1. CASE ReplyArrives
      BY <2>1, <3>1 DEF ReplyArrives
    <3>2. CASE RequestPacked
      BY <2>1, <3>2, BytesAssumption, SizeType DEF RequestPacked, HeaderSize, BufferSize
    <3>. QED  BY <1>1, <3>1, <3>2 DEF ReplyInit
  <2>. QED  BY <2>1, <2>2, <2>3 DEF ParityInv
<1>2. ASSUME ReplyTypeOK, ParityInv, [ReplyNext]_replyVars PROVE ParityInv'
  <2>1. CASE CheckSize
    <3>1. pos = 0 /\ pos' = pos /\ covered' \in Nat
      BY <1>2, <2>1, ReplyNextType DEF CheckSize, ParityInv, ReplyTypeOK
    <3>. QED  BY <1>2, <2>1, <3>1 DEF CheckSize, ParityInv
  <2>2. CASE CalcByte
    <3>1. /\ pos \in Nat /\ packet' = packet /\ sent' = sent /\ pos' = pos + 1
          /\ crc' = AddByte(crc, packet[pos])
          /\ intact' = AddByte(intact, sent[pos])
      BY <1>2, <2>2, CalcByteFacts
    <3>2. /\ packet[pos] \in Byte /\ sent[pos] \in Byte
          /\ crc \in Register /\ intact \in Register
      BY <1>2, <2>2, CalcByteFacts
    <3>3. 0 .. pos \subseteq Cells
      BY <1>2, <2>2 DEF CalcByte, ReplyTypeOK, Cells, HeaderSize, BufferSize, CRC_SIZE
    <3>4. Odd(TurnedOver(sent, packet, pos))
            <=> ~(Odd(TurnedOver(sent, packet, pos - 1))
                    <=> Odd(SymDiff(sent[pos], packet[pos])))
      BY <1>2, <3>1, <3>3, TurnedOverNext DEF ReplyTypeOK
    <3>5. /\ OddRegister(crc') <=> ~(OddRegister(crc) <=> Odd(packet[pos]))
          /\ OddRegister(intact') <=> ~(OddRegister(intact) <=> Odd(sent[pos]))
      BY <3>1, <3>2, OddAddByte
    <3>6. Odd(SymDiff(sent[pos], packet[pos]))
            <=> ~(Odd(sent[pos]) <=> Odd(packet[pos]))
      BY <3>2, ByteFinite, OddDiff
    <3>7. Odd(TurnedOver(sent, packet, pos - 1))
            <=> ~(OddRegister(crc) <=> OddRegister(intact))
      BY <1>2 DEF ParityInv
    <3>8. Odd(TurnedOver(sent, packet, pos))
            <=> ~(OddRegister(crc') <=> OddRegister(intact'))
      BY <3>4, <3>5, <3>6, <3>7
    <3>9. /\ pos' - 1 = pos /\ pos' <= covered'
          /\ verdict' \notin {"received", "copied"}
      BY <1>2, <2>2, <3>1 DEF CalcByte, ReplyTypeOK
    <3>. QED  BY <3>1, <3>8, <3>9 DEF ParityInv
  <2>3. CASE CompareCrc
    BY <1>2, <2>3 DEF CompareCrc, ParityInv, ReplyTypeOK
  <2>4. CASE AppendCrc
    <3>1. TurnedOver(sent, packet', pos - 1) = TurnedOver(sent, packet, pos - 1)
      <4>1. \A j \in 0 .. (pos - 1) : packet'[j] = packet[j]
        BY <1>2, <2>4 DEF AppendCrc, ReplyTypeOK, Packets, Cells, HeaderSize,
                          BufferSize, CRC_SIZE
      <4>. QED  BY <4>1 DEF TurnedOver
    <3>. QED  BY <1>2, <2>4, <3>1 DEF AppendCrc, ParityInv
  <2>5. CASE CopyPayload
    BY <1>2, <2>5 DEF CopyPayload, ParityInv
  <2>6. CASE UNCHANGED replyVars
    BY <1>2, <2>6 DEF replyVars, ParityInv
  <2>. QED  BY <1>2, <2>1, <2>2, <2>3, <2>4, <2>5, <2>6 DEF ReplyNext
<1>. QED  BY <1>1, <1>2

LEMMA ParityInvSuffices ==
  ReplyTypeOK /\ RegisterInv /\ ParityInv => OddRefused
<1>. SUFFICES ASSUME ReplyTypeOK, RegisterInv, ParityInv,
                     verdict = "Success", EndFound
              PROVE  Cardinality(TurnedOver(sent, packet, covered + 1)) % 2 = 0
  BY DEF OddRefused
<1>1. /\ pos = covered /\ covered \in Nat
      /\ crc = Trailer(packet, covered) /\ intact = Trailer(sent, covered)
  BY DEF RegisterInv, ReplyTypeOK, EndFound
<1>2. sent \in Packets /\ packet \in Packets /\ 0 .. (covered + 1) \subseteq Cells
  BY DEF ReplyTypeOK, Cells, HeaderSize, BufferSize, CRC_SIZE
<1>3. /\ sent[covered] \in Byte /\ packet[covered] \in Byte
      /\ sent[covered + 1] \in Byte /\ packet[covered + 1] \in Byte
  BY <1>1, <1>2 DEF Packets
<1>4. Odd(TurnedOver(sent, packet, covered))
        <=> ~(Odd(TurnedOver(sent, packet, covered - 1))
                <=> Odd(SymDiff(sent[covered], packet[covered])))
  BY <1>1, <1>2, TurnedOverNext
<1>5. Odd(TurnedOver(sent, packet, covered + 1))
        <=> ~(Odd(TurnedOver(sent, packet, covered))
                <=> Odd(SymDiff(sent[covered + 1], packet[covered + 1])))
  <2>1. covered + 1 \in Nat /\ (covered + 1) - 1 = covered
    BY <1>1
  <2>2. Odd(TurnedOver(sent, packet, covered + 1))
        <=> ~(Odd(TurnedOver(sent, packet, (covered + 1) - 1))
                <=> Odd(SymDiff(sent[covered + 1], packet[covered + 1])))
    BY <1>2, <2>1, TurnedOverNext
  <2>. QED  BY <2>1, <2>2
<1>6. /\ Odd(SymDiff(sent[covered], packet[covered]))
           <=> ~(Odd(sent[covered]) <=> Odd(packet[covered]))
      /\ Odd(SymDiff(sent[covered + 1], packet[covered + 1]))
           <=> ~(Odd(sent[covered + 1]) <=> Odd(packet[covered + 1]))
  BY <1>3, ByteFinite, OddDiff
<1>7. /\ OddRegister(crc)
           <=> ~(Odd(packet[covered + 1]) <=> Odd(packet[covered]))
      /\ OddRegister(intact)
           <=> ~(Odd(sent[covered + 1]) <=> Odd(sent[covered]))
  BY <1>1 DEF OddRegister, Trailer
<1>8. Odd(TurnedOver(sent, packet, covered - 1))
        <=> ~(OddRegister(crc) <=> OddRegister(intact))
  BY <1>1 DEF ParityInv
<1>9. ~Odd(TurnedOver(sent, packet, covered + 1))
  BY <1>4, <1>5, <1>6, <1>7, <1>8
<1>10. Cardinality(TurnedOver(sent, packet, covered + 1)) \in Nat
  BY <1>1, TurnedOverFinite, FS_CardinalityType
<1>11. \A c \in Nat : c % 2 = 1 \/ c % 2 = 0
  OBVIOUS
<1>. QED  BY <1>9, <1>10, <1>11 DEF Odd

(* A reply with an odd number of disturbed bits is found too: the check     *)
(* value keeps the parity of what it is computed over.                      *)
THEOREM OddIsRefused == ReplySpec => []OddRefused
<1>1. ReplySpec => []ReplyTypeOK
  BY ReplyTypeCorrect
<1>2. ReplyInit => RegisterInv /\ ParityInv
  BY RegisterInvInductive, ParityInvInductive
<1>3. ReplyTypeOK /\ RegisterInv /\ ParityInv /\ [ReplyNext]_replyVars
        => RegisterInv' /\ ParityInv'
  BY RegisterInvInductive, ParityInvInductive
<1>4. ReplyTypeOK /\ RegisterInv /\ ParityInv => OddRefused
  BY ParityInvSuffices
<1>. QED  BY <1>1, <1>2, <1>3, <1>4, PTL DEF ReplySpec

-----------------------------------------------------------------------------
(* Undisturbed packets                                                      *)

(* A packet that carries the check value computed up to its place; f has    *)
(* the registers after every byte.                                          *)
Sealed(f, p, end) ==
  /\ f[0] = Preset
  /\ \A k \in 0 .. (end - 1) : f[k + 1] = AddByte(f[k], p[k])
  /\ f[end] = Trailer(p, end)

(* A reply whose length the code accepts, with the check value at its end.  *)
RightReply(reply) ==
  \A rest \in StackBytes :
    LET p == InBuffer(reply.bytes, rest)
    IN  /\ Length(p) \in 0 .. MaxPayload(reply.cmd)
        /\ \E f : Sealed(f, p, HeaderSize + Length(p))

(* The inductive invariant: the computation is on the way to the value the  *)
(* packet carries.                                                          *)
OnTheWay == \E f : Sealed(f, sent, covered) /\ f[pos] = intact

ReplySealInv ==
  /\ verdict \in {"received", "copied"} =>
       /\ pos = 0 /\ intact = Preset
       /\ Length(sent) \in 0 .. MaxPayload(cmd)
       /\ \E f : Sealed(f, sent, HeaderSize + Length(sent))
  /\ verdict = "checking" /\ packet = sent => OnTheWay
  /\ RecordedAccepted /\ CopyFits

(* One byte further on the way.                                             *)
LEMMA CalcByteOnTheWay ==
  ReplyTypeOK /\ CalcByte /\ OnTheWay => OnTheWay'
<1>. SUFFICES ASSUME ReplyTypeOK, CalcByte, OnTheWay PROVE OnTheWay'
  OBVIOUS
<1>1. PICK f : Sealed(f, sent, covered) /\ f[pos] = intact
  BY DEF OnTheWay
<1>2. /\ pos \in 0 .. (covered - 1) /\ pos' = pos + 1 /\ sent' = sent
      /\ covered' = covered /\ intact' = AddByte(intact, sent[pos])
  BY DEF CalcByte, ReplyTypeOK
<1>3. f[pos'] = intact'
  BY <1>1, <1>2 DEF Sealed
<1>4. Sealed(f, sent', covered')
  BY <1>1, <1>2
<1>. QED  BY <1>3, <1>4 DEF OnTheWay

LEMMA ReplySealInvInductive ==
  ASSUME \A reply \in Replies : RightReply(reply)
  PROVE  /\ ReplyInit => ReplySealInv
         /\ ReplyTypeOK /\ RegisterInv /\ ReplySealInv /\ [ReplyNext]_replyVars
              => ReplySealInv'
<1>1. ASSUME ReplyInit PROVE ReplySealInv
  <2>1. CASE ReplyArrives
    <3>1. PICK reply \in Replies, rest \in StackBytes :
            /\ cmd = reply.cmd /\ sent = InBuffer(reply.bytes, rest)
            /\ verdict = "received"
      BY <2>1 DEF ReplyArrives
    <3>2. RightReply(reply)
      OBVIOUS
    <3>3. pos = 0 /\ intact = Preset
      BY <1>1 DEF ReplyInit, Starts
    <3>. QED  BY <3>1, <3>2, <3>3
              DEF RightReply, ReplySealInv, RecordedAccepted, CopyFits
  <2>2. CASE RequestPacked
    BY <2>2 DEF RequestPacked, ReplySealInv, RecordedAccepted, CopyFits
  <2>. QED  BY <1>1, <2>1, <2>2 DEF ReplyInit
<1>2. ASSUME ReplyTypeOK, RegisterInv, ReplySealInv, [ReplyNext]_replyVars
      PROVE  ReplySealInv'
  <2>1. CASE CheckSize
    <3>1. CASE packet = sent
      <4>1. /\ Length(packet) \in 0 .. MaxPayload(cmd)
            /\ \E f : Sealed(f, sent, HeaderSize + Length(packet))
            /\ pos = 0 /\ intact = Preset
        BY <1>2, <2>1, <3>1 DEF CheckSize, ReplySealInv
      <4>2. /\ covered' = HeaderSize + Length(packet) /\ verdict' = "checking"
            /\ sent' = sent /\ pos' = 0 /\ intact' = Preset
        BY <2>1, <4>1 DEF CheckSize
      <4>3. PICK f : Sealed(f, sent, HeaderSize + Length(packet))
        BY <4>1
      <4>4. f[pos'] = intact'
        BY <4>2, <4>3 DEF Sealed
      <4>5. OnTheWay'
        BY <4>2, <4>3, <4>4 DEF OnTheWay
      <4>. QED  BY <4>2, <4>5 DEF ReplySealInv, RecordedAccepted, CopyFits
    <3>2. CASE packet # sent
      BY <2>1, <3>2 DEF CheckSize, ReplySealInv, RecordedAccepted, CopyFits
    <3>. QED  BY <3>1, <3>2
  <2>2. CASE CalcByte
    <3>1. packet' = packet /\ sent' = sent /\ verdict' = verdict
          /\ verdict \in {"checking", "packing"}
      BY <2>2 DEF CalcByte
    <3>2. OnTheWay => OnTheWay'
      BY <1>2, <2>2, CalcByteOnTheWay
    <3>. QED  BY <1>2, <3>1, <3>2 DEF ReplySealInv, RecordedAccepted, CopyFits
  <2>3. CASE CompareCrc
    <3>1. ASSUME packet = sent PROVE verdict' = "Success"
      <4>1. PICK f : Sealed(f, sent, covered) /\ f[pos] = intact
        BY <1>2, <2>3, <3>1 DEF CompareCrc, ReplySealInv, OnTheWay
      <4>2. intact = Trailer(packet, covered)
        BY <2>3, <3>1, <4>1 DEF CompareCrc, Sealed
      <4>3. crc = intact
        BY <1>2, <3>1 DEF RegisterInv, Agree
      <4>. QED  BY <2>3, <4>2, <4>3 DEF CompareCrc
    <3>2. packet' = packet /\ sent' = sent /\ verdict' \in {"Success", "BadCRC"}
      BY <2>3 DEF CompareCrc
    <3>. QED  BY <3>1, <3>2 DEF ReplySealInv, RecordedAccepted, CopyFits
  <2>4. CASE AppendCrc
    BY <2>4 DEF AppendCrc, ReplySealInv, RecordedAccepted, CopyFits
  <2>5. CASE CopyPayload
    <3>1. MaxPayload(cmd) \in 0 .. BufferSize
      BY <1>2, SizeType DEF ReplyTypeOK
    <3>2. evsePayloadSize(cmd) # 0 => CopySize <= BufferSize
      BY DEF CopySize, evsePayloadSize, BufferSize
    <3>3. Length(sent) <= BufferSize
      BY <1>2, <2>5, <3>1 DEF CopyPayload, ReplySealInv, BufferSize
    <3>4. verdict' = "Overrun"
            => evsePayloadSize(cmd) = 0 /\ Length(packet) # Length(sent)
      BY <2>5, <3>2, <3>3 DEF CopyPayload, CopySize
    <3>5. /\ verdict = "received" /\ verdict' \in {"copied", "Overrun"}
          /\ cmd' = cmd /\ sent' = sent /\ packet' = packet
          /\ pos' = pos /\ intact' = intact
      BY <2>5 DEF CopyPayload
    <3>. QED  BY <1>2, <3>4, <3>5
              DEF ReplySealInv, RecordedAccepted, CopyFits
  <2>6. CASE UNCHANGED replyVars
    BY <1>2, <2>6
       DEF replyVars, ReplySealInv, RecordedAccepted, OnTheWay, CopyFits
  <2>. QED  BY <1>2, <2>1, <2>2, <2>3, <2>4, <2>5, <2>6 DEF ReplyNext
<1>. QED  BY <1>1, <1>2

(* Whatever the replies: one with a length the code accepts and the check   *)
(* value of CRC16_Calc at its end passes when nothing has disturbed it.     *)
THEOREM RecordedIsAccepted ==
  ASSUME \A reply \in Replies : RightReply(reply)
  PROVE  ReplySpec => []RecordedAccepted
<1>1. ReplySpec => []ReplyTypeOK
  BY ReplyTypeCorrect
<1>2. ReplyInit => RegisterInv /\ ReplySealInv
  BY RegisterInvInductive, ReplySealInvInductive
<1>3. ReplyTypeOK /\ RegisterInv /\ ReplySealInv /\ [ReplyNext]_replyVars
        => RegisterInv' /\ ReplySealInv'
  BY RegisterInvInductive, ReplySealInvInductive
<1>4. ReplySealInv => RecordedAccepted
  BY DEF ReplySealInv
<1>. QED  BY <1>1, <1>2, <1>3, <1>4, PTL DEF ReplySpec

(* Nothing looks at the length a reply states before the payload is copied  *)
(* for the log: the copy leaves its string only when the link has changed   *)
(* the length of a reply the code would have accepted.                      *)
THEOREM CopiesFit ==
  ASSUME \A reply \in Replies : RightReply(reply)
  PROVE  ReplySpec => []CopyFits
<1>1. ReplySpec => []ReplyTypeOK
  BY ReplyTypeCorrect
<1>2. ReplyInit => RegisterInv /\ ReplySealInv
  BY RegisterInvInductive, ReplySealInvInductive
<1>3. ReplyTypeOK /\ RegisterInv /\ ReplySealInv /\ [ReplyNext]_replyVars
        => RegisterInv' /\ ReplySealInv'
  BY RegisterInvInductive, ReplySealInvInductive
<1>4. ReplySealInv => CopyFits
  BY DEF ReplySealInv
<1>. QED  BY <1>1, <1>2, <1>3, <1>4, PTL DEF ReplySpec

(* A reply that ends where its length says.                                 *)
WholeReply(reply) ==
  \A rest \in StackBytes :
    DOMAIN reply.bytes
      = 0 .. (HeaderSize + Length(InBuffer(reply.bytes, rest)) + 1)

ReplyEnd == HeaderSize + Length(sent)

(* What a burst does to a whole reply: it stays within the reply, and when  *)
(* it spares the length the end is found where the sender put it.           *)
BurstInv ==
  /\ verdict \in {"received", "copied", "checking", "Success"} =>
       /\ Length(sent) \in 0 .. BufferSize
       /\ \E i \in 0 .. (ReplyEnd + 1) : \A j \in Cells :
            packet[j] # sent[j] => j \in {i, i + 1} /\ j \in 0 .. (ReplyEnd + 1)
  /\ verdict \in {"received", "copied"} =>
       pos = 0 /\ intact = Preset /\ \E f : Sealed(f, sent, ReplyEnd)
  /\ verdict \in {"checking", "Success"} /\ Length(packet) = Length(sent) =>
       covered = ReplyEnd /\ OnTheWay

LEMMA BurstInvInit ==
  ASSUME \A reply \in Replies : RightReply(reply) /\ WholeReply(reply),
         \A noise \in Noise : DOMAIN noise \subseteq {0, 1}
  PROVE  ReplyInit => BurstInv
<1>. SUFFICES ASSUME ReplyInit PROVE BurstInv
  OBVIOUS
<1>1. CASE RequestPacked
  BY <1>1 DEF RequestPacked, BurstInv
<1>2. CASE ReplyArrives
  <2>1. PICK reply \in Replies, rest \in StackBytes, noise \in Noise :
          /\ cmd = reply.cmd /\ sent = InBuffer(reply.bytes, rest)
          /\ verdict = "received"
          /\ \E i \in DOMAIN reply.bytes : packet = [j \in Cells |->
               IF j \in DOMAIN reply.bytes /\ j - i \in DOMAIN noise
                 THEN SymDiff(sent[j], noise[j - i]) ELSE sent[j]]
    BY <1>2 DEF ReplyArrives
  <2>2. PICK i \in DOMAIN reply.bytes : packet = [j \in Cells |->
               IF j \in DOMAIN reply.bytes /\ j - i \in DOMAIN noise
                 THEN SymDiff(sent[j], noise[j - i]) ELSE sent[j]]
    BY <2>1
  <2>3. RightReply(reply) /\ WholeReply(reply) /\ DOMAIN noise \subseteq {0, 1}
        /\ reply.cmd \in Commands
    BY BytesAssumption
  <2>4. /\ Length(sent) \in 0 .. MaxPayload(cmd)
        /\ \E f : Sealed(f, sent, ReplyEnd)
        /\ DOMAIN reply.bytes = 0 .. (ReplyEnd + 1)
    BY <2>1, <2>3 DEF RightReply, WholeReply, ReplyEnd
  <2>5. Length(sent) \in 0 .. BufferSize
    <3>1. MaxPayload(cmd) \in 0 .. BufferSize
      BY <2>1, <2>3, SizeType
    <3>2. \A n \in 0 .. BufferSize : 0 .. n \subseteq 0 .. BufferSize
      BY DEF BufferSize
    <3>. QED  BY <2>4, <3>1, <3>2
  <2>6. ASSUME NEW j \in Cells, packet[j] # sent[j]
        PROVE  j \in {i, i + 1} /\ j \in 0 .. (ReplyEnd + 1)
    <3>1. j \in DOMAIN reply.bytes /\ j - i \in {0, 1}
      BY <2>3, <2>6, <2>2
    <3>2. i \in Int /\ j \in Int
      BY <2>4, <3>1
    <3>. QED  BY <2>4, <3>1, <3>2
  <2>7. pos = 0 /\ intact = Preset
    BY DEF ReplyInit, Starts
  <2>. QED  BY <2>1, <2>4, <2>5, <2>6, <2>7 DEF BurstInv
<1>. QED  BY <1>1, <1>2 DEF ReplyInit

LEMMA BurstInvNext ==
  ReplyTypeOK /\ BurstInv /\ [ReplyNext]_replyVars => BurstInv'
<1>. SUFFICES ASSUME ReplyTypeOK, BurstInv, [ReplyNext]_replyVars PROVE BurstInv'
  OBVIOUS
<1>1. CASE CheckSize
  <2>1. /\ verdict = "copied" /\ verdict' \in {"checking", "BadSize"}
        /\ sent' = sent /\ packet' = packet /\ pos' = pos /\ intact' = intact
        /\ verdict' = "checking" => covered' = HeaderSize + Length(packet)
    BY <1>1 DEF CheckSize
  <2>2. PICK f : Sealed(f, sent, ReplyEnd)
    BY <2>1 DEF BurstInv
  <2>3. pos = 0 /\ intact = Preset /\ f[0] = Preset
    BY <2>1, <2>2 DEF BurstInv, Sealed
  <2>4. ASSUME verdict' = "checking", Length(packet) = Length(sent)
        PROVE  covered' = ReplyEnd' /\ OnTheWay'
    <3>1. covered' = ReplyEnd /\ ReplyEnd' = ReplyEnd
      BY <2>1, <2>4 DEF ReplyEnd
    <3>2. Sealed(f, sent', covered') /\ f[pos'] = intact'
      BY <2>1, <2>2, <2>3, <3>1
    <3>. QED  BY <3>1, <3>2 DEF OnTheWay
  <2>. QED  BY <2>1, <2>4 DEF BurstInv, ReplyEnd
<1>2. CASE CalcByte
  <2>1. /\ sent' = sent /\ packet' = packet /\ covered' = covered
        /\ verdict' = verdict /\ verdict \in {"checking", "packing"}
    BY <1>2 DEF CalcByte
  <2>2. OnTheWay => OnTheWay'
    BY <1>2, CalcByteOnTheWay
  <2>. QED  BY <2>1, <2>2 DEF BurstInv, ReplyEnd
<1>3. CASE CompareCrc
  BY <1>3 DEF CompareCrc, BurstInv, ReplyEnd, OnTheWay
<1>4. CASE AppendCrc
  BY <1>4 DEF AppendCrc, BurstInv
<1>5. CASE CopyPayload
  BY <1>5 DEF CopyPayload, BurstInv, ReplyEnd
<1>6. CASE UNCHANGED replyVars
  BY <1>6 DEF replyVars, BurstInv, ReplyEnd, OnTheWay
<1>. QED  BY <1>1, <1>2, <1>3, <1>4, <1>5, <1>6 DEF ReplyNext

LEMMA BurstInvSuffices ==
  ReplyTypeOK /\ RegisterInv /\ BurstRefused /\ BurstInv
    => (Length(packet) = Length(sent) => NoiseRefused)
<1>. SUFFICES ASSUME ReplyTypeOK, RegisterInv, BurstRefused, BurstInv,
                     Length(packet) = Length(sent), verdict = "Success"
              PROVE  packet = sent
  BY DEF NoiseRefused
<1>1. covered = ReplyEnd /\ OnTheWay /\ pos = covered
  BY DEF BurstInv, RegisterInv
<1>2. EndFound
  BY <1>1 DEF OnTheWay, Sealed, EndFound
<1>3. PICK i \in 0 .. (covered + 1) : \A j \in Cells :
         packet[j] # sent[j] => j \in {i, i + 1} /\ j \in 0 .. (covered + 1)
  BY <1>1 DEF BurstInv
<1>4. 0 .. (covered + 1) \subseteq Cells
  BY DEF ReplyTypeOK, Cells, HeaderSize, BufferSize, CRC_SIZE
<1>5. Disturbed \subseteq {i, i + 1}
  BY <1>3, <1>4 DEF Disturbed
<1>6. Disturbed = {}
  BY <1>2, <1>5 DEF BurstRefused
<1>7. \A j \in Cells : packet[j] = sent[j]
  BY <1>3, <1>6 DEF Disturbed
<1>. QED  BY <1>7 DEF ReplyTypeOK, Packets

(* A burst of two bytes that spares the two bytes of the length never gets  *)
(* a reply accepted, whatever the replies are and wherever it strikes.      *)
THEOREM NoiseIsRefused ==
  ASSUME \A reply \in Replies : RightReply(reply) /\ WholeReply(reply),
         \A noise \in Noise : DOMAIN noise \subseteq {0, 1}
  PROVE  ReplySpec => [](Length(packet) = Length(sent) => NoiseRefused)
<1>1. ReplySpec => [](ReplyTypeOK /\ BurstRefused)
  BY ReplyTypeCorrect, BurstIsRefused, PTL
<1>2. ReplyInit => RegisterInv /\ BurstInv
  BY RegisterInvInductive, BurstInvInit
<1>3. ReplyTypeOK /\ RegisterInv /\ BurstInv /\ [ReplyNext]_replyVars
        => RegisterInv' /\ BurstInv'
  BY RegisterInvInductive, BurstInvNext
<1>4. ReplyTypeOK /\ RegisterInv /\ BurstRefused /\ BurstInv
        => (Length(packet) = Length(sent) => NoiseRefused)
  BY BurstInvSuffices
<1>. QED  BY <1>1, <1>2, <1>3, <1>4, PTL DEF ReplySpec

-----------------------------------------------------------------------------
(* Requests                                                                 *)

(* The inductive invariant: the length stays as it was packed, and the      *)
(* value computed so far is that of the bytes the request has in the end.   *)
PackInv ==
  verdict \in {"packing", "packed"} =>
    /\ covered = HeaderSize + PackedSize(cmd)
    /\ Length(packet) = StatedLength(cmd)
    /\ \E f : /\ f[0] = Preset
              /\ \A k \in 0 .. (pos - 1) : f[k + 1] = AddByte(f[k], packet[k])
              /\ f[pos] = crc
    /\ verdict = "packed" => pos = covered /\ crc = Trailer(packet, covered)

LEMMA PackInvInit == ReplyInit => PackInv
<1>. SUFFICES ASSUME ReplyInit PROVE PackInv
  OBVIOUS
<1>1. CASE ReplyArrives
  BY <1>1 DEF ReplyArrives, PackInv
<1>2. CASE RequestPacked
  <2>1. /\ cmd \in Commands /\ packet = PackedBytes(cmd)
        /\ covered = HeaderSize + PackedSize(cmd) /\ verdict = "packing"
    BY <1>2, BytesAssumption DEF RequestPacked
  <2>2. pos = 0 /\ crc = Preset
    BY DEF ReplyInit, Starts
  <2>3. [k \in {0} |-> Preset][0] = Preset /\ 0 .. (pos - 1) = {}
    BY <2>2
  <2>4. \E f : /\ f[0] = Preset
               /\ \A k \in 0 .. (pos - 1) : f[k + 1] = AddByte(f[k], packet[k])
               /\ f[pos] = crc
    BY <2>2, <2>3
  <2>. QED  BY <2>1, <2>4, PackedBytesType DEF PackInv
<1>. QED  BY <1>1, <1>2 DEF ReplyInit

(* One turn of the loop makes the registers' history one longer.            *)
LEMMA PackInvCalcByte ==
  ReplyTypeOK /\ PackInv /\ CalcByte => PackInv'
<1>. SUFFICES ASSUME ReplyTypeOK, PackInv, CalcByte, verdict = "packing"
              PROVE  PackInv'
  BY DEF CalcByte, PackInv
<1>1. /\ pos \in Nat /\ packet' = packet /\ pos' = pos + 1
      /\ crc' = AddByte(crc, packet[pos])
  BY CalcByteFacts
<1>2. covered' = covered /\ cmd' = cmd /\ verdict' = "packing"
  BY DEF CalcByte
<1>3. PICK f : /\ f[0] = Preset
               /\ \A k \in 0 .. (pos - 1) : f[k + 1] = AddByte(f[k], packet[k])
               /\ f[pos] = crc
  BY DEF PackInv
<1>. DEFINE g == [k \in 0 .. (pos + 1) |-> IF k = pos + 1 THEN crc' ELSE f[k]]
<1>4. g[0] = Preset /\ g[pos'] = crc'
  BY <1>1, <1>3
<1>5. ASSUME NEW k \in 0 .. pos PROVE g[k + 1] = AddByte(g[k], packet[k])
  <2>1. g[k] = f[k]
    BY <1>1
  <2>2. CASE k = pos
    <3>1. g[k + 1] = crc'
      BY <1>1, <2>2
    <3>. QED  BY <1>1, <1>3, <2>1, <2>2, <3>1
  <2>3. CASE k # pos
    <3>1. k \in 0 .. (pos - 1) /\ g[k + 1] = f[k + 1]
      BY <1>1, <2>3
    <3>. QED  BY <1>3, <2>1, <3>1
  <2>. QED  BY <2>2, <2>3
<1>. HIDE DEF g
<1>6. pos' - 1 = pos
  BY <1>1
<1>7. \E h : /\ h[0] = Preset
             /\ \A k \in 0 .. (pos' - 1) : h[k + 1] = AddByte(h[k], packet'[k])
             /\ h[pos'] = crc'
  BY <1>1, <1>4, <1>5, <1>6
<1>. QED  BY <1>1, <1>2, <1>7 DEF PackInv

LEMMA PackInvNext ==
  ReplyTypeOK /\ PackInv /\ [ReplyNext]_replyVars => PackInv'
<1>. SUFFICES ASSUME ReplyTypeOK, PackInv, [ReplyNext]_replyVars PROVE PackInv'
  OBVIOUS
<1>1. CASE CopyPayload \/ CheckSize \/ CompareCrc
  BY <1>1 DEF CopyPayload, CheckSize, CompareCrc, PackInv
<1>2. CASE CalcByte
  BY <1>2, PackInvCalcByte
<1>3. CASE AppendCrc
  <2>1. /\ pos = covered /\ verdict = "packing" /\ verdict' = "packed"
        /\ pos' = pos /\ crc' = crc /\ covered' = covered /\ cmd' = cmd
        /\ packet' = [packet EXCEPT ![covered] = crc.l, ![covered + 1] = crc.h]
    BY <1>3 DEF AppendCrc
  <2>2. PackedSize(cmd) \in Nat /\ covered = HeaderSize + PackedSize(cmd)
    BY <2>1, SizeType DEF PackInv, ReplyTypeOK, BufferSize
  <2>3. /\ {covered, covered + 1} \subseteq Cells /\ covered > 10
        /\ \A k \in 0 .. (pos - 1) : packet'[k] = packet[k]
    <3>1. /\ covered \in 0 .. (11 + 256) /\ Cells = 0 .. 268
          /\ packet \in [Cells -> Byte]
      BY DEF ReplyTypeOK, Packets, Cells, HeaderSize, BufferSize, CRC_SIZE
    <3>2. covered > 10
      BY <2>2 DEF HeaderSize
    <3>3. \A k \in 0 .. (pos - 1) :
             k \in Cells /\ k # covered /\ k # covered + 1
      BY <2>1, <3>1
    <3>. QED  BY <2>1, <3>1, <3>2, <3>3
  <2>4. Length(packet') = Length(packet)
    <3>1. 9 \in Cells /\ 10 \in Cells
      BY DEF Cells, HeaderSize, BufferSize, CRC_SIZE
    <3>2. packet'[9] = packet[9] /\ packet'[10] = packet[10]
      BY <2>1, <2>2, <2>3, <3>1 DEF ReplyTypeOK, Packets
    <3>. QED  BY <3>2 DEF Length
  <2>5. /\ packet'[covered] = crc.l /\ packet'[covered + 1] = crc.h
        /\ crc = [h |-> crc.h, l |-> crc.l]
    BY <2>1, <2>2, <2>3 DEF ReplyTypeOK, Packets, Register
  <2>6. crc = Trailer(packet', covered)
    BY <2>5 DEF Trailer
  <2>. QED  BY <2>1, <2>3, <2>4, <2>6 DEF PackInv
<1>4. CASE UNCHANGED replyVars
  BY <1>4 DEF replyVars, PackInv
<1>. QED  BY <1>1, <1>2, <1>3, <1>4 DEF ReplyNext

(* Whatever the texts: a request that packet_ProtocolRequest has finished   *)
(* passes the check the SECC itself makes of a reply, the check value       *)
(* stands where the stated length says it ends.  Not so for getRFIDState,   *)
(* whose stated length leaves its text out.                                 *)
THEOREM RequestsCheckOut ==
  ReplySpec => [](verdict = "packed" /\ cmd # "grfstate"
                    => \E f : Sealed(f, packet, HeaderSize + Length(packet)))
<1>1. ReplySpec => []ReplyTypeOK
  BY ReplyTypeCorrect
<1>2. ReplyTypeOK /\ PackInv /\ verdict = "packed" /\ cmd # "grfstate"
        => \E f : Sealed(f, packet, HeaderSize + Length(packet))
  <2>. SUFFICES ASSUME ReplyTypeOK, PackInv, verdict = "packed",
                       cmd # "grfstate"
                PROVE  \E f : Sealed(f, packet, HeaderSize + Length(packet))
    OBVIOUS
  <2>1. StatedLength(cmd) = PackedSize(cmd)
    BY DEF StatedLength, PackedSize, ReplyTypeOK, Commands
  <2>2. covered = HeaderSize + Length(packet)
    BY <2>1 DEF PackInv
  <2>. QED  BY <2>2 DEF PackInv, Sealed
<1>. QED  BY <1>1, <1>2, PackInvInit, PackInvNext, PTL DEF ReplySpec

=============================================================================
