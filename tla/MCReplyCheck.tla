---------------------------- MODULE MCReplyCheck ----------------------------
(***************************************************************************)
(* The check value on the traffic with the EVSE that the repository has    *)
(* recorded in test/ocpp_serial.ack, one definition for each of its lines. *)
(* The replies to setTime and getConfig are not among them: the one        *)
(* recorded is another reply to getTime, the other has no check value.     *)
(***************************************************************************)
EXTENDS ReplyCheck, Sequences

(* A recorded line: its bytes, counted from 0.                              *)
Recorded(line) == [i \in 0 .. (Len(line) - 1) |-> ByteOf(line[i + 1])]

(* Line 4.                                                                  *)
getTimeRequest ==
  <<\h67, \h65, \h74, \h74, \h69, \h6D, \h65, \h20, \h01, \h00, \h00, \h47,
    \h59>>

(* Line 6.                                                                  *)
getTimeReply ==
  <<\h67, \h65, \h74, \h74, \h69, \h6D, \h65, \h20, \h01, \h00, \h25, \h7B,
    \h22, \h63, \h75, \h72, \h72, \h65, \h6E, \h74, \h54, \h69, \h6D, \h65,
    \h22, \h3A, \h22, \h32, \h30, \h32, \h31, \h2D, \h31, \h31, \h2D, \h31,
    \h38, \h54, \h30, \h38, \h3A, \h32, \h38, \h3A, \h35, \h39, \h22, \h7D,
    \h26, \h31>>

(* Line 9.                                                                  *)
setTimeRequest ==
  <<\h73, \h65, \h74, \h74, \h69, \h6D, \h65, \h20, \h01, \h00, \h25, \h7B,
    \h22, \h63, \h75, \h72, \h72, \h65, \h6E, \h74, \h54, \h69, \h6D, \h65,
    \h22, \h3A, \h22, \h32, \h30, \h32, \h32, \h2D, \h30, \h32, \h2D, \h32,
    \h32, \h54, \h32, \h32, \h3A, \h32, \h32, \h3A, \h32, \h32, \h22, \h7D,
    \h90, \hAA>>

(* Line 14.                                                                 *)
getConfigRequest ==
  <<\h67, \h63, \h6F, \h6E, \h65, \h76, \h73, \h65, \h01, \h00, \h16, \h7B,
    \h22, \h6B, \h65, \h79, \h22, \h3A, \h5B, \h22, \h70, \h6F, \h77, \h65,
    \h72, \h4C, \h69, \h6D, \h69, \h74, \h22, \h5D, \h7D, \h49, \h48>>

(* Line 19.                                                                 *)
getEVSEStateRequest ==
  <<\h67, \h73, \h79, \h73, \h73, \h74, \h61, \h74, \h01, \h00, \h00, \hE7,
    \h9D>>

(* Line 21.                                                                 *)
getEVSEStateReply ==
  <<\h67, \h73, \h79, \h73, \h73, \h74, \h61, \h74, \h00, \h00, \h0F, \h7B,
    \h22, \h50, \h50, \h22, \h3A, \h31, \h2C, \h22, \h43, \h50, \h22, \h3A,
    \h32, \h7D, \hDE, \h3C>>

(* Line 24.                                                                 *)
getRFIDStateRequest ==
  <<\h67, \h72, \h66, \h73, \h74, \h61, \h74, \h65, \h01, \h00, \h00, \h7B,
    \h22, \h6B, \h65, \h79, \h22, \h3A, \h5B, \h22, \h53, \h74, \h61, \h74,
    \h65, \h52, \h46, \h49, \h44, \h22, \h5D, \h7D, \h46, \h92>>

(* Line 26.                                                                 *)
getRFIDStateReply ==
  <<\h67, \h72, \h66, \h73, \h74, \h61, \h74, \h65, \h00, \h00, \h21, \h7B,
    \h22, \h52, \h46, \h49, \h44, \h53, \h74, \h61, \h74, \h65, \h22, \h3A,
    \h38, \h2C, \h22, \h52, \h46, \h49, \h44, \h22, \h3A, \h22, \h31, \h30,
    \h32, \h30, \h31, \h32, \h33, \h34, \h22, \h7D, \h56, \h08>>

-----------------------------------------------------------------------------
(* The texts in ProtocolEVSE.cpp.  The characters from the space on, in the *)
(* order of their codes; an underline keeps the place of the back quote.    *)
Printable ==
  " !\"#$%&'()*+,-./0123456789:;<=>?@ABCDEFGHIJKLMNOPQRSTUVWXYZ[\\]"
    \o "^__abcdefghijklmnopqrstuvwxyz{|}~"

Code(char) ==
  31 + CHOOSE n \in 1 .. Len(Printable) : SubSeq(Printable, n, n) = char

Text(string) ==
  [i \in 0 .. (Len(string) - 1) |->
    ByteOf(Code(SubSeq(string, i + 1, i + 1)))]

(* protocolCommand: padded to eight characters.                             *)
CommandNames ==
  [command \in Commands |->
    Text(IF command \in {"settime", "gettime"} THEN command \o " "
                                               ELSE command)]

RequestTexts ==
  [command \in Commands |->
    CASE command \in {"gettime", "gsysstat"} -> Text("")
      [] command = "settime"
           -> Text("{\"currentTime\":\"2022-02-22T22:22:22\"}")
      [] command = "gconevse" -> Text("{\"key\":[\"powerLimit\"]}")
      [] command = "grfstate" -> Text("{\"key\":[\"StateRFID\"]}")]

-----------------------------------------------------------------------------
RecordedReplies ==
  {[cmd |-> "gettime", bytes |-> Recorded(getTimeReply)],
   [cmd |-> "gsysstat", bytes |-> Recorded(getEVSEStateReply)],
   [cmd |-> "grfstate", bytes |-> Recorded(getRFIDStateReply)]}

RecordedRequests ==
  {[cmd |-> "gettime", bytes |-> Recorded(getTimeRequest)],
   [cmd |-> "settime", bytes |-> Recorded(setTimeRequest)],
   [cmd |-> "gconevse", bytes |-> Recorded(getConfigRequest)],
   [cmd |-> "gsysstat", bytes |-> Recorded(getEVSEStateRequest)]}

RfidRequest ==
  {[cmd |-> "grfstate", bytes |-> Recorded(getRFIDStateRequest)]}

(* In two bytes next to each other: one bit, all eight or none.             *)
Bursts == [0 .. 1 -> {{bit} : bit \in Bits} \cup {Bits, {}}]

(* One bit in each of three bytes that are not next to each other.          *)
Scattered ==
  {[d \in {0, gap, 7} |-> {(bit + d) % 8}] : gap \in {2, 5}, bit \in Bits}

BurstsOrScattered == Bursts \cup Scattered
ZeroBytes == {{}}

(* test/ocpp_serial.ack:24 records getRFIDState with the check value of its *)
(* header alone, which states a length of 0; the code covers the payload.   *)
RfidRequestAsRecorded == verdict = "packed" => packet = sent

=============================================================================
