----------------------------- MODULE ByteQueue ------------------------------
(***************************************************************************)
(* What the user of a TCP client may rely on: the bytes the peer sent come *)
(* out once and in order, and none is passed over but by a flush.  Bytes   *)
(* are numbered from 1 in the order in which the peer sent them.           *)
(***************************************************************************)
EXTENDS Naturals

VARIABLES
  open,       \* there is a connection
  flushing,   \* the user is throwing received bytes away
  arrived,    \* number of bytes received
  pending,    \* received bytes the user has not got yet
  last        \* the last byte the user got

queueVars == <<open, flushing, arrived, pending, last>>

Empty == arrived = 0 /\ pending = {} /\ last = 0

Init == open = FALSE /\ flushing = FALSE /\ Empty

Connect == open' = TRUE /\ flushing' = FALSE /\ Empty'

(* The connection ends, and what was pending is gone.                       *)
Close == open' = FALSE /\ flushing' = FALSE /\ Empty'

Arrive ==
  /\ open
  /\ arrived' = arrived + 1
  /\ pending' = pending \cup {arrived'}
  /\ UNCHANGED <<open, flushing, last>>

(* The user gets the pending bytes up to one of them, and no byte twice.    *)
Deliver ==
  /\ ~flushing
  /\ \E byte \in pending :
       /\ last' = byte
       /\ pending' = {later \in pending : later > byte}
  /\ UNCHANGED <<open, flushing, arrived>>

Flush ==
  \/ /\ flushing' = TRUE
     /\ UNCHANGED <<open, arrived, pending, last>>
  \/ /\ flushing
     /\ flushing' \in BOOLEAN
     /\ pending' \subseteq pending
     /\ UNCHANGED <<open, arrived, last>>

Next == Connect \/ Close \/ Arrive \/ Deliver \/ Flush

Spec == Init /\ [][Next]_queueVars

=============================================================================
