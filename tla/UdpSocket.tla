-------------------------------- MODULE UdpSocket --------------------------------
(***************************************************************************)
(* bsp/ethernet/net/udp_socket over LwIP: one task opens a socket, sends,  *)
(* receives and closes, while datagrams arrive and sockets run out between *)
(* the calls it makes of LwIP.                                             *)
(***************************************************************************)
EXTENDS Integers, Sequences

CONSTANTS
  Fds,         \* LwIP's sockets
  PortByte,    \* 256 in the code
  Ports, Lengths,
  Buffers,     \* lengths of the buffers handed in
  Mailbox,     \* datagrams LwIP keeps for a socket
  MaxArrivals  \* bound: datagrams it accepts for one

(* A port is two bytes, and 0 is nobody's.  The others are what the types  *)
(* of the code give: sockets and lengths are not negative.                 *)
ASSUME UdpAssumption ==
  /\ Fds \subseteq Nat /\ Lengths \subseteq Nat /\ Buffers \subseteq Nat
  /\ PortByte \in Nat \ {0}
  /\ Ports \subseteq 1 .. (PortByte * PortByte - 1)

VARIABLES
  others,    \* LwIP: the sockets in use by others,
  mine,      \* and those the object has asked for and not closed
  queue,     \* LwIP: [source, length] of what waits for the socket
  fd,        \* fd_
  step,      \* the LwIP call it stands before, "none" outside
  call,      \* what the latest open() or receiveFrom() was called with
  result,    \* what the latest call answered
  accepted,  \* ghost: [port, length] of what came for the socket
  answered   \* ghost: how many of them were received

lwip == <<others, mine, queue, accepted>>
udpVars == <<lwip, fd, step, call, result, answered>>

WaitForever == -1

Answer(error) == [error |-> error, size |-> 0, source |-> 0, truncated |-> FALSE]

(* lwip_htons() and lwip_ntohs() *)
Swapped(port) == (port % PortByte) * PortByte + port \div PortByte

UdpInit ==
  /\ others \in SUBSET Fds /\ mine = {} /\ queue = <<>>
  /\ fd = -1 /\ step = "none" /\ call = [buffer |-> 0, timeout |-> 0]
  /\ result = Answer("0") /\ accepted = <<>> /\ answered = 0

-----------------------------------------------------------------------------
(* LwIP *)

(* A datagram arrives for the socket; one too many is lost. *)
Arrive(port, length) ==
  /\ fd >= 0 /\ Len(accepted) < MaxArrivals /\ Len(queue) < Mailbox
  /\ queue' = Append(queue, [source |-> Swapped(port), length |-> length])
  /\ accepted' = Append(accepted, [port |-> port, length |-> length])
  /\ UNCHANGED <<others, mine, fd, step, call, result, answered>>

OthersChange ==
  /\ others' \in SUBSET (Fds \ mine) /\ others' # others
  /\ UNCHANGED <<mine, queue, accepted, fd, step, call, result, answered>>

-----------------------------------------------------------------------------
Return(r) == step' = "none" /\ result' = r
Fail(error) == Return(Answer(error)) /\ UNCHANGED <<lwip, fd, call, answered>>
Goto(next) == step' = next /\ UNCHANGED <<result, fd, answered>>

(* open() *)
Open ==
  /\ step = "none"
  /\ \/ fd >= 0 /\ Fail("EALREADY")
     \/ fd < 0 /\ Goto("socket") /\ UNCHANGED <<lwip, call>>

Socket ==
  /\ step = "socket"
  /\ \/ \E s \in Fds \ (others \cup mine) :
          mine' = mine \cup {s} /\ Goto("bind") /\ UNCHANGED <<others, queue, accepted, call>>
     \/ others \cup mine = Fds /\ Fail("errno")

(* The fault NotClosed: a socket that cannot be bound is forgotten.        *)
NotClosed ==
  /\ step = "bind"
  /\ Fail("errno")

BindFails ==
  /\ step = "bind"
  /\ mine' = {}
  /\ Return(Answer("errno"))
  /\ UNCHANGED <<others, queue, accepted, fd, call, answered>>

Bind ==
  /\ step = "bind"
  /\ fd' \in mine
  /\ Return(Answer("0"))
  /\ UNCHANGED <<lwip, call, answered>>

(* sendTo() *)
SendTo ==
  /\ step = "none"
  /\ \/ fd < 0 /\ Fail("EBADF")
     \/ fd >= 0 /\ Fail("errno")
     \/ fd >= 0 /\ Fail("0")

(* receiveFrom() *)
ReceiveFrom(buffer, timeout) ==
  /\ step = "none"
  /\ \/ fd < 0 /\ Fail("EBADF")
     \/ /\ fd >= 0 /\ Goto(IF timeout \in {0, WaitForever} THEN "recv" ELSE "select")
        /\ call' = [buffer |-> buffer, timeout |-> timeout]
        /\ UNCHANGED lwip

(* A socket is ready when a datagram waits, or an error. *)
Select ==
  /\ step = "select"
  /\ \/ Goto("recv") /\ UNCHANGED <<lwip, call>>
     \/ Fail("errno")
     \/ queue = <<>> /\ Fail("ETIMEDOUT")

(* lwip_recvmsg() answers the length of the whole datagram, whatever fits  *)
(* the vector, which has a byte for an empty buffer.                       *)
Receive ==
  /\ step = "recv" /\ queue # <<>>
  /\ LET length == Head(queue).length
         vector == IF call.buffer = 0 THEN 1 ELSE call.buffer
     IN  Return([error |-> "0",
                 size |-> IF length < call.buffer THEN length ELSE call.buffer,
                 source |-> Swapped(Head(queue).source),
                 truncated |-> length > call.buffer \/ length > vector])
  /\ queue' = Tail(queue) /\ answered' = answered + 1
  /\ UNCHANGED <<others, mine, accepted, fd, call>>

(* With MSG_DONTWAIT nobody waits; an error of the socket ends any call.   *)
WouldBlock ==
  /\ step = "recv" /\ queue = <<>> /\ call.timeout # WaitForever
  /\ Fail("EWOULDBLOCK")

ReceiveFails ==
  /\ step = "recv"
  /\ Fail("errno")

(* close(), and the destructor *)
Close ==
  /\ step = "none"
  /\ Return(Answer("0"))
  /\ fd' = -1 /\ mine' = mine \ {fd}
  /\ queue' = <<>> /\ accepted' = <<>> /\ answered' = 0
  /\ UNCHANGED <<others, call>>

UdpNext ==
  \/ \E p \in Ports, l \in Lengths : Arrive(p, l)
  \/ OthersChange
  \/ Open \/ Socket \/ BindFails \/ Bind
  \/ SendTo
  \/ \E b \in Buffers, t \in {0, 1, WaitForever} : ReceiveFrom(b, t)
  \/ Select \/ Receive \/ WouldBlock \/ ReceiveFails
  \/ Close

UdpSpec == UdpInit /\ [][UdpNext]_udpVars

(* Whatever fails in between: outside of a call the object holds exactly   *)
(* the socket in fd_, so that none leaks; datagrams are answered once, in  *)
(* the order they came, with the sender's port, the bytes really written   *)
(* and whether some were cut off; and a call that was to wait for ever     *)
(* never answers that time is up.                                          *)
SocketTruthful ==
  /\ step = "none" => mine = IF fd >= 0 THEN {fd} ELSE {}
  /\ Len(accepted) = answered + Len(queue)
  /\ step = "none" /\ result.source # 0 =>
       LET d == accepted[answered]
       IN  result = [error |-> "0",
                     size |-> IF d.length > call.buffer THEN call.buffer ELSE d.length,
                     source |-> d.port, truncated |-> d.length > call.buffer]
  /\ step = "none" /\ result.error \in {"ETIMEDOUT", "EWOULDBLOCK"} => call.timeout # WaitForever
=============================================================================
