----------------------------------- MODULE Udp -----------------------------------
(***************************************************************************)
(* udp_sender and udp_receiver of src/sockman/sockman.cpp, over class UDP  *)
(* (UDP.cpp), Address and CommonSocket.  The sender sends what Script      *)
(* says, one datagram for each item, and waits for nothing; the receiver   *)
(* asks for the same types in the same order.  The network may lose,       *)
(* duplicate and reorder datagrams, as UDP does.                           *)
(*                                                                         *)
(* An item is [size, data, n]: sizeof(T), what is sent, as bytes, and the  *)
(* n of receive<T, n>; n = 0 for receive<string>.                          *)
(***************************************************************************)
EXTENDS Integers, SequencesExt, FiniteSetsExt

CONSTANTS
  Script,        \* the items
  MaxBuffer,      \* SOCKET_MAX_BUFFER_LEN
  PORT,           \* where the receiver listens
  MaxDuplicates   \* bound: how many datagrams the network duplicates

ASSUME ScriptAssumption ==
  /\ PORT \in 0..65535 /\ MaxBuffer \in Nat /\ MaxDuplicates \in Nat
  /\ Script \in Seq(ToSet(Script))
  /\ \A i \in DOMAIN Script: /\ Script[i].size \in Nat \ {0} /\ Script[i].n \in Nat
                             /\ Script[i].data \in Seq(0..255)

\* What is asked for is of the type that is sent: a string fits the buffer with its
\* NUL, anything else has its n elements.
ASSUME TypesAssumption ==
  \A i \in DOMAIN Script:
    IF Script[i].n = 0 THEN Len(Script[i].data) < MaxBuffer
                       ELSE Len(Script[i].data) = Script[i].n * Script[i].size

\* The numbers that are sent have a byte 0 where the buffer of a string would hold it.
ASSUME ZerosAssumption ==
  \A i \in DOMAIN Script:
    Script[i].n # 0 => \E j \in DOMAIN Script[i].data: j <= MaxBuffer /\ Script[i].data[j] = 0

VARIABLES
  s_pc, s_next,         \* the sender: "send", "done" or "threw"; its next item
  r_pc, r_next,         \* the receiver: "listen", "receive", "done" or "threw"
  net,                  \* the datagrams on their way, by number
  port,                 \* sin_port where the socket of the receiver is bound
  queue,                \* the receive buffer of that socket
  got,                  \* what receive returned, item by item
  duplicates, lost      \* history

udpVars == <<s_pc, s_next, r_pc, r_next, net, port, queue, got, duplicates, lost>>

NOPORT == -1
Items == DOMAIN Script

UdpInit ==
  /\ s_pc = "send" /\ s_next = 1
  /\ r_pc = "listen" /\ r_next = 1
  /\ net = {} /\ port = NOPORT /\ queue = <<>> /\ got = <<>>
  /\ duplicates = 0 /\ lost = FALSE
-----------------------------------------------------------------------------
(* Address *)

\* htons, ntohs of a machine with the low byte first.
Swapped(n) == ((n % 256) * 256) + ((n % 65536) \div 256)

\* Address::port(Port), Address::port()
SinPort(p) == Swapped(p)

\* Mutant: port() returns sin_port as it is.
PortUnswapped(sin_port) == sin_port
PortOf(sin_port) == Swapped(sin_port)
-----------------------------------------------------------------------------
(* UDP::send *)

\* Mutant: a string goes without the NUL that ends it.
BytesOnly(item) == item.data

\* A string goes with the NUL that ends it.
Bytes(item) == IF item.n = 0 THEN Append(item.data, 0) ELSE item.data

\* send<T>(Ip, Port, const T*, size_t), whose sendto may fail.  The address of the
\* program is taken apart and put together again on the way.
Send ==
  /\ s_pc = "send" /\ s_next \in Items
  /\ LET bytes == Bytes(Script[s_next])
         to == SinPort(PortOf(SinPort(PORT)))
     IN \/ /\ Len(bytes) <= MaxBuffer * Script[s_next].size
           /\ net' = net \cup {[number |-> s_next, bytes |-> bytes, to |-> to, copy |-> 0]}
           /\ s_next' = s_next + 1
           /\ UNCHANGED s_pc
        \/ s_pc' = "threw" /\ UNCHANGED <<s_next, net>>
  /\ UNCHANGED <<r_pc, r_next, port, queue, got, duplicates, lost>>

SenderCloses ==
  /\ s_pc = "send" /\ s_next \notin Items
  /\ s_pc' = "done"
  /\ UNCHANGED <<s_next, r_pc, r_next, net, port, queue, got, duplicates, lost>>
-----------------------------------------------------------------------------
(* The network *)

Lose ==
  \E d \in net:
    /\ net' = net \ {d} /\ lost' = TRUE
    /\ UNCHANGED <<s_pc, s_next, r_pc, r_next, port, queue, got, duplicates>>

Duplicate ==
  \E d \in net:
    /\ duplicates < MaxDuplicates
    /\ duplicates' = duplicates + 1
    /\ net' = net \cup {[d EXCEPT !.copy = duplicates + 1]}
    /\ UNCHANGED <<s_pc, s_next, r_pc, r_next, port, queue, got, lost>>

\* To a port where nobody listens a datagram comes for nothing; it counts as lost
\* when the receiver listens nowhere.
Deliver ==
  \E d \in net:
    /\ net' = net \ {d}
    /\ IF d.to = port
       THEN queue' = Append(queue, d) /\ UNCHANGED lost
       ELSE lost' = (lost \/ port = NOPORT) /\ UNCHANGED queue
    /\ UNCHANGED <<s_pc, s_next, r_pc, r_next, port, got, duplicates>>
-----------------------------------------------------------------------------
(* UDP::receive *)

\* listen_on_port: socket, setsockopt or bind may fail.
Listen ==
  /\ r_pc = "listen"
  /\ \/ r_pc' = "receive" /\ port' = SinPort(PORT)
     \/ r_pc' = "threw" /\ UNCHANGED port
  /\ UNCHANGED <<s_pc, s_next, r_next, net, queue, got, duplicates, lost>>

\* Mutant: len is not multiplied by sizeof(T).
CapacityInElements(item) == IF item.n = 0 THEN MaxBuffer ELSE item.n
\* len * sizeof(T)
Capacity(item) == IF item.n = 0 THEN MaxBuffer ELSE item.n * item.size

\* recvfrom throws the rest of a larger datagram away.
Received(item, d) ==
  LET bytes == SubSeq(d.bytes, 1, Min({Len(d.bytes), Capacity(item)}))
  IN [number |-> d.number, bytes |-> bytes,
      elements |-> Len(bytes) \div (IF item.n = 0 THEN 1 ELSE item.size)]

Receive ==
  /\ r_pc = "receive" /\ r_next \in Items /\ queue # <<>>
  /\ got' = Append(got, Received(Script[r_next], Head(queue)))
  /\ queue' = Tail(queue)
  /\ r_next' = r_next + 1
  /\ UNCHANGED <<s_pc, s_next, r_pc, net, port, duplicates, lost>>

\* recvfrom fails.
ReceiveThrows ==
  /\ r_pc = "receive" /\ r_next \in Items
  /\ r_pc' = "threw"
  /\ UNCHANGED <<s_pc, s_next, r_next, net, port, queue, got, duplicates, lost>>

\* sock.close()
ReceiverCloses ==
  /\ r_pc = "receive" /\ r_next \notin Items
  /\ r_pc' = "done" /\ port' = NOPORT
  /\ UNCHANGED <<s_pc, s_next, r_next, net, queue, got, duplicates, lost>>

UdpNext ==
  \/ Send \/ SenderCloses \/ Lose \/ Duplicate \/ Deliver
  \/ Listen \/ Receive \/ ReceiveThrows \/ ReceiverCloses

UdpSpec == UdpInit /\ [][UdpNext]_udpVars

\* The two programs run, and a datagram does not travel for ever.
UdpFairSpec ==
  /\ UdpSpec
  /\ WF_udpVars(Send) /\ WF_udpVars(SenderCloses) /\ WF_udpVars(Deliver)
  /\ WF_udpVars(Listen) /\ WF_udpVars(Receive) /\ WF_udpVars(ReceiverCloses)
-----------------------------------------------------------------------------
(* Properties *)

\* receive<string> reads its buffer up to a NUL and looks at no length (UDP.cpp:167-177):
\* whichever datagram comes in place of the string, there must be a NUL in it.
StringsEnd == \A i \in DOMAIN got: Script[i].n = 0 => 0 \in ToSet(got[i].bytes)

\* As long as the datagrams come in the order in which they were sent, receive gives
\* back every item whole, with as many elements as it was sent with (UDP.cpp:46-69,
\* 113-165): nothing is cut off, and nothing is left unwritten in the buffer.
WholeIfInOrder ==
  \A i \in DOMAIN got:
    (\A j \in 1..i: got[j].number = j)
    => /\ got[i].bytes = Bytes(Script[i])
       /\ got[i].elements * (IF Script[i].n = 0 THEN 1 ELSE Script[i].size)
          = Len(Bytes(Script[i]))
       /\ Script[i].n # 0 => got[i].elements = Script[i].n

\* udp_receiver returns if it listens when the datagrams come, none is lost and the
\* sender does not give up (sockman.cpp:141-186): it waits for three datagrams, whatever
\* they are, and has no timeout, so that only then it is sure to.
ReceiverReturns ==
  [](~lost /\ s_pc # "threw") => <>(r_pc \in {"done", "threw"})
=============================================================================
