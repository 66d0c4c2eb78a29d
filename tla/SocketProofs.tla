----------------------------- MODULE SocketProofs -----------------------------
(***************************************************************************)
(* What is proved about two programs that use the classes of CPPSocket:    *)
(* how "sockman cserver" brings its server up (ServerStart), and what the  *)
(* datagrams of udp_sender become in udp_receiver (Udp).  They share no    *)
(* variables.                                                              *)
(***************************************************************************)
EXTENDS ServerStart, Udp, SequenceTheorems, TLAPS

-----------------------------------------------------------------------------
(* ServerStart *)

\* No attempt gives the socket of the object up: stop_server() finds no server
\* there.
KeptInv ==
  /\ opened
  /\ pc = "listen" => sock = "bound"
  /\ pc # "end" => count < Attempts

IInv == TypeOK /\ FlagsTellSocket /\ OneSocket /\ KeptInv

LEMMA InitInv == Init => IInv
<1> SUFFICES ASSUME Init PROVE IInv
  OBVIOUS
<1>1. TypeOK
  <2>1. fds \in FdBase..FdLimit /\ count \in 0..Attempts
    BY AttemptsAssumption, FdAssumption DEF Init
  <2>2. opened \in BOOLEAN /\ binded \in BOOLEAN /\ bserver \in BOOLEAN /\ acceptor \in BOOLEAN
    BY Zenon DEF Init
  <2> QED
    BY <2>1, <2>2 DEF Init, TypeOK
<1>2. FlagsTellSocket /\ OneSocket /\ KeptInv
  BY AttemptsAssumption DEF Init, FlagsTellSocket, OneSocket, KeptInv
<1> QED
  BY <1>1, <1>2 DEF IInv

LEMMA NextInv == IInv /\ [Next]_vars => IInv'
<1> SUFFICES ASSUME IInv, [Next]_vars PROVE IInv'
  OBVIOUS
<1> USE DEF IInv, TypeOK, FlagsTellSocket, OneSocket, KeptInv, object
<1>1. CASE Others
  BY <1>1 DEF Others
<1>2. CASE Bind /\ UNCHANGED <<acceptor, count, others>>
  <2>1. opened' = TRUE /\ UNCHANGED <<type, bserver, fds, acceptor, count, others>>
    BY <1>2, Zenon DEF Bind, NeedsSocket
  <2>2. \/ pc' = "caught" /\ UNCHANGED <<binded, sock>>
        \/ pc' = "listen" /\ binded' = TRUE /\ sock' = "bound" /\ ~binded
    BY <1>2, Zenon DEF Bind, NeedsSocket, At
  <2>3. pc = "create"
    BY <1>2 DEF Bind, At
  <2>4. CASE pc' = "caught" /\ UNCHANGED <<binded, sock>>
    BY <2>1, <2>3, <2>4
  <2>5. CASE pc' = "listen" /\ binded' = TRUE /\ sock' = "bound" /\ ~binded
    BY <2>1, <2>3, <2>5
  <2> QED
    BY <2>2, <2>4, <2>5
<1>3. CASE ListenAndSet /\ UNCHANGED <<acceptor, count, others>>
  <2>1. pc = "listen" /\ UNCHANGED <<opened, binded, fds, acceptor, count, others>>
    BY <1>3 DEF ListenAndSet, At
  <2>2. CASE pc' = "caught" /\ UNCHANGED <<sock, type, bserver>>
    BY <2>1, <2>2
  <2>3. CASE pc' = "start" /\ sock' = "listening" /\ type' = "server" /\ bserver' = TRUE
    BY <2>1, <2>3
  <2> QED
    BY <1>3, <2>2, <2>3 DEF ListenAndSet, At
<1>4. CASE Start /\ UNCHANGED <<count, others>>
  BY <1>4 DEF Start, At
<1>5. CASE Caught /\ UNCHANGED others
  BY <1>5 DEF Caught, StopServer, At
<1>6. CASE Again /\ UNCHANGED others
  <2>1. ~bserver /\ UNCHANGED <<object, sock>>
    BY <1>6 DEF Again, StopServer, At
  <2>2. count + 1 \in 0..Attempts /\ (count + 1 # Attempts => count + 1 < Attempts)
    BY <1>6, AttemptsAssumption DEF Again, At
  <2> QED
    BY <1>6, <2>1, <2>2, AttemptsAssumption DEF Again, At
<1>7. CASE UNCHANGED vars
  BY <1>7 DEF vars
<1> QED
  BY <1>1, <1>2, <1>3, <1>4, <1>5, <1>6, <1>7 DEF Next, Program

\* The inductive invariant: the flags, and why stop_server() never has a server to
\* stop while the program is starting one.
THEOREM Invariance == Spec => []IInv
  BY InitInv, NextInv, PTL DEF Spec

\* For every number of attempts: the variables keep their types.
THEOREM TypeCorrect == Spec => []TypeOK
  BY Invariance, PTL DEF IInv

\* For every number of attempts: the flags of the server tell what its socket is.
THEOREM FlagsAreRight == Spec => []FlagsTellSocket
  BY Invariance, PTL DEF IInv

\* For every number of attempts: they all share one socket.
THEOREM SocketIsShared == Spec => []OneSocket
  BY Invariance, PTL DEF IInv

-----------------------------------------------------------------------------
(* Udp: what is sent, and what receive makes of it *)

\* A datagram, whoever it is for and however often it was duplicated.
Datagrams ==
  {[number |-> i, bytes |-> Bytes(Script[i]), to |-> SinPort(PortOf(SinPort(PORT))), copy |-> c]:
     i \in Items, c \in Nat}

\* What receive makes of one of them when it asks for an item.
Results(item) == {Received(item, d): d \in Datagrams}

UdpInv ==
  /\ r_next \in 1..Len(Script) + 1 /\ duplicates \in Nat
  /\ net \subseteq Datagrams /\ queue \in Seq(Datagrams)
  /\ got \in Seq(UNION {Results(Script[i]): i \in Items}) /\ Len(got) = r_next - 1
  /\ \A i \in 1..Len(got): got[i] \in Results(Script[i])

LEMMA LengthIsANumber ==
  ASSUME NEW S, NEW s \in Seq(S)
  PROVE  Len(s) \in Nat /\ DOMAIN s = 1..Len(s)
OBVIOUS

LEMMA ScriptFacts ==
  /\ Len(Script) \in Nat /\ Items = 1..Len(Script)
  /\ \A i \in Items:
       LET item == Script[i] IN
       /\ item.size \in Nat \ {0} /\ item.n \in Nat /\ item.data \in Seq(0..255)
       /\ Bytes(item) \in Seq(0..255) /\ Len(Bytes(item)) \in Nat
       /\ item.n = 0 => Len(Bytes(item)) = Len(item.data) + 1
       /\ item.n # 0 => Len(Bytes(item)) = item.n * item.size
<1>1. Len(Script) \in Nat /\ Items = 1..Len(Script)
  <2>1. Script \in Seq(ToSet(Script))
    BY ScriptAssumption
  <2>. QED  BY <2>1, LengthIsANumber DEF Items
<1>2. ASSUME NEW i \in Items
      PROVE  LET item == Script[i] IN
             /\ item.size \in Nat \ {0} /\ item.n \in Nat /\ item.data \in Seq(0..255)
             /\ Bytes(item) \in Seq(0..255) /\ Len(Bytes(item)) \in Nat
             /\ item.n = 0 => Len(Bytes(item)) = Len(item.data) + 1
             /\ item.n # 0 => Len(Bytes(item)) = item.n * item.size
  <2>. DEFINE item == Script[i]
  <2>1. item.size \in Nat \ {0} /\ item.n \in Nat /\ item.data \in Seq(0..255)
    BY ScriptAssumption DEF Items
  <2>2. item.n # 0 => Len(item.data) = item.n * item.size
    BY TypesAssumption DEF Items
  <2>. HIDE DEF item
  <2>3. Append(item.data, 0) \in Seq(0..255) /\ Len(Append(item.data, 0)) = Len(item.data) + 1
    BY <2>1, AppendProperties
  <2>4. CASE item.n = 0
    <3>1. Bytes(item) = Append(item.data, 0)
      BY <2>4 DEF Bytes
    <3>. QED  BY <2>1, <2>3, <2>4, <3>1 DEF item
  <2>5. CASE item.n # 0
    <3>1. Bytes(item) = item.data
      BY <2>5 DEF Bytes
    <3>. QED  BY <2>1, <2>2, <2>5, <3>1 DEF item
  <2>. QED  BY <2>4, <2>5
<1>. QED  BY <1>1, <1>2

LEMMA UdpInitInv == UdpInit => UdpInv
<1>. SUFFICES ASSUME UdpInit PROVE UdpInv
  OBVIOUS
<1>1. r_next = 1 /\ net = {} /\ queue = <<>> /\ got = <<>> /\ duplicates = 0
  BY DEF UdpInit
<1>2. <<>> \in Seq(Datagrams) /\ <<>> \in Seq(UNION {Results(Script[i]): i \in Items}) /\ Len(<<>>) = 0
  BY EmptySeq
<1>. QED  BY <1>1, <1>2, ScriptFacts DEF UdpInv

LEMMA UdpNextInv == UdpInv /\ [UdpNext]_udpVars => UdpInv'
<1>. SUFFICES ASSUME UdpInv, [UdpNext]_udpVars PROVE UdpInv'
  OBVIOUS
<1>0. /\ r_next \in 1..Len(Script) + 1 /\ duplicates \in Nat
      /\ net \subseteq Datagrams /\ queue \in Seq(Datagrams)
      /\ got \in Seq(UNION {Results(Script[i]): i \in Items}) /\ Len(got) = r_next - 1
      /\ \A i \in 1..Len(got): got[i] \in Results(Script[i])
  BY DEF UdpInv
<1>1. CASE Send
  <2>1. UNCHANGED <<r_next, queue, got, duplicates>>
    BY <1>1 DEF Send
  <2>2. net' \subseteq Datagrams
    <3>1. CASE UNCHANGED net
      BY <1>0, <3>1
    <3>2. CASE ~UNCHANGED net
      <4>1. /\ s_next \in Items
            /\ net' = net \cup {[number |-> s_next, bytes |-> Bytes(Script[s_next]),
                                 to |-> SinPort(PortOf(SinPort(PORT))), copy |-> 0]}
        BY <1>1, <3>2 DEF Send
      <4>. QED  BY <1>0, <4>1 DEF Datagrams
    <3>. QED  BY <3>1, <3>2
  <2>. QED  BY <1>0, <2>1, <2>2 DEF UdpInv
<1>2. CASE Lose
  BY <1>0, <1>2 DEF Lose, UdpInv
<1>3. CASE Duplicate
  <2>1. PICK d \in net: net' = net \cup {[d EXCEPT !.copy = duplicates + 1]}
    BY <1>3 DEF Duplicate
  <2>2. UNCHANGED <<r_next, queue, got>> /\ duplicates' = duplicates + 1
    BY <1>3 DEF Duplicate
  <2>3. PICK i \in Items, c \in Nat:
          d = [number |-> i, bytes |-> Bytes(Script[i]), to |-> SinPort(PortOf(SinPort(PORT))), copy |-> c]
    BY <1>0 DEF Datagrams
  <2>4. [d EXCEPT !.copy = duplicates + 1] =
          [number |-> i, bytes |-> Bytes(Script[i]), to |-> SinPort(PortOf(SinPort(PORT))),
           copy |-> duplicates + 1]
    BY <2>3
  <2>5. duplicates + 1 \in Nat
    BY <1>0
  <2>6. net' \subseteq Datagrams
    <3>1. [d EXCEPT !.copy = duplicates + 1] \in Datagrams
      BY <2>4, <2>5 DEF Datagrams
    <3>. QED  BY <1>0, <2>1, <3>1
  <2>. QED  BY <1>0, <2>2, <2>5, <2>6 DEF UdpInv
<1>4. CASE Deliver
  <2>1. PICK d \in net: net' = net \ {d} /\ (queue' = Append(queue, d) \/ UNCHANGED queue)
    BY <1>4 DEF Deliver
  <2>2. UNCHANGED <<r_next, got, duplicates>>
    BY <1>4 DEF Deliver
  <2>3. queue' \in Seq(Datagrams)
    BY <1>0, <2>1, AppendProperties
  <2>. QED  BY <1>0, <2>1, <2>2, <2>3 DEF UdpInv
<1>5. CASE Receive
  <2>. DEFINE X == UNION {Results(Script[i]): i \in Items}
              x == Received(Script[r_next], Head(queue))
              n == Len(got)
  <2>1. /\ r_next \in Items /\ queue # <<>> /\ got' = Append(got, x)
        /\ queue' = Tail(queue) /\ r_next' = r_next + 1 /\ UNCHANGED <<net, duplicates>>
    BY <1>5 DEF Receive
  <2>2. Head(queue) \in Datagrams /\ Tail(queue) \in Seq(Datagrams)
    BY <1>0, <2>1, HeadTailProperties
  <2>3. x \in Results(Script[r_next])
    BY <2>2 DEF Results
  <2>4. x \in X
    BY <2>1, <2>3
  <2>. HIDE DEF x
  <2>5. /\ got' \in Seq(X) /\ Len(got') = n + 1 /\ n \in Nat
        /\ \A i \in 1..n: got'[i] = got[i]
        /\ got'[n + 1] = x
    <3>. HIDE DEF X
    <3>1. got \in Seq(X)
      BY <1>0 DEF X
    <3>. QED  BY <2>1, <2>4, <3>1, AppendProperties
  <2>. HIDE DEF n
  <2>6. n = r_next - 1 /\ n + 1 = r_next /\ r_next' = n + 1 + 1 /\ r_next' \in 1..Len(Script) + 1
    BY <1>0, <2>1, <2>5, ScriptFacts DEF n
  <2>7. ASSUME NEW i \in 1..Len(got') PROVE got'[i] \in Results(Script[i])
    <3>1. CASE i \in 1..n
      BY <1>0, <2>5, <3>1 DEF n
    <3>2. CASE i = n + 1
      BY <2>3, <2>5, <2>6, <3>2
    <3>. QED  BY <2>5, <3>1, <3>2
  <2>. QED  BY <1>0, <2>1, <2>2, <2>5, <2>6, <2>7 DEF UdpInv
<1>6. CASE SenderCloses \/ Listen \/ ReceiveThrows \/ ReceiverCloses \/ UNCHANGED udpVars
  <2>1. UNCHANGED <<r_next, net, queue, got, duplicates>>
    BY <1>6 DEF SenderCloses, Listen, ReceiveThrows, ReceiverCloses, udpVars
  <2>. QED  BY <1>0, <2>1 DEF UdpInv
<1>. QED  BY <1>1, <1>2, <1>3, <1>4, <1>5, <1>6 DEF UdpNext

LEMMA UdpAlways == UdpSpec => []UdpInv
  BY UdpInitInv, UdpNextInv, PTL DEF UdpSpec

LEMMA SubSeqFrom1 ==
  ASSUME NEW S, NEW b \in Seq(S), NEW n \in Nat, n <= Len(b)
  PROVE  /\ SubSeq(b, 1, n) \in Seq(S) /\ Len(SubSeq(b, 1, n)) = n
         /\ \A j \in 1..n: SubSeq(b, 1, n)[j] = b[j]
<1>1. \A j \in 1..n: j \in 1..Len(b)
  OBVIOUS
<1>. QED  BY <1>1, SubSeqProperties

\* What is cut off, and how many elements are left.
LEMMA ReceivedIs ==
  ASSUME NEW item, Capacity(item) \in Nat, NEW d, d.bytes \in Seq(0..255)
  PROVE  \E n \in Nat:
           /\ n = IF Len(d.bytes) <= Capacity(item) THEN Len(d.bytes) ELSE Capacity(item)
           /\ Received(item, d).number = d.number
           /\ Received(item, d).bytes = SubSeq(d.bytes, 1, n)
           /\ Received(item, d).bytes \in Seq(0..255)
           /\ Len(Received(item, d).bytes) = n
           /\ \A j \in 1..n: Received(item, d).bytes[j] = d.bytes[j]
           /\ Received(item, d).elements = n \div (IF item.n = 0 THEN 1 ELSE item.size)
           /\ n = Len(d.bytes) => Received(item, d).bytes = d.bytes
<1>. DEFINE b == d.bytes
            l == Len(b)
            c == Capacity(item)
            n == Min({l, c})
<1>1. l \in Nat /\ c \in Nat
  OBVIOUS
<1>. HIDE DEF b, l, c
<1>2. n = (IF l <= c THEN l ELSE c) /\ n \in 0..l
  <2>. DEFINE m == IF l <= c THEN l ELSE c
              Least(x) == x \in {l, c} /\ \A y \in {l, c}: x <= y
  <2>1. Least(m) /\ m \in 0..l
    BY <1>1
  <2>2. n = CHOOSE x : Least(x)
    BY DEF Min
  <2>3. Least(n)
    <3>. HIDE DEF Least, n
    <3>. QED  BY <2>1, <2>2
  <2>4. \A x: Least(x) => x = m
    BY <1>1
  <2>. HIDE DEF Least, n
  <2>. QED  BY <2>1, <2>3, <2>4
<1>. HIDE DEF n
<1>3. b \in Seq(0..255) /\ Len(b) = l
  BY DEF b, l
<1>. DEFINE s == SubSeq(b, 1, n)
<1>4. s \in Seq(0..255) /\ Len(s) = n /\ \A j \in 1..n: s[j] = b[j]
  <2>1. n \in Nat /\ n <= Len(b)
    BY <1>1, <1>2, <1>3
  <2>. QED  BY <1>3, <2>1, SubSeqFrom1 DEF s
<1>5. n = l => s = b
  BY <1>3, SubSeqFull
<1>. HIDE DEF s
<1>6. Received(item, d) = [number |-> d.number, bytes |-> s,
                           elements |-> Len(s) \div (IF item.n = 0 THEN 1 ELSE item.size)]
  BY DEF Received, s, b, n, l, c
<1>7. /\ n \in Nat /\ n = IF l <= c THEN l ELSE c
      /\ Received(item, d).number = d.number /\ Received(item, d).bytes = s
      /\ Received(item, d).elements = n \div (IF item.n = 0 THEN 1 ELSE item.size)
  <2>1. n \in Nat
    BY <1>1, <1>2
  <2>. HIDE DEF l, c, b
  <2>. QED  BY <2>1, <1>2, <1>4, <1>6
<1>. QED  BY <1>4, <1>5, <1>7 DEF b, l, c, s

LEMMA NothingIsCut ==
  ASSUME NEW i \in Items, NEW r \in Results(Script[i]), r.number = i
  PROVE  /\ r.bytes = Bytes(Script[i])
         /\ r.elements * (IF Script[i].n = 0 THEN 1 ELSE Script[i].size) = Len(Bytes(Script[i]))
         /\ Script[i].n # 0 => r.elements = Script[i].n
<1>. DEFINE item == Script[i]
            l == Len(Bytes(item))
<1>1. PICK d \in Datagrams: r = Received(item, d)
  BY DEF Results
<1>2. PICK m \in Items: d.number = m /\ d.bytes = Bytes(Script[m])
  BY DEF Datagrams
<1>3. /\ item.size \in Nat \ {0} /\ item.n \in Nat /\ l \in Nat /\ Bytes(Script[m]) \in Seq(0..255)
      /\ item.n = 0 => Len(Bytes(item)) = Len(item.data) + 1 /\ Len(item.data) \in Nat
      /\ item.n # 0 => l = item.n * item.size
  BY ScriptFacts
<1>4. MaxBuffer \in Nat /\ (item.n = 0 => Len(item.data) < MaxBuffer)
  <2>1. MaxBuffer \in Nat
    BY ScriptAssumption
  <2>2. Script[i].n = 0 => Len(Script[i].data) < MaxBuffer
    BY TypesAssumption DEF Items
  <2>. QED  BY <2>1, <2>2
<1>5. Capacity(item) \in Nat /\ l <= Capacity(item)
  <2>. HIDE DEF item
  <2>1. CASE item.n = 0
    BY <1>3, <1>4, <2>1 DEF Capacity
  <2>2. CASE item.n # 0
    <3>1. item.n * item.size \in Nat /\ Capacity(item) = item.n * item.size
      BY <1>3, <2>2 DEF Capacity
    <3>. QED  BY <1>3, <2>2, <3>1
  <2>. QED  BY <2>1, <2>2
<1>. HIDE DEF item
<1>6. PICK n \in Nat:
        /\ n = IF Len(d.bytes) <= Capacity(item) THEN Len(d.bytes) ELSE Capacity(item)
        /\ r.number = d.number
        /\ r.elements = n \div (IF item.n = 0 THEN 1 ELSE item.size)
        /\ n = Len(d.bytes) => r.bytes = d.bytes
  <2>1. d.bytes \in Seq(0..255)
    BY <1>2, <1>3
  <2>. QED  BY <1>1, <1>5, <2>1, ReceivedIs
<1>7. d.bytes = Bytes(item)
  BY <1>2, <1>6 DEF item
<1>8. n = l
  BY <1>5, <1>6, <1>7
<1>. HIDE DEF l
<1>9. /\ r.elements * (IF item.n = 0 THEN 1 ELSE item.size) = l
      /\ item.n # 0 => r.elements = item.n
  <2>1. CASE item.n = 0
    BY <1>3, <1>6, <1>8, <2>1
  <2>2. CASE item.n # 0
    <3>. DEFINE a == item.n
                b == item.size
    <3>1. a \in Nat /\ b \in Nat \ {0} /\ l = a * b /\ r.elements = l \div b
      BY <1>3, <1>6, <1>8, <2>2
    <3>. HIDE DEF a, b
    <3>2. (a * b) \div b = a
      BY <3>1
    <3>. QED  BY <2>2, <3>1, <3>2 DEF a, b
  <2>. QED  BY <2>1, <2>2
<1>. QED  BY <1>6, <1>7, <1>8, <1>9 DEF item, l

LEMMA EndIsFound ==
  ASSUME NEW i \in Items, NEW r \in Results(Script[i]), Script[i].n = 0
  PROVE  0 \in ToSet(r.bytes)
<1>. DEFINE item == Script[i]
<1>1. PICK d \in Datagrams: r = Received(item, d)
  BY DEF Results
<1>2. PICK m \in Items: d.bytes = Bytes(Script[m])
  BY DEF Datagrams
<1>. DEFINE other == Script[m]
            b == Bytes(other)
<1>3. /\ other.n \in Nat /\ other.data \in Seq(0..255) /\ b \in Seq(0..255) /\ Len(b) \in Nat
      /\ other.n = 0 => Len(b) = Len(other.data) + 1
  BY ScriptFacts
<1>4. MaxBuffer \in Nat /\ (other.n = 0 => Len(other.data) < MaxBuffer)
  <2>1. MaxBuffer \in Nat
    BY ScriptAssumption
  <2>2. Script[m].n = 0 => Len(Script[m].data) < MaxBuffer
    BY TypesAssumption DEF Items
  <2>. QED  BY <2>1, <2>2
<1>5. \E j \in 1..Len(b): j <= MaxBuffer /\ b[j] = 0
  <2>1. CASE other.n = 0
    <3>. HIDE DEF other
    <3>1. b = Append(other.data, 0)
      BY <2>1 DEF Bytes
    <3>2. b[Len(other.data) + 1] = 0
      BY <1>3, <3>1, AppendProperties
    <3>3. Len(b) \in 1..Len(b) /\ Len(b) <= MaxBuffer
      <4>1. Len(other.data) \in Nat
        BY <1>3
      <4>. QED  BY <1>3, <1>4, <2>1, <4>1
    <3>. QED  BY <1>3, <2>1, <3>2, <3>3
  <2>2. CASE other.n # 0
    <3>1. PICK j \in DOMAIN other.data: j <= MaxBuffer /\ other.data[j] = 0
      BY <2>2, ZerosAssumption DEF Items
    <3>. HIDE DEF other
    <3>2. b = other.data
      BY <2>2 DEF Bytes
    <3>. QED  BY <1>3, <3>1, <3>2
  <2>. QED  BY <2>1, <2>2
<1>6. Capacity(item) = MaxBuffer /\ Capacity(item) \in Nat
  BY <1>4 DEF Capacity
<1>. HIDE DEF item, b, other
<1>7. PICK n \in Nat:
        /\ n = IF Len(b) <= Capacity(item) THEN Len(b) ELSE Capacity(item)
        /\ r.bytes \in Seq(0..255) /\ Len(r.bytes) = n
        /\ \A j \in 1..n: r.bytes[j] = b[j]
  <2>1. d.bytes = b
    BY <1>2 DEF b, other
  <2>. QED  BY <1>1, <1>3, <1>6, <2>1, ReceivedIs
<1>8. PICK j \in 1..Len(b): j <= MaxBuffer /\ b[j] = 0
  BY <1>5
<1>9. j \in 1..n
  BY <1>3, <1>4, <1>6, <1>7, <1>8
<1>10. r.bytes[j] = 0 /\ j \in DOMAIN r.bytes
  BY <1>7, <1>8, <1>9
<1>. QED  BY <1>10 DEF ToSet

\* For any script, whatever the network loses, duplicates and reorders: receive<string>
\* finds a NUL in its buffer.
THEOREM StringsHaveEnds == UdpSpec => []StringsEnd
<1>1. UdpInv => StringsEnd
  <2>. SUFFICES ASSUME UdpInv, NEW i \in DOMAIN got, Script[i].n = 0
                PROVE  0 \in ToSet(got[i].bytes)
    BY DEF StringsEnd
  <2>1. i \in Items /\ got[i] \in Results(Script[i])
    BY ScriptFacts DEF UdpInv
  <2>. QED  BY <2>1, EndIsFound
<1>. QED  BY <1>1, UdpAlways, PTL

\* For any script: as long as the datagrams come in their order, receive gives every
\* item back whole.
THEOREM WholeInOrder == UdpSpec => []WholeIfInOrder
<1>1. UdpInv => WholeIfInOrder
  <2>. SUFFICES ASSUME UdpInv, NEW i \in DOMAIN got, \A j \in 1..i: got[j].number = j
                PROVE  /\ got[i].bytes = Bytes(Script[i])
                       /\ got[i].elements * (IF Script[i].n = 0 THEN 1 ELSE Script[i].size)
                            = Len(Bytes(Script[i]))
                       /\ Script[i].n # 0 => got[i].elements = Script[i].n
    BY DEF WholeIfInOrder
  <2>1. i \in Items /\ got[i] \in Results(Script[i]) /\ i \in 1..i
    BY ScriptFacts DEF UdpInv
  <2>. QED  BY <2>1, NothingIsCut
<1>. QED  BY <1>1, UdpAlways, PTL
==============================================================================
