------------------------------ MODULE TcpProofs ------------------------------
(***************************************************************************)
(* What is proved about two programs with TCP: a file transfer             *)
(* (TcpManTransfer), for every set of files, every size of a chunk, and    *)
(* for both answers of ShortReads and MayDie; and the loop of "sockman     *)
(* cclient" (CsClient), for every bound.  They share no variables.         *)
(***************************************************************************)
EXTENDS TcpManTransfer, CsClient, TLAPS

-----------------------------------------------------------------------------
(* The inductive invariant *)

\* The number of bytes in the first i parts of a file of total bytes.
Off(total, i) == IF i <= total \div Chunk THEN i * Chunk ELSE total

\* Part i of the file.
Piece(i) ==
  SubSeq(file, i * Chunk + 1, i * Chunk + Part(Len(file), i))

\* Where the sender is in its loop, and why it failed if it did.
SenderInv ==
  /\ s_pc = "size" => s_i = 0 /\ header = {}
  /\ s_pc \in {"sync", "chunk"} => s_i < Parts(Len(file))
  /\ s_pc = "done" => s_i = Parts(Len(file))
  /\ s_pc = "failed" => r_pc \in Ended
  /\ s_pc = "dead" => MayDie
  /\ Len(down) <= Off(Len(file), s_i)

\* Where the receiver is in its loop.  It knows the size, unless the sender died
\* before it announced it.
ReceiverInv ==
  /\ r_pc = "size" => /\ r_i = 0 /\ up = 0
                      /\ header = {} => s_pc \in {"size", "dead"}
  /\ r_pc \in {"sync", "chunk"} => r_i < Parts(r_size)
  /\ r_pc = "done" => r_i = Parts(r_size)
  /\ r_pc = "dead" => MayDie
  /\ r_pc \in {"sync", "chunk", "done", "failed"}
       => r_size = Len(file) \/ (s_pc = "dead" /\ s_i = 0)
  /\ Len(out) = Off(r_size, r_i)

\* Nothing is sent that was not asked for.
StepInv ==
  r_pc \notin Ended => s_i + (IF s_pc = "chunk" THEN 1 ELSE 0) + up <= Asked

\* What is on its way is the part the receiver waits for.
WholeInv ==
  ~ShortReads =>
    /\ s_pc # "dead" => r_i <= s_i
    /\ r_pc \notin Ended => down = IF r_i < s_i THEN Piece(r_i) ELSE <<>>
    /\ SentPartsAreRight

IInv == TypeOK /\ SenderInv /\ ReceiverInv /\ StepInv /\ WholeInv

-----------------------------------------------------------------------------
(* Arithmetic of the parts *)

\* Division with remainder.
LEMMA Division ==
  ASSUME NEW N \in Nat
  PROVE  /\ N \div Chunk \in Nat
         /\ N % Chunk \in 0..Chunk - 1
         /\ N = (N \div Chunk) * Chunk + (N % Chunk)
  BY ChunkAssumption

\* More chunks hold more bytes.
LEMMA Monotone ==
  ASSUME NEW a \in Nat, NEW b \in Nat, a <= b
  PROVE  /\ a * Chunk \in Nat
         /\ b * Chunk \in Nat
         /\ a * Chunk <= b * Chunk
  BY ChunkAssumption

\* A part is not empty, fits the buffer and lies in the file, behind the parts
\* before it.
LEMMA PartBounds ==
  ASSUME NEW N \in Nat, NEW i \in Nat, i < Parts(N)
  PROVE  /\ Part(N, i) \in 1..Chunk
         /\ Off(N, i) = i * Chunk
         /\ Off(N, i + 1) = i * Chunk + Part(N, i)
         /\ i * Chunk + Part(N, i) <= N
         /\ i * Chunk \in Nat
<1>. DEFINE q == N \div Chunk
            r == N % Chunk
<1>1. q \in Nat /\ r \in 0..Chunk - 1 /\ N = q * Chunk + r
  BY Division
<1>2. CASE i < q
  <2>1. (i + 1) * Chunk <= q * Chunk
    BY <1>1, <1>2, Monotone
  <2>2. (i + 1) * Chunk = i * Chunk + Chunk /\ i * Chunk \in Nat
    BY ChunkAssumption
  <2>. QED  BY <1>1, <1>2, <2>1, <2>2, ChunkAssumption DEF Part, Off
<1>3. CASE i = q
  BY <1>1, <1>3, ChunkAssumption DEF Part, Off, Parts
<1>. QED  BY <1>1, <1>2, <1>3 DEF Parts

\* The parts make up the file.
LEMMA OffBounds ==
  ASSUME NEW N \in Nat, NEW i \in 0..Parts(N)
  PROVE  /\ Off(N, i) \in 0..N
         /\ Off(N, i) <= i * Chunk
         /\ i = Parts(N) => Off(N, i) = N
         /\ Parts(N) \in Nat
<1>. DEFINE q == N \div Chunk
            r == N % Chunk
<1>1. q \in Nat /\ r \in 0..Chunk - 1 /\ N = q * Chunk + r
  BY Division
<1>2. Parts(N) = q + IF r # 0 THEN 1 ELSE 0
  BY DEF Parts
<1>. HIDE DEF q, r
<1>3. CASE i <= q
  <2>1. i * Chunk <= q * Chunk /\ i * Chunk \in Nat /\ q * Chunk \in Nat
    BY <1>1, <1>2, <1>3, Monotone, ChunkAssumption
  <2>2. Off(N, i) = i * Chunk
    BY <1>3 DEF Off, q
  <2>3. i = Parts(N) => i = q /\ r = 0
    BY <1>1, <1>2, <1>3
  <2>4. i * Chunk <= N
    BY <1>1, <2>1
  <2>5. i = Parts(N) => i * Chunk = N
    BY <1>1, <2>1, <2>3
  <2>. QED  BY <1>1, <1>2, <2>1, <2>2, <2>4, <2>5
<1>4. CASE i = q + 1
  <2>1. (q + 1) * Chunk = q * Chunk + Chunk
    BY <1>1, ChunkAssumption
  <2>2. Off(N, i) = N
    BY <1>1, <1>4 DEF Off, q
  <2>. QED  BY <1>1, <1>2, <1>4, <2>1, <2>2, ChunkAssumption
<1>. QED  BY <1>1, <1>2, <1>3, <1>4

\* Nothing was written before the first part.
LEMMA OffZero ==
  ASSUME NEW N \in Nat
  PROVE  Off(N, 0) = 0 /\ Parts(N) \in Nat
  BY Division, ChunkAssumption DEF Off, Parts

\* A side leaves its loop when it has handled every part.
LEMMA ProceedCases ==
  ASSUME NEW N \in Nat, NEW i \in 0..Parts(N)
  PROVE  \/ Proceed(N, i) = "sync" /\ i < Parts(N)
         \/ Proceed(N, i) = "done" /\ i = Parts(N)
  BY OffBounds DEF Proceed

-----------------------------------------------------------------------------
(* Sequences *)

\* The smaller of two numbers.
LEMMA MinTwo ==
  ASSUME NEW a \in Nat, NEW b \in Nat
  PROVE  Min({a, b}) = IF a <= b THEN a ELSE b
  BY DEF Min

\* Two sequences, one behind the other.
LEMMA Joined ==
  ASSUME NEW S, NEW a \in Seq(S), NEW b \in Seq(S)
  PROVE  a \o b \in Seq(S) /\ Len(a \o b) = Len(a) + Len(b)
  OBVIOUS

\* The sizes are numbers, and the file a sequence.
LEMMA Sizes ==
  ASSUME TypeOK
  PROVE  /\ file \in Seq(Byte)
         /\ Len(file) \in Nat
         /\ r_size \in Nat
         /\ \A f \in Files: Len(f) \in Nat
         /\ s_i \in Nat /\ r_i \in Nat /\ up \in Nat
         /\ Parts(Len(file)) \in Nat /\ Parts(r_size) \in Nat
<1>1. \A f \in Files: f \in Seq(Byte) /\ Len(f) \in Nat
  BY FilesAssumption
<1>2. r_size \in Nat /\ file \in Seq(Byte) /\ Len(file) \in Nat
  BY <1>1 DEF TypeOK
<1>. QED  BY <1>1, <1>2, OffZero DEF TypeOK

\* What recv() may return.
LEMMA ReadBounds ==
  ASSUME NEW asked \in Nat, down \in Seq(Byte), NEW n \in Read(asked)
  PROVE  /\ n \in 1..asked
         /\ n <= Len(down)
         /\ ~ShortReads => n = IF asked <= Len(down) THEN asked ELSE Len(down)
<1>1. Len(down) \in Nat
  OBVIOUS
<1>2. Min({asked, Len(down)}) = IF asked <= Len(down) THEN asked ELSE Len(down)
  BY <1>1, MinTwo
<1>. QED  BY <1>1, <1>2 DEF Read

\* What the buffer and the copy hold when n bytes were received and a part of
\* asked bytes is written.
LEMMA Written ==
  ASSUME TypeOK, NEW asked \in 1..Chunk, NEW n \in 0..asked, n <= Len(down)
  PROVE  LET c == Filled(n)
             o == out \o SubSeq(c, 1, asked)
         IN  /\ c \in [1..Chunk -> Byte \cup {JUNK}]
             /\ o \in Seq(Byte \cup {JUNK})
             /\ Len(o) = Len(out) + asked
             /\ \A j \in 1..Len(out): o[j] = out[j]
             /\ \A j \in 1..asked: j <= n => o[Len(out) + j] = down[j]
<1>. DEFINE c == Filled(n)
            o == out \o SubSeq(c, 1, asked)
<1>1. c \in [1..Chunk -> Byte \cup {JUNK}]
  BY ChunkAssumption DEF Filled, TypeOK
<1>2. c \in Seq(Byte \cup {JUNK}) /\ Len(c) = Chunk
  BY <1>1, ChunkAssumption
<1>3. /\ SubSeq(c, 1, asked) \in Seq(Byte \cup {JUNK})
      /\ Len(SubSeq(c, 1, asked)) = asked
      /\ \A j \in 1..asked: SubSeq(c, 1, asked)[j] = c[j]
  BY <1>2, ChunkAssumption
<1>4. out \in Seq(Byte \cup {JUNK})
  BY DEF TypeOK
<1>5. /\ o \in Seq(Byte \cup {JUNK})
      /\ Len(o) = Len(out) + asked
      /\ \A j \in 1..Len(out): o[j] = out[j]
      /\ \A j \in 1..asked: o[Len(out) + j] = c[j]
  BY <1>3, <1>4
<1>6. \A j \in 1..asked: j <= n => c[j] = down[j]
  BY ChunkAssumption DEF Filled
<1>. QED  BY <1>1, <1>5, <1>6

\* A part of the file, as it is sent.
LEMMA PieceOfFile ==
  ASSUME TypeOK, NEW i \in Nat, i < Parts(Len(file))
  PROVE  /\ Piece(i) \in Seq(Byte)
         /\ Len(Piece(i)) = Part(Len(file), i)
         /\ \A j \in 1..Part(Len(file), i): Piece(i)[j] = file[i * Chunk + j]
<1>1. file \in Seq(Byte) /\ Len(file) \in Nat
  BY Sizes
<1>2. /\ Part(Len(file), i) \in 1..Chunk
      /\ i * Chunk + Part(Len(file), i) <= Len(file)
      /\ i * Chunk \in Nat
  BY <1>1, PartBounds
<1>. QED  BY <1>1, <1>2, ChunkAssumption DEF Piece

-----------------------------------------------------------------------------
(* The invariant holds at the start and is kept by every step *)

\* Two processes that have just opened the connection.
LEMMA InitInv == Init => IInv
<1>. SUFFICES ASSUME Init PROVE IInv
  OBVIOUS
<1>. USE DEF Init
<1>1. TypeOK
  <2>1. chunk \in [1..Chunk -> Byte \cup {JUNK}]
    BY ChunkAssumption
  <2>2. file \in Seq(Byte) /\ Len(file) \in Nat
    BY FilesAssumption
  <2>3. Parts(Len(file)) \in Nat /\ Parts(0) \in Nat
    BY <2>2, OffZero
  <2>4. Len(down) = 0 /\ Len(out) = 0
    OBVIOUS
  <2>. QED  BY <2>1, <2>2, <2>3, <2>4 DEF TypeOK
<1>2. Len(file) \in Nat
  BY <1>1, Sizes
<1>3. Off(Len(file), 0) = 0 /\ Off(0, 0) = 0
  BY <1>2, OffZero
<1>4. SenderInv /\ ReceiverInv
  BY <1>3 DEF SenderInv, ReceiverInv, Ended
<1>5. StepInv
  BY DEF StepInv, Asked, Ended
<1>6. WholeInv
  BY DEF WholeInv, SentPartsAreRight
<1>. QED  BY <1>1, <1>4, <1>5, <1>6 DEF IInv

\* The sender announces the size.
LEMMA SendSizeInv ==
  ASSUME IInv, Sender, SendSize
  PROVE  IInv'
<1>. USE DEF IInv, Sender, SendSize, rVars
<1>1. Len(file) \in Nat /\ s_i = 0
  BY Sizes DEF SenderInv
<1>2. \/ s_pc' = "sync" /\ 0 < Parts(Len(file))
      \/ s_pc' = "done" /\ 0 = Parts(Len(file))
  BY <1>1, OffZero, ProceedCases
<1>3. TypeOK'
  BY <1>2 DEF TypeOK, Ended
<1>4. SenderInv' /\ ReceiverInv'
  BY <1>1, <1>2 DEF SenderInv, ReceiverInv, Ended
<1>5. StepInv'
  BY <1>2 DEF StepInv, Asked
<1>6. WholeInv'
  BY <1>2 DEF WholeInv, SentPartsAreRight, Piece
<1>. QED  BY <1>3, <1>4, <1>5, <1>6

\* The sender waits for a synchronisation byte.
LEMMA AwaitSyncInv ==
  ASSUME IInv, Sender, AwaitSync
  PROVE  IInv'
<1>. USE DEF IInv, Sender, AwaitSync, rVars
<1>1. s_pc = "sync" /\ (s_pc' = "chunk" \/ (s_pc' = "failed" /\ r_pc \in Ended))
  BY DEF SenderReset
<1>2. TypeOK'
  <2>1. /\ up \in Nat /\ up' \in Nat /\ up' <= up
        /\ Parts(r_size) \in Nat
    BY Sizes DEF SenderReset
  <2>. QED  BY <1>1, <2>1 DEF TypeOK, Ended
<1>3. SenderInv' /\ ReceiverInv'
  BY <1>1 DEF SenderInv, ReceiverInv, Ended
<1>4. StepInv'
  BY Sizes DEF StepInv, Asked, SenderReset
<1>5. WholeInv'
  BY <1>1 DEF WholeInv, SentPartsAreRight, Piece
<1>. QED  BY <1>2, <1>3, <1>4, <1>5

\* The sender sends a part, or finds that the receiver is gone.
LEMMA SendPartInv ==
  ASSUME IInv, Sender, SendPart
  PROVE  IInv'
<1>. DEFINE N == Len(file)
<1>1. /\ file \in Seq(Byte) /\ N \in Nat /\ s_i \in Nat /\ r_i \in Nat
      /\ up \in Nat /\ r_size \in Nat
  BY Sizes DEF IInv
<1>2. s_pc = "chunk" /\ s_i < Parts(N)
  BY DEF IInv, SendPart, SenderInv
<1>3. CASE SenderReset /\ s_pc' = "failed" /\ UNCHANGED <<down, s_i>>
  <2>. USE <1>3 DEF IInv, Sender, SendPart, SenderReset, rVars
  <2>1. TypeOK'
    BY DEF TypeOK, Ended
  <2>2. SenderInv' /\ ReceiverInv'
    BY <1>2 DEF SenderInv, ReceiverInv, Ended
  <2>3. StepInv' /\ WholeInv'
    BY DEF StepInv, WholeInv, SentPartsAreRight, Piece
  <2>. QED  BY <2>1, <2>2, <2>3
<1>4. CASE /\ down' = down \o Piece(s_i)
           /\ s_i' = s_i + 1
           /\ s_pc' = Proceed(N, s_i + 1)
  <2>. USE <1>4
  <2>0. /\ UNCHANGED <<file, header, up, r_pc, r_size, r_i, chunk, out>>
    BY DEF Sender, SendPart, rVars
  <2>1. /\ Piece(s_i) \in Seq(Byte)
        /\ Len(Piece(s_i)) = Part(N, s_i)
    BY <1>1, <1>2, PieceOfFile DEF IInv
  <2>2. /\ Part(N, s_i) \in 1..Chunk
        /\ Off(N, s_i) = s_i * Chunk
        /\ Off(N, s_i + 1) = s_i * Chunk + Part(N, s_i)
        /\ s_i * Chunk + Part(N, s_i) <= N
        /\ s_i * Chunk \in Nat
    BY <1>1, <1>2, PartBounds
  <2>3. /\ down' \in Seq(Byte)
        /\ Len(down') = Len(down) + Part(N, s_i)
        /\ Len(down') <= Off(N, s_i + 1)
    <3>1. down \in Seq(Byte) /\ Len(down) <= Off(N, s_i)
      BY DEF IInv, TypeOK, SenderInv
    <3>2. down' \in Seq(Byte) /\ Len(down') = Len(down) + Len(Piece(s_i))
      BY <2>1, <3>1, Joined
    <3>. QED  BY <2>1, <2>2, <3>1, <3>2
  <2>4. s_i + 1 \in 0..Parts(N)
    BY <1>1, <1>2, OffZero
  <2>5. \/ s_pc' = "sync" /\ s_i' < Parts(N)
        \/ s_pc' = "done" /\ s_i' = Parts(N)
    BY <1>1, <2>4, ProceedCases
  <2>6. TypeOK'
    <3>1. Len(down') <= N
      BY <1>1, <2>2, <2>3
    <3>. QED  BY <2>0, <2>3, <2>4, <2>5, <3>1 DEF IInv, TypeOK, Ended
  <2>7. SenderInv' /\ ReceiverInv'
    BY <1>2, <2>0, <2>3, <2>5 DEF IInv, SenderInv, ReceiverInv, Ended
  <2>8. StepInv'
    BY <1>1, <1>2, <2>0, <2>5 DEF IInv, StepInv, Asked
  <2>9. ASSUME ~ShortReads
        PROVE  /\ s_pc' # "dead" => r_i <= s_i'
               /\ r_pc \notin Ended =>
                    down' = IF r_i < s_i' THEN Piece(r_i) ELSE <<>>
    <3>1. r_i <= s_i
      BY <1>2, <2>9 DEF IInv, WholeInv
    <3>2. CASE r_pc \notin Ended
      <4>1. s_i <= r_i
        BY <1>1, <1>2, <3>2 DEF IInv, StepInv, Asked
      <4>2. r_i = s_i /\ down = <<>>
        BY <1>1, <2>9, <3>1, <3>2, <4>1 DEF IInv, WholeInv
      <4>. QED  BY <1>1, <2>1, <4>2
    <3>. QED  BY <1>1, <3>1, <3>2
  <2>10. ASSUME ~ShortReads
         PROVE  SentPartsAreRight'
    <3>1. r_i <= s_i
      BY <1>2, <2>10 DEF IInv, WholeInv
    <3>2. Len(out) <= r_i * Chunk
      BY <1>1, OffBounds DEF IInv, ReceiverInv, TypeOK
    <3>3. r_i * Chunk <= s_i * Chunk /\ r_i * Chunk \in Nat
      BY <1>1, <3>1, Monotone
    <3>4. out \in Seq(Byte \cup {JUNK})
      BY DEF IInv, TypeOK
    <3>5. \A j \in 1..Len(out): j <= s_i * Chunk
      BY <2>2, <3>2, <3>3, <3>4
    <3>. QED  BY <2>0, <2>10, <3>4, <3>5 DEF IInv, WholeInv, SentPartsAreRight
  <2>11. WholeInv'
    BY <2>0, <2>9, <2>10 DEF WholeInv, Piece
  <2>. QED  BY <2>6, <2>7, <2>8, <2>11 DEF IInv
<1>. QED  BY <1>3, <1>4 DEF SendPart, Piece

\* The receiver learns the size, or keeps what it had.
LEMMA ReceiveSizeInv ==
  ASSUME IInv, Receiver, ReceiveSize
  PROVE  IInv'
<1>. USE DEF IInv, Receiver, ReceiveSize, sVars
<1>1. r_pc = "size" /\ r_i = 0 /\ up = 0
  BY DEF ReceiverInv
<1>2. /\ r_size \in Nat /\ Len(file) \in Nat /\ s_i \in Nat
      /\ \A f \in Files: Len(f) \in Nat
  BY Sizes
<1>3. s_i = 0 /\ s_pc # "chunk"
  BY <1>1, <1>2 DEF StepInv, Asked, Ended, TypeOK
<1>4. r_size' = Len(file) \/ s_pc = "dead"
  <2>1. CASE r_size' \in header
    BY <2>1 DEF TypeOK
  <2>2. CASE header = {} /\ s_pc \in Ended
    BY <1>1, <2>2 DEF ReceiverInv, Ended
  <2>. QED  BY <2>1, <2>2
<1>5. r_size' \in {Len(f): f \in Files} /\ r_size' \in Nat
  BY <1>2 DEF TypeOK
<1>6. \/ r_pc' = "sync" /\ 0 < Parts(r_size')
      \/ r_pc' = "done" /\ 0 = Parts(r_size')
  BY <1>5, OffZero, ProceedCases
<1>7. Len(out) = 0 /\ Off(r_size', 0) = 0 /\ Parts(r_size') \in Nat
  BY <1>1, <1>2, <1>5, OffZero DEF ReceiverInv
<1>8. TypeOK'
  BY <1>1, <1>5, <1>6, <1>7 DEF TypeOK, Ended
<1>9. SenderInv'
  BY <1>1 DEF SenderInv, Ended
<1>10. ReceiverInv'
  BY <1>1, <1>3, <1>4, <1>6, <1>7 DEF ReceiverInv
<1>11. StepInv'
  BY <1>1, <1>3, <1>6 DEF StepInv, Asked
<1>12. WholeInv'
  BY <1>1, <1>3 DEF WholeInv, SentPartsAreRight, Piece, Ended
<1>. QED  BY <1>8, <1>9, <1>10, <1>11, <1>12

\* The receiver asks for a part.
LEMMA SendSyncInv ==
  ASSUME IInv, Receiver, SendSync
  PROVE  IInv'
<1>. USE DEF IInv, Receiver, SendSync, sVars
<1>1. s_i \in Nat /\ r_i \in Nat /\ up \in Nat /\ r_size \in Nat
  BY Sizes
<1>2. r_pc = "sync" /\ r_i < Parts(r_size) /\ up <= r_i
  BY <1>1 DEF ReceiverInv, StepInv, Asked, Ended
<1>3. TypeOK'
  <2>1. up' \in 0..Parts(r_size)
    BY <1>1, <1>2, Sizes DEF TypeOK
  <2>. QED  BY <2>1 DEF TypeOK, Ended
<1>4. SenderInv' /\ ReceiverInv'
  BY <1>2 DEF SenderInv, ReceiverInv, Ended
<1>5. StepInv'
  BY <1>1, <1>2 DEF StepInv, Asked, Ended
<1>6. WholeInv'
  BY <1>2 DEF WholeInv, SentPartsAreRight, Piece, Ended
<1>. QED  BY <1>3, <1>4, <1>5, <1>6

\* The receiver writes a part, or finds that the sender is gone.
LEMMA ReceiveAndWriteInv ==
  ASSUME IInv, Receiver, ReceiveAndWrite
  PROVE  IInv'
<1>. DEFINE N == Len(file)
            asked == Part(r_size, r_i)
<1>1. /\ file \in Seq(Byte) /\ N \in Nat /\ s_i \in Nat /\ r_i \in Nat
      /\ up \in Nat /\ r_size \in Nat /\ down \in Seq(Byte)
      /\ out \in Seq(Byte \cup {JUNK})
  BY Sizes DEF IInv, TypeOK
<1>2. r_pc = "chunk" /\ r_i < Parts(r_size)
  BY DEF IInv, ReceiveAndWrite, ReceiverInv
<1>3. /\ asked \in 1..Chunk
      /\ Off(r_size, r_i) = r_i * Chunk
      /\ Off(r_size, r_i + 1) = r_i * Chunk + asked
      /\ r_i * Chunk + asked <= r_size
      /\ r_i * Chunk \in Nat
  BY <1>1, <1>2, PartBounds
<1>4. CASE ReceiverReset /\ r_pc' = "failed" /\ UNCHANGED <<chunk, out, down, r_i>>
  <2>. USE <1>4 DEF IInv, Receiver, ReceiveAndWrite, sVars
  <2>1. TypeOK'
    BY DEF TypeOK, Ended
  <2>2. SenderInv' /\ ReceiverInv'
    BY <1>2 DEF SenderInv, ReceiverInv, Ended
  <2>3. StepInv' /\ WholeInv'
    BY DEF StepInv, WholeInv, SentPartsAreRight, Piece, Ended
  <2>. QED  BY <2>1, <2>2, <2>3
<1>5. ASSUME NEW n \in Read(asked) \cup
                         IF down = <<>> /\ s_pc \in Ended THEN {0} ELSE {},
             chunk' = Filled(n),
             out' = out \o SubSeq(chunk', 1, asked),
             down' = SubSeq(down, n + 1, Len(down)),
             r_i' = r_i + 1,
             r_pc' = Proceed(r_size, r_i + 1)
      PROVE  IInv'
  <2>. USE <1>5
  <2>0. UNCHANGED <<file, s_pc, s_i, r_size, header, up>>
    BY DEF Receiver, ReceiveAndWrite, sVars
  <2>1. /\ n \in 0..asked /\ n <= Len(down)
        /\ n = 0 => down = <<>> /\ s_pc \in Ended
        /\ ~ShortReads /\ n # 0
             => n = IF asked <= Len(down) THEN asked ELSE Len(down)
    <3>1. asked \in Nat /\ Len(down) \in Nat
      BY <1>1, <1>3, ChunkAssumption
    <3>2. CASE n \in Read(asked)
      BY <1>1, <3>1, <3>2, ReadBounds
    <3>3. CASE n = 0 /\ down = <<>> /\ s_pc \in Ended
      BY <3>1, <3>3
    <3>. QED  BY <3>2, <3>3
  <2>2. /\ chunk' \in [1..Chunk -> Byte \cup {JUNK}]
        /\ out' \in Seq(Byte \cup {JUNK})
        /\ Len(out') = Len(out) + asked
        /\ \A j \in 1..Len(out): out'[j] = out[j]
        /\ \A j \in 1..asked: j <= n => out'[Len(out) + j] = down[j]
    BY <1>3, <2>1, Written DEF IInv
  <2>3. down' \in Seq(Byte) /\ Len(down') = Len(down) - n
    BY <1>1, <2>1
  <2>4. Len(out) = r_i * Chunk /\ Len(out') = Off(r_size, r_i + 1)
    BY <1>3, <2>2 DEF IInv, ReceiverInv
  <2>5. r_i + 1 \in 0..Parts(r_size)
    BY <1>1, <1>2, OffZero
  <2>6. \/ r_pc' = "sync" /\ r_i' < Parts(r_size)
        \/ r_pc' = "done" /\ r_i' = Parts(r_size)
    BY <1>1, <2>5, ProceedCases
  <2>7. TypeOK'
    <3>1. Len(out') <= r_size
      BY <1>3, <2>4
    <3>2. Len(down') <= Len(file)
      BY <1>1, <2>1, <2>3 DEF IInv, TypeOK
    <3>. QED  BY <2>0, <2>2, <2>3, <2>5, <2>6, <3>1, <3>2 DEF IInv, TypeOK, Ended
  <2>8. SenderInv'
    <3>1. Len(down') <= Off(Len(file), s_i)
      <4>1. Off(Len(file), s_i) \in Nat
        BY <1>1, OffBounds DEF IInv, TypeOK
      <4>. QED  BY <1>1, <2>1, <2>3, <4>1 DEF IInv, SenderInv
    <3>. QED  BY <2>0, <1>2, <3>1 DEF IInv, SenderInv, Ended
  <2>9. ReceiverInv'
    BY <2>0, <1>2, <2>4, <2>6 DEF IInv, ReceiverInv
  <2>10. StepInv'
    BY <2>0, <1>1, <1>2, <2>6 DEF IInv, StepInv, Asked, Ended
  <2>11. ASSUME ~ShortReads
         PROVE  WholeInv'
    <3>1. down = IF r_i < s_i THEN Piece(r_i) ELSE <<>>
      BY <1>2, <2>11 DEF IInv, WholeInv, Ended
    <3>2. CASE r_i < s_i
      <4>1. r_size = N
        BY <1>1, <1>2, <3>2 DEF IInv, ReceiverInv
      <4>2. /\ Len(down) = asked
            /\ \A j \in 1..asked: down[j] = file[r_i * Chunk + j]
        BY <1>1, <1>2, <3>1, <3>2, <4>1, PieceOfFile DEF IInv
      <4>3. n = asked /\ down' = <<>>
        BY <1>1, <1>3, <2>1, <2>3, <2>11, <4>2
      <4>4. s_i <= r_i + 1
        BY <1>1, <1>2 DEF IInv, StepInv, Asked, Ended
      <4>5. ASSUME NEW j \in 1..Len(out'), j <= s_i * Chunk
            PROVE  out'[j] = file[j]
        <5>1. CASE j <= Len(out)
          BY <2>0, <1>1, <2>2, <2>11, <4>5, <5>1 DEF IInv, WholeInv, SentPartsAreRight
        <5>2. CASE j > Len(out)
          <6>1. /\ j - Len(out) \in 1..asked
                /\ j = Len(out) + (j - Len(out))
            BY <1>1, <1>3, <2>2, <2>4, <4>5, <5>2
          <6>2. out'[j] = down[j - Len(out)]
            BY <2>2, <4>3, <6>1
          <6>. QED  BY <2>4, <4>2, <6>1, <6>2
        <5>. QED  BY <1>1, <2>2, <4>5, <5>1, <5>2
      <4>6. SentPartsAreRight'
        BY <2>0, <2>2, <4>5 DEF SentPartsAreRight
      <4>7. r_i' <= s_i' /\ ~(r_i' < s_i')
        BY <2>0, <1>1, <3>2, <4>4
      <4>. QED  BY <2>0, <4>3, <4>6, <4>7 DEF WholeInv
    <3>3. CASE s_i <= r_i
      <4>1. down = <<>> /\ down' = <<>> /\ s_pc \in Ended
        BY <1>1, <2>1, <2>3, <3>1, <3>3
      <4>2. s_pc # "done"
        BY <1>1, <1>2, <3>3 DEF IInv, SenderInv, ReceiverInv
      <4>3. s_i * Chunk <= Len(out) /\ s_i * Chunk \in Nat
        BY <1>1, <2>4, <3>3, Monotone
      <4>4. SentPartsAreRight'
        BY <2>0, <1>1, <2>2, <2>11, <4>3 DEF IInv, WholeInv, SentPartsAreRight
      <4>5. ~(r_i' < s_i') /\ s_pc' = "dead"
        BY <1>1, <1>2, <2>0, <3>3, <4>1, <4>2 DEF Ended, IInv, SenderInv
      <4>. QED  BY <4>1, <4>4, <4>5 DEF WholeInv
    <3>. QED  BY <1>1, <3>2, <3>3
  <2>12. WholeInv'
    BY <2>11 DEF WholeInv
  <2>. QED  BY <2>7, <2>8, <2>9, <2>10, <2>12 DEF IInv
<1>. QED  BY <1>4, <1>5 DEF ReceiveAndWrite

\* One side dies.
LEMMA DeathsInv ==
  ASSUME IInv, Deaths
  PROVE  IInv'
<1>. USE DEF IInv, Deaths, sVars, rVars
<1>1. CASE SenderDies /\ UNCHANGED <<file, rVars>>
  <2>. USE <1>1 DEF SenderDies
  <2>1. TypeOK' /\ SenderInv' /\ ReceiverInv'
    BY DEF TypeOK, SenderInv, ReceiverInv, Ended
  <2>2. StepInv' /\ WholeInv'
    BY Sizes DEF StepInv, Asked, WholeInv, SentPartsAreRight, Piece
  <2>. QED  BY <2>1, <2>2
<1>2. CASE ReceiverDies /\ UNCHANGED <<file, sVars>>
  <2>. USE <1>2 DEF ReceiverDies
  <2>1. TypeOK' /\ SenderInv' /\ ReceiverInv'
    BY DEF TypeOK, SenderInv, ReceiverInv, Ended
  <2>2. StepInv' /\ WholeInv'
    BY DEF StepInv, WholeInv, SentPartsAreRight, Piece, Ended
  <2>. QED  BY <2>1, <2>2
<1>. QED  BY <1>1, <1>2

\* No step of either function, and no death, breaks IInv.
LEMMA NextInv == IInv /\ [Next]_vars => IInv'
<1>. SUFFICES ASSUME IInv, [Next]_vars PROVE IInv'
  OBVIOUS
<1>1. CASE Sender
  BY <1>1, SendSizeInv, AwaitSyncInv, SendPartInv DEF Sender
<1>2. CASE Receiver
  BY <1>2, ReceiveSizeInv, SendSyncInv, ReceiveAndWriteInv DEF Receiver
<1>3. CASE UNCHANGED vars
  BY <1>3 DEF vars, sVars, rVars, IInv, TypeOK, SenderInv, ReceiverInv, StepInv,
              Asked, WholeInv, SentPartsAreRight, Piece
<1>. QED  BY <1>1, <1>2, <1>3, DeathsInv DEF Next

\* IInv holds in every state.
THEOREM Invariance == Spec => []IInv
<1>. QED  BY InitInv, NextInv, PTL DEF Spec

-----------------------------------------------------------------------------
(* What follows from it *)

\* The counters, queues and the copy stay in their bounds (TCPMan.cpp:55-128),
\* whatever recv() returns and whoever dies.
THEOREM TypeCorrect == Spec => []TypeOK
<1>1. IInv => TypeOK
  BY DEF IInv
<1>. QED  BY <1>1, Invariance, PTL

\* The sender sends no part that was not asked for (TCPMan.cpp:77, 85), and a
\* receiver that takes whole parts never has more than one waiting.
THEOREM InLockStep == Spec => []LockStep
<1>1. IInv => LockStep
  <2>. SUFFICES ASSUME IInv, r_pc \notin Ended, ~ShortReads
                PROVE  Len(down) <= Chunk
    BY DEF IInv, StepInv, LockStep
  <2>1. s_i \in Nat /\ r_i \in Nat /\ up \in Nat /\ Len(file) \in Nat
    BY Sizes DEF IInv
  <2>2. down = IF r_i < s_i THEN Piece(r_i) ELSE <<>>
    BY DEF IInv, WholeInv
  <2>3. CASE r_i < s_i
    <3>1. r_i < Parts(Len(file))
      BY <2>1, <2>3, Sizes DEF IInv, TypeOK
    <3>2. Len(down) = Part(Len(file), r_i)
      BY <2>1, <2>2, <2>3, <3>1, PieceOfFile DEF IInv
    <3>. QED  BY <2>1, <3>1, <3>2, PartBounds, ChunkAssumption
  <2>4. CASE ~(r_i < s_i)
    BY <2>2, <2>4, ChunkAssumption
  <2>. QED  BY <2>3, <2>4
<1>. QED  BY <1>1, Invariance, PTL

\* A part that was sent is in its place, whoever dies (TCPMan.cpp:114-116), if
\* recv() returns whole parts.
THEOREM SentIsRight ==
  ASSUME ~ShortReads
  PROVE  Spec => []SentPartsAreRight
<1>1. IInv => SentPartsAreRight
  BY DEF IInv, WholeInv
<1>. QED  BY <1>1, Invariance, PTL

\* The copy has the size of the file when the receiver returns, unless the
\* sender was killed before it sent a part (TCPMan.cpp:108-124).
THEOREM SizeIsKept == Spec => []SizeKept
<1>1. IInv => SizeKept
  <2>. SUFFICES ASSUME IInv, r_pc = "done", s_pc = "dead" => s_i > 0
                PROVE  Len(out) = Len(file)
    BY DEF SizeKept
  <2>1. r_size = Len(file)
    BY DEF IInv, ReceiverInv, TypeOK
  <2>2. r_i = Parts(r_size) /\ Len(out) = Off(r_size, r_i)
    BY DEF IInv, ReceiverInv
  <2>. QED  BY <2>1, <2>2, Sizes, OffBounds DEF IInv, TypeOK
<1>. QED  BY <1>1, Invariance, PTL

-----------------------------------------------------------------------------
(* The transfer implements FileCopy *)

\* What the receiver wrote is the beginning of the file, and all of it at the end.
Prefix ==
  /\ Len(out) \in 0..Len(file)
  /\ out = SubSeq(file, 1, Len(out))
  /\ r_pc = "done" => out = file

\* It follows from the invariant when reads are whole and nobody dies.
LEMMA OutIsPrefix ==
  ASSUME ~ShortReads, ~MayDie, IInv
  PROVE  Prefix
<1>1. /\ file \in Seq(Byte) /\ Len(file) \in Nat /\ s_i \in Nat /\ r_i \in Nat
      /\ out \in Seq(Byte \cup {JUNK}) /\ Len(out) \in Nat
  BY Sizes DEF IInv, TypeOK
<1>2. s_pc # "dead" /\ r_pc # "dead"
  BY DEF IInv, SenderInv, ReceiverInv
<1>3. r_pc # "size" => r_size = Len(file)
  BY <1>2 DEF IInv, ReceiverInv, TypeOK, Ended
<1>4. r_pc = "size" => Len(out) = 0
  BY Sizes, OffZero DEF IInv, ReceiverInv
<1>5. Len(out) \in 0..Len(file)
  BY <1>1, <1>3, <1>4 DEF IInv, TypeOK
<1>6. \A j \in 1..Len(out): j <= s_i * Chunk
  <2>1. Len(out) <= r_i * Chunk
    BY Sizes, OffBounds DEF IInv, ReceiverInv, TypeOK
  <2>2. r_i * Chunk <= s_i * Chunk /\ r_i * Chunk \in Nat /\ s_i * Chunk \in Nat
    BY <1>1, <1>2, Monotone DEF IInv, WholeInv
  <2>. QED  BY <1>1, <2>1, <2>2
<1>7. \A j \in 1..Len(out): out[j] = file[j]
  BY <1>1, <1>6 DEF IInv, WholeInv, SentPartsAreRight
<1>8. out = SubSeq(file, 1, Len(out))
  BY <1>1, <1>5, <1>7
<1>9. ASSUME r_pc = "done"
      PROVE  out = file
  <2>1. Len(out) = Len(file)
    BY <1>3, <1>9, Sizes, OffBounds DEF IInv, ReceiverInv, TypeOK
  <2>. QED  BY <1>1, <1>7, <2>1
<1>. QED  BY <1>5, <1>8, <1>9 DEF Prefix

\* The transfer starts where FileCopy does.
LEMMA InitRefines == Init => Copy!Init
  BY DEF Init, Copy!Init

\* Each step writes the next piece of the file, finishes the copy, or changes
\* nothing that FileCopy sees.
LEMMA NextRefines ==
  ASSUME ~MayDie, IInv, IInv', Prefix, Prefix', [Next]_vars
  PROVE  [Copy!Next]_(Copy!vars)
<1>1. CASE UNCHANGED <<file, out, r_pc>>
  BY <1>1 DEF Copy!vars
<1>2. CASE r_pc # "done" /\ r_pc' = "done" /\ file' = file
  <2>1. out' = file'
    BY <1>2 DEF Prefix
  <2>. QED  BY <1>2, <2>1 DEF Copy!Next, Copy!Finish
<1>3. CASE r_pc # "done" /\ r_pc' # "done" /\ UNCHANGED <<file, out>>
  BY <1>3 DEF Copy!vars
<1>4. CASE /\ r_pc # "done" /\ r_pc' # "done" /\ file' = file
           /\ Len(out') \in Len(out) + 1..Len(file)
  <2>1. out' = SubSeq(file', 1, Len(out'))
    BY DEF Prefix
  <2>. QED  BY <1>4, <2>1 DEF Copy!Next, Copy!Write
<1>5. CASE Sender
  BY <1>1, <1>5 DEF Sender, rVars
<1>6. CASE Receiver /\ ReceiveSize
  BY <1>2, <1>3, <1>6 DEF Receiver, ReceiveSize
<1>7. CASE Receiver /\ SendSync
  BY <1>3, <1>7 DEF Receiver, SendSync
<1>8. CASE Receiver /\ ReceiveAndWrite
  <2>1. CASE r_pc' = "failed" /\ UNCHANGED out
    BY <1>3, <1>8, <2>1 DEF Receiver, ReceiveAndWrite
  <2>2. ASSUME NEW n \in Read(Part(r_size, r_i)) \cup
                           IF down = <<>> /\ s_pc \in Ended THEN {0} ELSE {},
               chunk' = Filled(n),
               out' = out \o SubSeq(chunk', 1, Part(r_size, r_i))
        PROVE  Len(out') > Len(out)
    <3>1. /\ r_size \in Nat /\ r_i \in Nat /\ r_i < Parts(r_size)
          /\ down \in Seq(Byte) /\ out \in Seq(Byte \cup {JUNK})
      BY <1>8, Sizes DEF IInv, TypeOK, ReceiverInv, ReceiveAndWrite
    <3>2. Part(r_size, r_i) \in 1..Chunk
      BY <3>1, PartBounds
    <3>3. chunk' \in [1..Chunk -> Byte \cup {JUNK}]
      BY DEF IInv, TypeOK
    <3>4. /\ chunk' \in Seq(Byte \cup {JUNK})
          /\ Len(chunk') = Chunk
      BY <3>3, ChunkAssumption
    <3>5. /\ SubSeq(chunk', 1, Part(r_size, r_i)) \in Seq(Byte \cup {JUNK})
          /\ Len(SubSeq(chunk', 1, Part(r_size, r_i))) = Part(r_size, r_i)
      BY <3>2, <3>4, ChunkAssumption
    <3>6. Len(out') = Len(out) + Part(r_size, r_i)
      BY <2>2, <3>1, <3>5, Joined
    <3>. QED  BY <3>1, <3>2, <3>6, ChunkAssumption
  <2>3. ASSUME Len(out') > Len(out)
        PROVE  [Copy!Next]_(Copy!vars)
    <3>1. Len(out') \in 0..Len(file') /\ Len(out) \in Nat
      BY DEF Prefix
    <3>2. file' = file /\ r_pc # "done"
      BY <1>8 DEF Receiver, ReceiveAndWrite
    <3>3. Len(out') \in Len(out) + 1..Len(file)
      BY <2>3, <3>1, <3>2, Sizes DEF IInv
    <3>. QED  BY <1>2, <1>4, <3>2, <3>3
  <2>. QED  BY <1>8, <2>1, <2>2, <2>3 DEF ReceiveAndWrite
<1>9. ~Deaths
  BY DEF Deaths, SenderDies, ReceiverDies
<1>10. CASE UNCHANGED vars
  BY <1>1, <1>10 DEF vars, rVars
<1>. QED  BY <1>5, <1>6, <1>7, <1>8, <1>9, <1>10 DEF Next, Receiver

\* When recv() returns whole parts and nobody dies, the copy is the file.
THEOREM ImplementsCopy ==
  ASSUME ~ShortReads, ~MayDie
  PROVE  Spec => CopySpec
<1>. USE DEF Copy!Spec, CopySpec
<1>1. IInv => Prefix
  BY OutIsPrefix
<1>2. IInv /\ IInv' /\ Prefix /\ Prefix' /\ [Next]_vars
        => [Copy!Next]_(Copy!vars)
  BY NextRefines
<1>. QED  BY <1>1, <1>2, InitRefines, Invariance, PTL DEF Spec

-----------------------------------------------------------------------------
(* The client loop *)

\* Types, and what each flag says about the socket: inductive together.
LoopInv == ClientTypeOK /\ FlagsTellLink

USE DEF Links, Connected

LEMMA LoopStarts == ClientInit => LoopInv /\ OneDescriptorPerConnection
<1> SUFFICES ASSUME ClientInit PROVE LoopInv /\ OneDescriptorPerConnection
  OBVIOUS
<1>1. ClientTypeOK
  <2>1. fds \in FdBase..FdLimit /\ made \in Nat /\ heart \in Floor..HeartBeat /\ rx \in 0..MaxRx
    BY HeartBeatAssumption, FloorAssumption, MaxRxAssumption, FdAssumption DEF ClientInit
  <2>2. opened \in BOOLEAN /\ binded \in BOOLEAN /\ listening \in BOOLEAN
    BY Zenon DEF ClientInit
  <2> QED
    BY <2>1, <2>2 DEF ClientInit, ClientTypeOK
<1>2. FlagsTellLink
  BY DEF ClientInit, FlagsTellLink
<1>3. OneDescriptorPerConnection
  BY FdAssumption DEF ClientInit, OneDescriptorPerConnection
<1> QED
  BY <1>1, <1>2, <1>3 DEF LoopInv

\* What the server does to the connection changes no flag.
LEMMA ServerKeeps == LoopInv /\ Server => LoopInv'
<1> SUFFICES ASSUME LoopInv, Server PROVE LoopInv'
  OBVIOUS
<1>1. CASE Listen
  BY <1>1 DEF LoopInv, ClientTypeOK, FlagsTellLink, Server, Listen, object
<1>2. CASE ServerSends
  BY <1>2, MaxRxAssumption DEF LoopInv, ClientTypeOK, FlagsTellLink, Server, ServerSends, object
<1>3. CASE ServerHangsUp
  BY <1>3 DEF LoopInv, ClientTypeOK, FlagsTellLink, Server, ServerHangsUp, object
<1> QED
  BY <1>1, <1>2, <1>3 DEF Server

\* The counter of rounds stays in its bounds.
LEMMA DecrementedBounds ==
  ASSUME ClientTypeOK PROVE Decremented \in Floor..HeartBeat
  BY HeartBeatAssumption, FloorAssumption DEF ClientTypeOK, Decremented

LEMMA ClientKeeps == LoopInv /\ Client => LoopInv'
<1> SUFFICES ASSUME LoopInv, Client PROVE LoopInv'
  OBVIOUS
<1>1. CASE While
  BY <1>1 DEF LoopInv, ClientTypeOK, FlagsTellLink, Client, While, At, object
<1>2. CASE Receive
  <2>1. rx' \in 0..MaxRx
    BY <1>2, MaxRxAssumption DEF LoopInv, ClientTypeOK, Receive
  <2> QED
    BY <1>2, <2>1 DEF LoopInv, ClientTypeOK, FlagsTellLink, Client, Receive, At, object
<1>3. CASE Ack
  BY <1>3 DEF LoopInv, ClientTypeOK, FlagsTellLink, Client, Ack, Sent, SendFails, At, object
<1>4. CASE Beat
  <2>1. heart' \in Floor..HeartBeat
    BY <1>4, DecrementedBounds, HeartBeatAssumption, FloorAssumption DEF LoopInv, Beat
  <2> QED
    BY <1>4, <2>1 DEF LoopInv, ClientTypeOK, FlagsTellLink, Client, Beat, Sent, SendFails, At, object
<1>5. CASE Stop
  <2>1. UNCHANGED <<proc, fds, made, heart, listening>> /\ pc' = "connect"
    BY <1>5 DEF Client, Stop, At
  <2>2. CASE type = "client"
    <3>1. opened' = FALSE /\ binded' = FALSE /\ type' = "uninit" /\ link' = "closed" /\ rx' = 0
      BY <1>5, <2>2 DEF Stop
    <3>2. opened' \in BOOLEAN /\ binded' \in BOOLEAN /\ ~opened' /\ ~binded'
      BY <3>1, Zenon
    <3>3. rx' \in 0..MaxRx
      BY <3>1, MaxRxAssumption
    <3>4. FlagsTellLink'
      BY <3>1, <3>2 DEF FlagsTellLink
    <3> QED
      BY <2>1, <3>1, <3>2, <3>3, <3>4 DEF LoopInv, ClientTypeOK
  <2>3. CASE type # "client"
    <3>1. UNCHANGED <<opened, binded, type, link, rx>> /\ ~binded
      BY <1>5, <2>3 DEF Stop, object, LoopInv, FlagsTellLink
    <3> QED
      BY <2>1, <3>1 DEF LoopInv, ClientTypeOK, FlagsTellLink
  <2> QED
    BY <2>2, <2>3
<1>6. CASE Connect
  <2>1. fds' \in FdBase..FdLimit /\ made' \in Nat
    BY <1>6, FdAssumption DEF LoopInv, ClientTypeOK, Connect, NeedsSocket
  <2>2. UNCHANGED <<proc, rx, heart, listening>> /\ pc' = "while"
    BY <1>6 DEF Client, Connect, At
  <2>3. CASE UNCHANGED <<object, link>>
    BY <2>1, <2>2, <2>3 DEF LoopInv, ClientTypeOK, FlagsTellLink, object
  <2>4. CASE opened' = TRUE /\ binded' = TRUE /\ type' = "client" /\ link' = "open"
    BY <2>1, <2>2, <2>4 DEF LoopInv, ClientTypeOK, FlagsTellLink
  <2>5. CASE ~binded /\ opened' = TRUE /\ link' = "fresh" /\ UNCHANGED <<binded, type>>
    BY <2>1, <2>2, <2>5 DEF LoopInv, ClientTypeOK, FlagsTellLink
  <2> QED
    BY <1>6, <2>3, <2>4, <2>5 DEF Connect
<1> QED
  BY <1>1, <1>2, <1>3, <1>4, <1>5, <1>6 DEF Client

LEMMA StutterKeeps == LoopInv /\ UNCHANGED clientVars => LoopInv'
  BY DEF LoopInv, ClientTypeOK, FlagsTellLink, clientVars, object

\* The inductive invariant: types, and what each flag says about the socket.
THEOREM LoopInvariance == ClientSpec => []LoopInv
<1>1. ClientInit => LoopInv
  BY LoopStarts
<1>2. LoopInv /\ [ClientNext]_clientVars => LoopInv'
  BY ServerKeeps, ClientKeeps, StutterKeeps DEF ClientNext
<1> QED
  BY <1>1, <1>2, PTL DEF ClientSpec

\* For every bound: the variables of the loop keep their types.
THEOREM LoopTypes == ClientSpec => []ClientTypeOK
  BY LoopInvariance, PTL DEF LoopInv

\* For every bound, and any number of connections and failed attempts: the flags
\* of the object follow its socket.
THEOREM FlagsAreRight == ClientSpec => []FlagsTellLink
  BY LoopInvariance, PTL DEF LoopInv

-----------------------------------------------------------------------------

\* Only a step that leaves the connection, or makes one, touches the account of
\* the descriptors.
LEMMA DescriptorStep ==
  LoopInv /\ OneDescriptorPerConnection /\ [ClientNext]_clientVars => OneDescriptorPerConnection'
<1> SUFFICES ASSUME LoopInv, OneDescriptorPerConnection, [ClientNext]_clientVars
             PROVE  OneDescriptorPerConnection'
  OBVIOUS
<1> USE FdAssumption
<1>1. CASE Server
  BY <1>1 DEF OneDescriptorPerConnection, Server, Listen, ServerSends, ServerHangsUp
<1>2. CASE While
  BY <1>2 DEF OneDescriptorPerConnection, While
<1>3. CASE Receive
  BY <1>3 DEF OneDescriptorPerConnection, Receive
<1>4. CASE Ack
  BY <1>4 DEF OneDescriptorPerConnection, Ack, Sent, SendFails
<1>5. CASE Beat
  BY <1>5 DEF OneDescriptorPerConnection, Beat, Sent, SendFails
<1>6. CASE Stop
  BY <1>6 DEF LoopInv, FlagsTellLink, OneDescriptorPerConnection, Stop
<1>7. CASE Connect
  BY <1>7 DEF LoopInv, ClientTypeOK, FlagsTellLink, OneDescriptorPerConnection, Connect, NeedsSocket,
              object
<1>8. CASE UNCHANGED clientVars
  BY <1>8 DEF OneDescriptorPerConnection, clientVars
<1> QED
  BY <1>1, <1>2, <1>3, <1>4, <1>5, <1>6, <1>7, <1>8 DEF ClientNext, Client

\* For every bound: the process has lost exactly one descriptor for each connection
\* it ever made.
THEOREM DescriptorsAreCounted == ClientSpec => []OneDescriptorPerConnection
<1>1. ClientInit => OneDescriptorPerConnection
  BY LoopStarts
<1> QED
  BY <1>1, LoopInvariance, DescriptorStep, PTL DEF ClientSpec

=============================================================================
