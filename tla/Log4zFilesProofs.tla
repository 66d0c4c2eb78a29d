-------------------------- MODULE Log4zFilesProofs --------------------------
(***************************************************************************)
(* Proofs about Log4zFiles for any attributes, messages, limits and        *)
(* lengths of a day: type correctness, that every line is whole, that the  *)
(* messages in a file are of one day, that a file that is begun because    *)
(* the last one is full is a new one, and that no file grows beyond what   *)
(* its openings allow.                                                     *)
(***************************************************************************)
EXTENDS Log4zFiles, SequenceTheorems, WellFoundedInduction, TLAPS

-----------------------------------------------------------------------------
(* Recursion over the numbers up to N *)

LEMMA LeastNumber ==
  ASSUME NEW T \in SUBSET Nat, T # {}
  PROVE  \E n \in T: \A m \in T: n <= m
<1>. DEFINE R == OpToRel(<, Nat)
<1>1. IsWellFoundedOn(R, Nat)
  BY NatLessThanWellFounded
<1>2. \A m, n \in Nat: m < n => <<m, n>> \in R
  BY DEF OpToRel
<1>. HIDE DEF R
<1>3. PICK n \in T: \A m \in T: ~(<<m, n>> \in R)
  BY <1>1, WFMin
<1>4. \A m \in T: m \in Nat /\ n \in Nat /\ ~(m < n)
  BY <1>2, <1>3
<1>5. \A m \in T: n <= m
  BY <1>4
<1>. QED  BY <1>5

\* Induction up to N: T is the set of the numbers for which the claim holds.
LEMMA Induction ==
  ASSUME NEW N \in Nat, NEW T, 0 \in T, \A n \in 1..N: n - 1 \in T => n \in T
  PROVE  0..N \subseteq T
<1>. DEFINE C == (0..N) \ T
<1>. SUFFICES ASSUME C # {} PROVE FALSE
  OBVIOUS
<1>1. PICK n \in C: \A m \in C: n <= m
  <2>1. C \in SUBSET Nat
    OBVIOUS
  <2>. HIDE DEF C
  <2>. QED  BY <2>1, LeastNumber
<1>2. n \in 1..N /\ n - 1 \in 0..N /\ n - 1 \notin C
  BY <1>1
<1>. QED  BY <1>2

Follows(f, b, N, step) ==
  \A n \in 0..N: f[n] = IF n = 0 THEN b ELSE step[n][f[n - 1]]

\* What begins with b and goes on by a function of S at each step exists.
LEMMA RecursionExists ==
  ASSUME NEW S, NEW b \in S, NEW N \in Nat, NEW step \in [1..N -> [S -> S]]
  PROVE  \E f \in [0..N -> S]: Follows(f, b, N, step)
<1>. DEFINE P(N_1) == \E f \in [0..N_1 -> S]:
                        \A n \in 0..N_1: f[n] = IF n = 0 THEN b ELSE step[n][f[n - 1]]
            T == {n \in 0..N: P(n)}
<1>1. P(0)
  <2>. DEFINE f == [n \in 0..0 |-> b]
  <2>1. f \in [0..0 -> S] /\ \A n \in 0..0: n = 0 /\ f[n] = b
    OBVIOUS
  <2>. HIDE DEF f
  <2>. QED  BY <2>1
<1>2. ASSUME NEW k \in 1..N, P(k - 1)
      PROVE  P(k)
  <2>1. PICK f \in [0..k - 1 -> S]:
          \A n \in 0..k - 1: f[n] = IF n = 0 THEN b ELSE step[n][f[n - 1]]
    BY <1>2
  <2>. DEFINE g == [n \in 0..k |-> IF n = k THEN step[k][f[k - 1]] ELSE f[n]]
  <2>2. g \in [0..k -> S]
    <3>1. step[k][f[k - 1]] \in S
      BY <2>1
    <3>. QED  BY <3>1
  <2>3. \A n \in 0..k: g[n] = IF n = 0 THEN b ELSE step[n][g[n - 1]]
    BY <2>1
  <2>. HIDE DEF g
  <2>. QED  BY <2>2, <2>3
<1>. HIDE DEF P
<1>3. 0..N \subseteq T
  <2>1. 0 \in T /\ \A n \in 1..N: n - 1 \in T => n \in T
    BY <1>1, <1>2
  <2>. HIDE DEF T
  <2>. QED  BY <2>1, Induction
<1>4. P(N)
  BY <1>3
<1>. QED  BY <1>4 DEF P, Follows

-----------------------------------------------------------------------------
(* The bytes of a sequence of messages *)

Partial(s) ==
  CHOOSE f: f = [n \in 0..Len(s) |-> IF n = 0 THEN 0 ELSE f[n - 1] + s[n].len]

\* The first sums of messages with a length.
LEMMA PartialSums ==
  ASSUME NEW s, Len(s) \in Nat, \A n \in 1..Len(s): s[n].len \in Nat
  PROVE  /\ Partial(s) \in [0..Len(s) -> Nat]
         /\ Partial(s)[0] = 0
         /\ \A n \in 1..Len(s): Partial(s)[n] = Partial(s)[n - 1] + s[n].len
         /\ Bytes(s) = Partial(s)[Len(s)]
<1>. DEFINE N == Len(s)
            S == Nat
            zero == 0
            step == [n \in 1..N |-> [x \in Nat |-> x + s[n].len]]
            Is(f) == f = [n \in 0..N |-> IF n = 0 THEN 0 ELSE f[n - 1] + s[n].len]
<1>0. N \in Nat
  OBVIOUS
<1>1. PICK f \in [0..N -> S]: Follows(f, zero, N, step)
  <2>1. step \in [1..N -> [S -> S]] /\ zero \in S
    OBVIOUS
  <2>. HIDE DEF step, N, zero, S
  <2>. QED  BY <1>0, <2>1, RecursionExists
<1>2. \A n \in 1..N, x \in Nat: step[n][x] = x + s[n].len
  OBVIOUS
<1>. HIDE DEF step
<1>3. ASSUME NEW n \in 1..N
      PROVE  f[n - 1] \in Nat /\ f[n] = f[n - 1] + s[n].len
  <2>1. n - 1 \in 0..N /\ n \in 0..N /\ n # 0
    BY <1>0
  <2>2. f[n - 1] \in Nat /\ f[n] = step[n][f[n - 1]]
    BY <1>1, <2>1 DEF Follows
  <2>. QED  BY <1>2, <2>2
<1>4. Is(f)
  BY <1>1, <1>3 DEF Follows
<1>5. Is(Partial(s))
  <2>1. Partial(s) = CHOOSE g: Is(g)
    BY DEF Partial
  <2>. HIDE DEF Is
  <2>. QED  BY <1>4, <2>1
<1>. DEFINE F == Partial(s)
<1>6. \A n \in 0..N: F[n] = IF n = 0 THEN 0 ELSE F[n - 1] + s[n].len
  <2>1. F = [n \in 0..N |-> IF n = 0 THEN 0 ELSE F[n - 1] + s[n].len]
    BY <1>5
  <2>. HIDE DEF F
  <2>. QED  BY <2>1
<1>7. F = [n \in 0..N |-> F[n]]
  <2>1. F = [n \in 0..N |-> IF n = 0 THEN 0 ELSE F[n - 1] + s[n].len]
    BY <1>5
  <2>. HIDE DEF F
  <2>. QED  BY <2>1
<1>. HIDE DEF F
<1>. DEFINE T == {n \in 0..N: F[n] \in Nat}
<1>8. 0 \in T /\ \A n \in 1..N: n - 1 \in T => n \in T
  <2>1. 0 \in T
    BY <1>0, <1>6
  <2>2. ASSUME NEW n \in 1..N, n - 1 \in T
        PROVE  n \in T
    <3>1. n \in 0..N /\ n # 0 /\ s[n].len \in Nat
      BY <1>0
    <3>2. F[n] = F[n - 1] + s[n].len /\ F[n - 1] \in Nat
      BY <1>6, <2>2, <3>1
    <3>. QED  BY <3>1, <3>2
  <2>. QED  BY <2>1, <2>2
<1>9. 0..N \subseteq T
  <2>. HIDE DEF T
  <2>. QED  BY <1>8, Induction
<1>10. F \in [0..N -> Nat]
  BY <1>7, <1>9
<1>11. Bytes(s) = F[N]
  BY DEF Bytes, F, Partial
<1>. QED  BY <1>6, <1>10, <1>11 DEF F

LEMMA BytesOfNone == Bytes(<<>>) = 0
<1>1. Len(<<>>) = 0
  OBVIOUS
<1>. QED  BY <1>1, PartialSums

\* A message adds its length.
LEMMA BytesOfOneMore ==
  ASSUME NEW S, NEW s \in Seq(S), NEW m \in S, \A x \in S: x.len \in Nat
  PROVE  Bytes(s) \in Nat /\ Bytes(Append(s, m)) = Bytes(s) + m.len
<1>. DEFINE N == Len(s)
            t == Append(s, m)
            F == Partial(s)
            G == Partial(t)
            T == {n \in 0..N: G[n] = F[n]}
<1>1. /\ N \in Nat /\ Len(t) = N + 1
      /\ \A n \in 1..N: s[n] \in S /\ t[n] = s[n]
      /\ t[N + 1] = m
  BY AppendProperties, LenProperties
<1>2. /\ F \in [0..N -> Nat] /\ F[0] = 0 /\ Bytes(s) = F[N]
      /\ \A n \in 1..N: F[n] = F[n - 1] + s[n].len
  BY <1>1, PartialSums
<1>3. /\ G[0] = 0 /\ Bytes(t) = G[N + 1]
      /\ \A n \in 1..N + 1: G[n] = G[n - 1] + t[n].len
  <2>1. Len(t) \in Nat /\ \A n \in 1..Len(t): t[n].len \in Nat
    BY <1>1
  <2>. HIDE DEF t
  <2>. QED  BY <1>1, <2>1, PartialSums
<1>. HIDE DEF N, t, F, G
<1>4. 0..N \subseteq T
  <2>1. 0 \in T
    BY <1>1, <1>2, <1>3
  <2>2. ASSUME NEW n \in 1..N, G[n - 1] = F[n - 1]
        PROVE  G[n] = F[n]
    <3>1. n \in 1..N + 1 /\ n - 1 \in 0..N
      BY <1>1
    <3>2. G[n] = G[n - 1] + t[n].len /\ F[n] = F[n - 1] + s[n].len /\ t[n] = s[n]
      BY <1>1, <1>2, <1>3, <3>1
    <3>. QED  BY <2>2, <3>2
  <2>3. \A n \in 1..N: n - 1 \in T => n \in T
    BY <2>2
  <2>. HIDE DEF T
  <2>. QED  BY <1>1, <2>1, <2>3, Induction
<1>5. G[N] = F[N] /\ G[N + 1] = G[N] + t[N + 1].len
  BY <1>1, <1>3, <1>4
<1>. QED  BY <1>1, <1>2, <1>3, <1>5 DEF t

-----------------------------------------------------------------------------
(* The text of a line *)

\* The characters up to the next one are written; the NUL that cuts a text off
\* is in the last cell.
IsFilled(text, cur) ==
  /\ text \in [Cells -> Char]
  /\ \A i \in Cells: i < cur /\ text[i] = "NUL" => i = BufSize - 1

Filled == {b \in Buffers: b.cur \in 2..BufSize /\ IsFilled(b.text, b.cur)}

LEMMA PutText ==
  ASSUME NEW text \in [Cells -> Char], NEW i, NEW ch \in Char
  PROVE  /\ Put(text, i, ch) \in [Cells -> Char]
         /\ \A j \in Cells: Put(text, i, ch)[j] = IF j = i THEN ch ELSE text[j]
BY DEF Put

LEMMA WrittenText ==
  ASSUME NEW text \in [Cells -> Char], NEW i \in Nat, NEW n \in Nat
  PROVE  /\ Written(text, i, n) \in [Cells -> Char]
         /\ \A j \in Cells: Written(text, i, n)[j] = IF i <= j /\ j < i + n THEN "c" ELSE text[j]
BY BufSizeAssumption DEF Written, Cells, Char

\* n characters from cur on, and a NUL that is not among them or in the last cell.
LEMMA WriteSome ==
  ASSUME NEW text, NEW cur \in 2..BufSize, IsFilled(text, cur), NEW n \in Nat,
         cur + n <= BufSize, NEW i \in Nat, i >= cur + n \/ i = BufSize - 1
  PROVE  IsFilled(Put(Written(text, cur, n), i, "NUL"), cur + n)
<1>. DEFINE u == Written(text, cur, n)
            v == Put(u, i, "NUL")
<1>1. /\ u \in [Cells -> Char]
      /\ \A j \in Cells: u[j] = IF cur <= j /\ j < cur + n THEN "c" ELSE text[j]
  BY WrittenText, BufSizeAssumption DEF IsFilled
<1>. HIDE DEF u
<1>2. v \in [Cells -> Char] /\ \A j \in Cells: v[j] = IF j = i THEN "NUL" ELSE u[j]
  <2>1. "NUL" \in Char
    BY DEF Char
  <2>. QED  BY <1>1, <2>1, PutText
<1>. HIDE DEF v
<1>3. ASSUME NEW j \in Cells, j < cur + n, v[j] = "NUL"
      PROVE  j = BufSize - 1
  <2>1. j \in Int
    BY BufSizeAssumption DEF Cells
  <2>2. CASE j = i
    BY <1>3, <2>1, <2>2, BufSizeAssumption
  <2>3. CASE j # i
    <3>1. u[j] = "NUL"
      BY <1>2, <1>3, <2>3
    <3>2. ~(cur <= j) /\ text[j] = "NUL"
      BY <1>1, <1>3, <3>1
    <3>. QED  BY <2>1, <3>2, BufSizeAssumption DEF IsFilled
  <2>. QED  BY <2>2, <2>3
<1>4. IsFilled(v, cur + n)
  BY <1>2, <1>3 DEF IsFilled
<1>. QED  BY <1>4 DEF v, u

\* A buffer is filled up to cur if its text is.
LEMMA FilledBuffer ==
  ASSUME NEW text, NEW cur \in 2..BufSize, IsFilled(text, cur)
  PROVE  [text |-> text, cur |-> cur] \in Filled
BY BufSizeAssumption DEF Filled, IsFilled, Buffers

LEMMA FilledParts ==
  ASSUME NEW b \in Filled
  PROVE  b.cur \in 2..BufSize /\ IsFilled(b.text, b.cur) /\ b = [text |-> b.text, cur |-> b.cur]
BY DEF Filled, Buffers

LEMMA WriteDataFills ==
  ASSUME NEW b \in Filled, NEW n \in Nat
  PROVE  WriteData(b, n) \in Filled /\ WriteData(b, n).cur >= b.cur
<1>. DEFINE count == BufSize - b.cur
<1>0. b.cur \in 2..BufSize /\ IsFilled(b.text, b.cur) /\ BufSize \in Nat /\ BufSize >= 4
  BY FilledParts, BufSizeAssumption
<1>1. CASE count <= 0
  BY <1>0, <1>1 DEF WriteData
<1>2. CASE ~(count <= 0) /\ n < count
  <2>1. IsFilled(Put(Written(b.text, b.cur, n), b.cur + n, "NUL"), b.cur + n)
    BY <1>0, <1>2, WriteSome
  <2>2. WriteData(b, n) = [text |-> Put(Written(b.text, b.cur, n), b.cur + n, "NUL"),
                           cur |-> b.cur + n]
    BY <1>2 DEF WriteData
  <2>3. b.cur + n \in 2..BufSize /\ b.cur + n >= b.cur
    BY <1>0, <1>2
  <2>. QED  BY <2>1, <2>2, <2>3, FilledBuffer
<1>3. CASE ~(count <= 0) /\ ~(n < count)
  <2>1. count \in Nat /\ b.cur + count = BufSize /\ BufSize - 1 \in Nat
    BY <1>0, <1>3
  <2>2. IsFilled(Put(Written(b.text, b.cur, count), BufSize - 1, "NUL"), BufSize)
    <3>. HIDE DEF count
    <3>. QED  BY <1>0, <2>1, WriteSome
  <2>3. WriteData(b, n) = [text |-> Put(Written(b.text, b.cur, count), BufSize - 1, "NUL"),
                           cur |-> BufSize]
    BY <1>3 DEF WriteData
  <2>4. BufSize \in 2..BufSize /\ BufSize >= b.cur
    BY <1>0
  <2>. QED  BY <2>2, <2>3, <2>4, FilledBuffer
<1>. QED  BY <1>1, <1>2, <1>3

LEMMA WriteStringFills ==
  ASSUME NEW b \in Filled, NEW n \in Nat
  PROVE  /\ WriteString(b, n) \in Filled
         /\ WriteString(b, n).cur = IF b.cur + n > BufSize THEN BufSize ELSE b.cur + n
<1>. DEFINE count == BufSize - b.cur
            len   == IF n > count THEN count ELSE n
            cur   == b.cur + len
            i     == IF cur >= BufSize - 1 THEN BufSize - 1 ELSE cur + 1
<1>0. b.cur \in 2..BufSize /\ IsFilled(b.text, b.cur) /\ BufSize \in Nat /\ BufSize >= 4
  BY FilledParts, BufSizeAssumption
<1>1. CASE count <= 0
  BY <1>0, <1>1 DEF WriteString
<1>2. CASE ~(count <= 0)
  <2>1. /\ len \in Nat /\ b.cur + len <= BufSize /\ i \in Nat
        /\ i >= b.cur + len \/ i = BufSize - 1
        /\ cur \in 2..BufSize /\ cur = b.cur + len
        /\ cur = IF b.cur + n > BufSize THEN BufSize ELSE b.cur + n
    BY <1>0, <1>2
  <2>2. WriteString(b, n) = [text |-> Put(Written(b.text, b.cur, len), i, "NUL"), cur |-> cur]
    BY <1>2 DEF WriteString
  <2>. HIDE DEF len, i, cur
  <2>3. IsFilled(Put(Written(b.text, b.cur, len), i, "NUL"), cur)
    BY <1>0, <2>1, WriteSome
  <2>. QED  BY <2>1, <2>2, <2>3, FilledBuffer
<1>. QED  BY <1>1, <1>2

LEMMA WriteContainerFills ==
  ASSUME NEW b \in Filled, NEW n \in Nat, n >= 2
  PROVE  WriteContainer(b, n) \in Filled /\ WriteContainer(b, n).cur >= 3
<1>. DEFINE all  == WriteString(b, n)
            back == [all EXCEPT !.cur = @ - 2]
<1>0. b.cur \in 2..BufSize /\ BufSize \in Nat /\ BufSize >= 4
  BY FilledParts, BufSizeAssumption
<1>1. all \in Filled /\ all.cur = IF b.cur + n > BufSize THEN BufSize ELSE b.cur + n
  BY WriteStringFills
<1>. HIDE DEF all
<1>2. IsFilled(all.text, all.cur) /\ back = [text |-> all.text, cur |-> all.cur - 2]
  BY <1>1, FilledParts
<1>3. all.cur - 2 \in 2..BufSize - 2
  BY <1>0, <1>1
<1>4. IsFilled(all.text, all.cur - 2)
  <2>1. \A i \in Cells: i < all.cur - 2 => i < all.cur
    BY <1>0, <1>1, <1>3 DEF Cells
  <2>. QED  BY <1>2, <2>1 DEF IsFilled
<1>5. back \in Filled /\ back.cur \in 2..BufSize - 2
  <2>1. all.cur - 2 \in 2..BufSize
    BY <1>0, <1>3
  <2>2. [text |-> all.text, cur |-> all.cur - 2] \in Filled
    BY <1>4, <2>1, FilledBuffer
  <2>. QED  BY <1>2, <1>3, <2>2
<1>6. WriteContainer(b, n) = WriteString(back, 1)
  BY DEF WriteContainer, all
<1>. HIDE DEF back
<1>7. WriteString(back, 1) \in Filled
      /\ WriteString(back, 1).cur = IF back.cur + 1 > BufSize THEN BufSize ELSE back.cur + 1
  BY <1>5, WriteStringFills
<1>. QED  BY <1>0, <1>5, <1>6, <1>7

-----------------------------------------------------------------------------
(* A stream *)

\* What makeLogData has begun, and what follows.
Begun == {b \in Filled: b.cur >= 3}

LEMMA WriteFills ==
  ASSUME NEW b \in Begun, NEW piece \in Piece
  PROVE  Write(b, piece) \in Begun
<1>0. b \in Filled /\ b.cur \in 3..BufSize /\ BufSize \in Nat /\ BufSize >= 4
  BY FilledParts, BufSizeAssumption DEF Begun
<1>1. CASE piece.kind = "data" /\ piece.len \in Nat
  <2>1. WriteData(b, piece.len) \in Filled /\ WriteData(b, piece.len).cur >= b.cur
    BY <1>0, <1>1, WriteDataFills
  <2>2. WriteData(b, piece.len).cur \in 2..BufSize
    BY <2>1, FilledParts
  <2>. QED  BY <1>0, <1>1, <2>1, <2>2 DEF Write, Begun
<1>2. CASE piece.kind = "string" /\ piece.len \in Nat
  <2>1. /\ WriteString(b, piece.len) \in Filled
        /\ WriteString(b, piece.len).cur
             = IF b.cur + piece.len > BufSize THEN BufSize ELSE b.cur + piece.len
    BY <1>0, <1>2, WriteStringFills
  <2>. QED  BY <1>0, <1>2, <2>1 DEF Write, Begun
<1>3. CASE piece.kind = "container" /\ piece.len \in Nat \ 0..1
  <2>1. piece.len \in Nat /\ piece.len >= 2
    BY <1>3
  <2>2. WriteContainer(b, piece.len) \in Begun
    BY <1>0, <2>1, WriteContainerFills DEF Begun
  <2>. QED  BY <1>3, <2>2 DEF Write
<1>. QED  BY <1>1, <1>2, <1>3 DEF Piece

LEMMA StreamFills ==
  ASSUME NEW b \in Begun, NEW pieces \in Seq(Piece)
  PROVE  Stream(b, pieces) \in Begun
<1>. DEFINE N == Len(pieces)
            step == [n \in 1..N |-> [x \in Begun |-> Write(x, pieces[n])]]
            Is(f) == f = [n \in 0..N |-> IF n = 0 THEN b ELSE Write(f[n - 1], pieces[n])]
            F == CHOOSE f: Is(f)
<1>0. N \in Nat /\ \A n \in 1..N: pieces[n] \in Piece
  OBVIOUS
<1>1. Stream(b, pieces) = F[N]
  BY DEF Stream
<1>. HIDE DEF N
<1>2. \A n \in 1..N, x \in Begun: Write(x, pieces[n]) \in Begun
  BY <1>0, WriteFills
<1>3. step \in [1..N -> [Begun -> Begun]]
  BY <1>2
<1>4. \A n \in 1..N, x \in Begun: step[n][x] = Write(x, pieces[n])
  OBVIOUS
<1>. HIDE DEF step
<1>5. PICK f \in [0..N -> Begun]: Follows(f, b, N, step)
  BY <1>0, <1>3, RecursionExists
<1>6. ASSUME NEW n \in 1..N
      PROVE  f[n] = Write(f[n - 1], pieces[n])
  <2>1. n - 1 \in 0..N /\ n \in 0..N /\ n # 0
    BY <1>0
  <2>. QED  BY <1>4, <1>5, <2>1 DEF Follows
<1>7. Is(f)
  BY <1>5, <1>6 DEF Follows
<1>8. Is(F)
  <2>. HIDE DEF Is
  <2>. QED  BY <1>7
<1>9. \A n \in 0..N: F[n] = IF n = 0 THEN b ELSE Write(F[n - 1], pieces[n])
  <2>1. F = [n \in 0..N |-> IF n = 0 THEN b ELSE Write(F[n - 1], pieces[n])]
    BY <1>8
  <2>. HIDE DEF F
  <2>. QED  BY <2>1
<1>. HIDE DEF F
<1>. DEFINE T == {n \in 0..N: F[n] \in Begun}
<1>10. 0 \in T /\ \A n \in 1..N: n - 1 \in T => n \in T
  <2>1. 0 \in T
    BY <1>0, <1>9
  <2>2. ASSUME NEW n \in 1..N, n - 1 \in T
        PROVE  n \in T
    <3>1. n \in 0..N /\ n # 0
      BY <1>0
    <3>. QED  BY <1>2, <1>9, <2>2, <3>1
  <2>. QED  BY <2>1, <2>2
<1>11. 0..N \subseteq T
  <2>. HIDE DEF T
  <2>. QED  BY <1>0, <1>10, Induction
<1>. QED  BY <1>0, <1>1, <1>11

\* CR, LF and NUL end whatever there is.
LEMMA EndLineEnds ==
  ASSUME NEW b \in Begun
  PROVE  IsLine(EndLine(b))
<1>. DEFINE len == IF b.cur + 3 <= BufSize THEN b.cur + 3 ELSE b.cur
            u == Put(b.text, len - 1, "NUL")
            v == Put(u, len - 2, "LF")
            x == Put(v, len - 3, "CR")
<1>0. b.cur \in 3..BufSize /\ IsFilled(b.text, b.cur) /\ BufSize \in Nat /\ BufSize >= 4
  BY FilledParts, BufSizeAssumption DEF Begun
<1>1. EndLine(b) = [text |-> x, cur |-> len - 1]
  BY <1>0 DEF EndLine
<1>2. len \in 3..BufSize /\ (len = b.cur + 3 \/ (len = b.cur /\ len > BufSize - 3))
  BY <1>0
<1>. HIDE DEF len
<1>2a. len - 1 \in Cells /\ len - 2 \in Cells /\ len - 3 \in Cells
  BY <1>0, <1>2 DEF Cells
<1>3. u \in [Cells -> Char] /\ \A i \in Cells: u[i] = IF i = len - 1 THEN "NUL" ELSE b.text[i]
  BY <1>0, PutText DEF IsFilled, Char
<1>. HIDE DEF u
<1>4. v \in [Cells -> Char] /\ \A i \in Cells: v[i] = IF i = len - 2 THEN "LF" ELSE u[i]
  BY <1>3, PutText DEF Char
<1>. HIDE DEF v
<1>5. x \in [Cells -> Char] /\ \A i \in Cells: x[i] = IF i = len - 3 THEN "CR" ELSE v[i]
  BY <1>4, PutText DEF Char
<1>. HIDE DEF x
<1>6. x[len - 1] = "NUL" /\ x[len - 2] = "LF" /\ x[len - 3] = "CR"
  BY <1>2, <1>2a, <1>3, <1>4, <1>5
<1>7. ASSUME NEW i \in 0..len - 2
      PROVE  x[i] # "NUL"
  <2>1. i \in Cells /\ i # len - 1
    BY <1>0, <1>2 DEF Cells
  <2>2. CASE i \in {len - 2, len - 3}
    BY <1>6, <2>2
  <2>3. CASE i < len - 3
    <3>1. x[i] = b.text[i] /\ i < b.cur /\ i # BufSize - 1
      BY <1>0, <1>2, <1>3, <1>4, <1>5, <2>1, <2>3
    <3>. QED  BY <1>0, <2>1, <3>1 DEF IsFilled
  <2>. QED  BY <1>2, <2>2, <2>3
<1>8. len - 1 \in 2..BufSize - 1 /\ (len - 1) - 1 = len - 2 /\ (len - 1) - 2 = len - 3
  BY <1>0, <1>2
<1>. QED  BY <1>1, <1>6, <1>7, <1>8 DEF IsLine

LEMMA PrefixBegins == Prefix(PrefixLen) \in Begun
<1>. DEFINE q == [j \in Cells |-> "?"]
            u == Written(q, 0, PrefixLen)
            v == [u EXCEPT ![PrefixLen] = "NUL"]
<1>0. PrefixLen \in 3..BufSize - 1 /\ BufSize \in Nat
  BY PrefixAssumption, BufSizeAssumption
<1>1. q \in [Cells -> Char]
  BY DEF Char
<1>2. u \in [Cells -> Char] /\ \A j \in Cells: j < PrefixLen => u[j] = "c"
  <2>1. \A j \in Cells: u[j] = IF 0 <= j /\ j < 0 + PrefixLen THEN "c" ELSE q[j]
    BY <1>0, <1>1, WrittenText
  <2>2. u \in [Cells -> Char]
    BY <1>0, <1>1, WrittenText
  <2>. HIDE DEF u
  <2>. QED  BY <1>0, <2>1, <2>2 DEF Cells
<1>. HIDE DEF u
<1>3. IsFilled(v, PrefixLen)
  BY <1>0, <1>2 DEF IsFilled, Cells, Char
<1>4. Prefix(PrefixLen) = [text |-> v, cur |-> PrefixLen]
  BY DEF Prefix, u
<1>. HIDE DEF v
<1>5. PrefixLen \in 2..BufSize
  BY <1>0
<1>. QED  BY <1>0, <1>3, <1>4, <1>5, FilledBuffer DEF Begun

\* Whatever is logged gives a whole line, however long it is.
LEMMA LineIsWhole ==
  ASSUME NEW said \in Said, NEW fileLine \in BOOLEAN
  PROVE  IsLine(Line(said, fileLine))
<1>. DEFINE message == Stream(Prefix(PrefixLen), said)
            text    == IF fileLine THEN Stream(message, Suffix) ELSE message
<1>1. message \in Begun
  BY SaidAssumption, PrefixBegins, StreamFills
<1>. HIDE DEF message
<1>2. Suffix \in Seq(Piece)
  BY DEF Suffix, Piece
<1>3. Stream(message, Suffix) \in Begun
  BY <1>1, <1>2, StreamFills
<1>4. text \in Begun
  BY <1>1, <1>3
<1>5. Line(said, fileLine) = EndLine(text)
  BY DEF Line, message
<1>. HIDE DEF text
<1>. QED  BY <1>4, <1>5, EndLineEnds

\* The length of a line is less than that of the buffer.
LEMMA LengthsAreShort == Lengths \subseteq 2..BufSize - 1
BY LineIsWhole DEF Lengths, IsLine

-----------------------------------------------------------------------------
(* The days of the files *)

\* The file that is open is of the day of _curFileCreateTime, and what is in it
\* says so.
DayInv ==
  /\ OneDayPerFile
  /\ handle # NoFile => DayOf(handle.minute) = DayOf(created)

\* Unless messages of an earlier day came late, no file is of a later day than
\* _curFileCreateTime, and none of that day has a higher index than
\* _curFileIndex.
FreshInv ==
  ~late => \A file \in DOMAIN files:
             \/ DayOf(file.minute) < DayOf(created)
             \/ DayOf(file.minute) = DayOf(created) /\ file.index <= index

\* The clock starts late enough for all times to be positive.
ClockInv == now >= Slack

Inv == TypeOK /\ ClockInv /\ DayInv /\ FreshInv

-----------------------------------------------------------------------------

LEMMA Days == \A t \in Nat: DayOf(t) \in Nat
BY TimeAssumption DEF DayOf

LEMMA LimitSizes == \A n \in 0..Word - 1: LimitSize(n) \in 1..Word - 1
BY UnitAssumption DEF LimitSize

\* A change keeps the attributes in their types.
LEMMA ChangeTypes ==
  ASSUME attr \in Attributes, NEW e \in Change
  PROVE  [attr EXCEPT ![e.type] = e.value] \in Attributes
<1>. DEFINE a == [attr EXCEPT ![e.type] = e.value]
<1>1. CASE e.type \in Flags /\ e.value \in BOOLEAN
  BY <1>1 DEF Attributes, Flags
<1>2. CASE e.type = "level" /\ e.value \in Level
  BY <1>2 DEF Attributes
<1>3. CASE e.type = "name" /\ e.value \in Names
  BY <1>3 DEF Attributes
<1>4. CASE e.type = "limitsize" /\ e.value \in 0..Word - 1
  BY <1>4, UnitAssumption DEF Attributes, Change
<1>. QED  BY <1>1, <1>2, <1>3, <1>4 DEF HotChange, Change

-----------------------------------------------------------------------------
(* Writing a message *)

\* The variables that WriteMessage changes, and what is known of them.
Files ==
  /\ DOMAIN files \subseteq File /\ DOMAIN allowed = DOMAIN files
  /\ \A file \in DOMAIN files: files[file] \in Seq(Stored)
  /\ handle \in DOMAIN files \cup {NoFile}
  /\ created \in Nat /\ index \in Nat /\ late \in BOOLEAN
  /\ buffered \in Nat /\ (handle = NoFile => buffered = 0)

\* The messages of the file to which m goes are of its day, and m is.
LEMMA Keeping ==
  ASSUME Inv, NEW m \in General, handle # NoFile, SameDay(m)
  PROVE  DayOf(m.time) = DayOf(handle.minute) /\ handle \in DOMAIN files
BY DEF Inv, DayInv, TypeOK, SameDay

LEMMA Writing ==
  ASSUME Inv, NEW m \in General, WriteMessage(m)
  PROVE  /\ Files' /\ attr' \in Attributes /\ needFlush' \in BOOLEAN
         /\ DayInv' /\ FreshInv'
         /\ index' > index /\ handle' # NoFile /\ ~late => handle' \notin DOMAIN files
<1>. DEFINE keep    == handle # NoFile /\ SameDay(m) /\ ~Full
            i       == IF ~SameDay(m) THEN 0 ELSE IF Full THEN index + 1 ELSE index
            file    == IF keep THEN handle ELSE FileName(m.time, i)
            content == At(files, file, <<>>)
            entry   == [time |-> m.time, len |-> m.len]
            granted == IF keep THEN allowed
                       ELSE With(allowed, file, At(allowed, file, 0) + attr.limitsize * Unit + BufSize)
<1>0. Files /\ attr \in Attributes /\ needFlush \in BOOLEAN /\ DayInv /\ FreshInv
  BY DEF Inv, TypeOK, Files
<1>1. m.time \in Nat /\ entry \in Stored
  BY DEF General, Stored
<1>2. i \in Nat /\ (i > index => SameDay(m) /\ Full /\ i = index + 1)
  BY <1>0 DEF Files
<1>3. /\ file \in File
      /\ keep => file \in DOMAIN files /\ file = handle
      /\ ~keep => file.minute = m.time /\ file.index = i
  <2>1. CASE keep
    BY <1>0, <2>1 DEF Files
  <2>2. CASE ~keep
    <3>1. attr.name \in Names /\ attr.monthdir \in BOOLEAN
      BY <1>0 DEF Attributes
    <3>. QED  BY <1>1, <1>2, <2>2, <3>1 DEF FileName, File
  <2>. QED  BY <2>1, <2>2
<1>4. DayOf(m.time) = DayOf(file.minute)
  BY <1>3, Keeping
<1>5. content \in Seq(Stored) /\ \A k \in DOMAIN content: DayOf(content[k].time) = DayOf(file.minute)
  <2>1. CASE file \in DOMAIN files
    BY <1>0, <2>1 DEF Files, At, DayInv, OneDayPerFile
  <2>2. CASE file \notin DOMAIN files
    BY <2>2, EmptySeq DEF At
  <2>. QED  BY <2>1, <2>2
<1>6. created' = (IF keep THEN created ELSE m.time) /\ index' = i
      /\ late' = (late \/ DayOf(m.time) < DayOf(created))
  BY DEF WriteMessage
\* The three ways in which it can end.
<1>. DEFINE
       Wrote       == /\ handle' = file /\ files' = With(files, file, Append(content, entry))
                      /\ buffered' \in {buffered + 1, 1} /\ needFlush' = TRUE
                      /\ allowed' = granted /\ attr' = attr
       WriteFailed == /\ files' = With(files, file, content)
                      /\ handle' = NoFile /\ buffered' = 0 /\ needFlush' = TRUE
                      /\ allowed' = granted /\ attr' = attr
       OpenFailed  == /\ handle' = NoFile /\ buffered' = 0
                      /\ attr' = [attr EXCEPT !.outfile = FALSE]
                      /\ UNCHANGED <<needFlush, files, allowed>>
<1>7. Wrote \/ WriteFailed \/ OpenFailed
  BY DEF WriteMessage, CloseHandle
<1>8. DOMAIN granted = DOMAIN files \cup {file}
  <2>1. CASE keep
    BY <1>0, <1>3, <2>1 DEF Files
  <2>2. CASE ~keep
    <3>. DEFINE bytes == At(allowed, file, 0) + attr.limitsize * Unit + BufSize
    <3>1. granted = With(allowed, file, bytes)
      BY <2>2
    <3>. HIDE DEF bytes, granted, file
    <3>. QED  BY <1>0, <3>1 DEF Files, With
  <2>. QED  BY <2>1, <2>2
<1>9. Append(content, entry) \in Seq(Stored)
      /\ \A k \in DOMAIN Append(content, entry):
           DayOf(Append(content, entry)[k].time) = DayOf(file.minute)
  <2>1. /\ Append(content, entry) \in Seq(Stored)
        /\ Len(Append(content, entry)) = Len(content) + 1 /\ Len(content) \in Nat
        /\ DOMAIN Append(content, entry) = 1..Len(content) + 1 /\ DOMAIN content = 1..Len(content)
        /\ \A k \in 1..Len(content): Append(content, entry)[k] = content[k]
        /\ Append(content, entry)[Len(content) + 1] = entry
    BY <1>1, <1>5, AppendProperties, LenProperties
  <2>2. DayOf(entry.time) = DayOf(file.minute)
    BY <1>4
  <2>. HIDE DEF entry, content
  <2>. QED  BY <1>5, <2>1, <2>2
<1>. HIDE DEF keep, i, file, content, entry, granted
<1>. DEFINE Outcome ==
       /\ \/ files' = files /\ handle' = NoFile
          \/ /\ DOMAIN files' = DOMAIN files \cup {file}
             /\ files'[file] \in Seq(Stored)
             /\ \A k \in DOMAIN files'[file]: DayOf(files'[file][k].time) = DayOf(file.minute)
             /\ \A f \in DOMAIN files \ {file}: files'[f] = files[f]
             /\ handle' \in {file, NoFile}
       /\ DOMAIN allowed' = DOMAIN files'
       /\ buffered' \in Nat /\ (handle' = NoFile => buffered' = 0)
       /\ attr' \in Attributes /\ needFlush' \in BOOLEAN
<1>10. Outcome
  <2>1. attr' \in Attributes /\ needFlush' \in BOOLEAN /\ buffered' \in Nat
    <3>1. [attr EXCEPT !.outfile = FALSE] \in Attributes
      BY <1>0 DEF Attributes
    <3>2. buffered \in Nat
      BY <1>0 DEF Files
    <3>3. buffered + 1 \in Nat /\ 1 \in Nat /\ 0 \in Nat
      BY <3>2
    <3>. QED  BY <1>0, <1>7, <3>1, <3>3, Zenon
  <2>2. file # NoFile
    BY <1>3, NoFileAssumption
  <2>3. CASE UNCHANGED <<files, allowed>> /\ handle' = NoFile /\ buffered' = 0
    BY <1>0, <2>1, <2>3 DEF Files
  <2>4. ASSUME NEW c, files' = With(files, file, c), allowed' = granted,
               c \in Seq(Stored), \A k \in DOMAIN c: DayOf(c[k].time) = DayOf(file.minute),
               handle' = file \/ (handle' = NoFile /\ buffered' = 0)
        PROVE  Outcome
    <3>1. /\ DOMAIN files' = DOMAIN files \cup {file} /\ files'[file] = c
          /\ \A f \in DOMAIN files \ {file}: files'[f] = files[f]
      BY <2>4 DEF With
    <3>. QED  BY <1>8, <2>1, <2>2, <2>4, <3>1
  <2>. HIDE DEF Outcome
  <2>5. Wrote => Outcome
    <3>. DEFINE c == Append(content, entry)
    <3>1. c \in Seq(Stored) /\ \A k \in DOMAIN c: DayOf(c[k].time) = DayOf(file.minute)
      BY <1>9
    <3>2. Wrote => /\ files' = With(files, file, c) /\ allowed' = granted
                   /\ handle' = file \/ (handle' = NoFile /\ buffered' = 0)
      OBVIOUS
    <3>. HIDE DEF c, Wrote
    <3>. QED  BY <3>1, <3>2, <2>4
  <2>6. WriteFailed => Outcome
    BY <1>5, <2>4, Zenon
  <2>7. OpenFailed => Outcome
    BY <2>3, Zenon
  <2>. QED  BY <1>7, <2>5, <2>6, <2>7, Zenon
<1>. HIDE DEF Wrote, WriteFailed, OpenFailed
<1>11. Files'
  <2>1. created' \in Nat /\ index' \in Nat /\ late' \in BOOLEAN
    BY <1>0, <1>1, <1>2, <1>6 DEF Files
  <2>2. DOMAIN files' \subseteq File /\ \A f \in DOMAIN files': files'[f] \in Seq(Stored)
    BY <1>0, <1>3, <1>10 DEF Files
  <2>3. handle' \in DOMAIN files' \cup {NoFile}
    BY <1>10
  <2>. QED  BY <1>10, <2>1, <2>2, <2>3 DEF Files
<1>12. DayInv'
  <2>1. ASSUME NEW f \in DOMAIN files', NEW k \in DOMAIN files'[f]
        PROVE  DayOf(files'[f][k].time) = DayOf(f.minute)
    BY <1>0, <1>10, <2>1 DEF DayInv, OneDayPerFile
  <2>2. handle' # NoFile => DayOf(handle'.minute) = DayOf(created')
    BY <1>0, <1>3, <1>6, <1>10 DEF DayInv, keep
  <2>. QED  BY <2>1, <2>2 DEF DayInv, OneDayPerFile
<1>13. /\ created \in Nat /\ index \in Nat /\ DayOf(created) \in Nat /\ DayOf(m.time) \in Nat
       /\ \A f \in File: DayOf(f.minute) \in Nat /\ f.index \in Nat
       /\ DOMAIN files \subseteq File
       /\ DOMAIN files' \subseteq DOMAIN files \cup {file}
  BY <1>0, <1>1, <1>10, Days DEF Files, File
<1>14. FreshInv'
  <2>. SUFFICES ASSUME ~late', NEW f \in DOMAIN files'
                PROVE  \/ DayOf(f.minute) < DayOf(created')
                       \/ DayOf(f.minute) = DayOf(created') /\ f.index <= index'
    BY DEF FreshInv
  <2>1. ~late /\ DayOf(created) <= DayOf(m.time)
    <3>1. ~late /\ ~(DayOf(m.time) < DayOf(created))
      BY <1>6, Zenon
    <3>. QED  BY <1>13, <3>1
  <2>2. \A g \in DOMAIN files: \/ DayOf(g.minute) < DayOf(created)
                               \/ DayOf(g.minute) = DayOf(created) /\ g.index <= index
    BY <1>0, <2>1 DEF FreshInv
  <2>3. CASE keep
    <3>1. f \in DOMAIN files /\ created' = created /\ index' = index
      BY <1>3, <1>6, <1>13, <2>3 DEF keep, i
    <3>. QED  BY <2>2, <3>1
  <2>4. CASE ~keep
    <3>1. created' = m.time /\ index' = i /\ f \in File
      BY <1>6, <1>3, <1>13, <2>4
    <3>2. CASE f = file
      BY <1>2, <1>3, <2>4, <3>1, <3>2
    <3>3. CASE f \in DOMAIN files /\ SameDay(m)
      <4>1. DayOf(m.time) = DayOf(created) /\ i \in {index, index + 1}
        BY <3>3 DEF SameDay, i
      <4>. QED  BY <1>13, <2>2, <3>1, <3>3, <4>1
    <3>4. CASE f \in DOMAIN files /\ ~SameDay(m)
      <4>1. DayOf(created) < DayOf(m.time)
        BY <1>13, <2>1, <3>4 DEF SameDay
      <4>. QED  BY <1>13, <2>2, <3>1, <3>4, <4>1
    <3>. QED  BY <1>13, <3>2, <3>3, <3>4
  <2>. QED  BY <2>3, <2>4
<1>15. index' > index /\ handle' # NoFile /\ ~late => handle' \notin DOMAIN files
  <2>. SUFFICES ASSUME index' > index, handle' # NoFile, ~late, handle' \in DOMAIN files
                PROVE  FALSE
    OBVIOUS
  <2>1. i > index /\ handle' = file /\ SameDay(m) /\ i = index + 1 /\ ~keep
    BY <1>2, <1>6, <1>10 DEF keep
  <2>2. DayOf(file.minute) = DayOf(created) /\ file.index = index + 1
    BY <1>3, <2>1 DEF SameDay
  <2>. QED  BY <1>0, <1>13, <2>1, <2>2 DEF FreshInv
<1>. QED  BY <1>10, <1>11, <1>12, <1>14, <1>15

-----------------------------------------------------------------------------
(* Steps *)

LEMMA InitInv == Init => Inv
<1>. SUFFICES ASSUME Init PROVE Inv
  OBVIOUS
<1>. USE TimeAssumption, UnitAssumption DEF Init
<1>1. now \in Nat /\ now >= Slack
  OBVIOUS
<1>2. attr \in Attributes
  <2>1. Min(Level) \in Level
    BY LevelAssumption DEF Min
  <2>2. Name \in Names
    BY DEF Names
  <2>. QED  BY <2>1, <2>2 DEF Attributes
<1>3. todo \in Seq(General \cup Change) /\ files = <<>> /\ allowed = <<>>
      /\ DOMAIN files = {}
  BY EmptySeq
<1>4. TypeOK
  BY <1>1, <1>2, <1>3 DEF TypeOK
<1>. QED  BY <1>1, <1>3, <1>4 DEF Inv, ClockInv, DayInv, OneDayPerFile, FreshInv

\* The files stay as they are, or the open one is closed.
LEMMA FilesKept ==
  ASSUME Inv, UNCHANGED <<created, index, files, allowed, late>>,
         \/ UNCHANGED <<handle, buffered>>
         \/ CloseHandle
         \/ handle' = handle /\ buffered' = 0
  PROVE  Files' /\ DayInv' /\ FreshInv'
<1>1. Files /\ DayInv /\ FreshInv
  BY DEF Inv, TypeOK, Files
<1>2. Files'
  BY <1>1 DEF Files, CloseHandle
<1>. QED  BY <1>1, <1>2 DEF DayInv, OneDayPerFile, FreshInv, CloseHandle

LEMMA EnqueueInv ==
  ASSUME Inv, NEW e \in General \cup Change, Enqueue(e)
  PROVE  Inv'
<1>1. todo' \in Seq(General \cup Change) /\ queued' \in Nat
  BY AppendProperties DEF Enqueue, Inv, TypeOK
<1>2. Files' /\ DayInv' /\ FreshInv'
  BY FilesKept DEF Enqueue, fileVars
<1>. QED  BY <1>1, <1>2 DEF Enqueue, Inv, TypeOK, ClockInv, Files

LEMMA UsersInv ==
  ASSUME Inv, Users
  PROVE  Inv'
<1>0. now \in Nat /\ now >= Slack /\ attr \in Attributes
  BY DEF Inv, TypeOK, ClockInv
<1>1. ASSUME NEW time \in now - Slack..now, NEW level \in Level, NEW said \in Said,
             Log(time, level, said)
      PROVE  Inv'
  <2>. DEFINE len == Line(said, attr.fileLine).cur
  <2>1. len \in Lengths /\ attr.fileLine \in BOOLEAN
    BY <1>0 DEF Lengths, Attributes
  <2>2. time \in Nat
    BY <1>0, TimeAssumption
  <2>3. Enqueue([type |-> "general", time |-> time, level |-> level, said |-> said,
                 fileLine |-> attr.fileLine, len |-> len])
    BY <1>1 DEF Log
  <2>. HIDE DEF len
  <2>4. [type |-> "general", time |-> time, level |-> level, said |-> said,
         fileLine |-> attr.fileLine, len |-> len] \in General
    BY <2>1, <2>2 DEF General
  <2>. QED  BY <2>3, <2>4, EnqueueInv
<1>2. CASE SetLogger
  <2>1. PICK c \in Changes:
          Enqueue(IF c.type = "limitsize" THEN [c EXCEPT !.value = LimitSize(@)] ELSE c)
    BY <1>2 DEF SetLogger
  <2>2. c \in HotChange
    BY ChangesAssumption
  <2>3. CASE c.type = "limitsize"
    <3>1. c \in [type: {"limitsize"}, value: 0..Word - 1]
      BY <2>2, <2>3 DEF HotChange, Flags
    <3>2. LimitSize(c.value) \in 1..Word - 1
      BY <3>1, LimitSizes
    <3>3. [c EXCEPT !.value = LimitSize(@)] \in Change
      BY <3>1, <3>2 DEF Change, HotChange
    <3>. QED  BY <2>1, <2>3, <3>3, EnqueueInv
  <2>4. CASE c.type # "limitsize"
    BY <2>1, <2>2, <2>4, EnqueueInv DEF Change
  <2>. QED  BY <2>3, <2>4
<1>3. CASE EnableLogger \/ LowerLevel
  <2>1. attr' \in Attributes
    <3>1. [attr EXCEPT !.enable = TRUE] \in Attributes
      BY <1>0 DEF Attributes
    <3>2. \A value \in Level: [attr EXCEPT !.level = value] \in Attributes
      BY <1>0 DEF Attributes
    <3>. QED  BY <1>3, <3>1, <3>2 DEF EnableLogger, LowerLevel
  <2>2. Files' /\ DayInv' /\ FreshInv'
    BY <1>3, FilesKept DEF EnableLogger, LowerLevel, fileVars
  <2>. QED  BY <1>3, <2>1, <2>2 DEF EnableLogger, LowerLevel, Inv, TypeOK, ClockInv, Files
<1>. QED  BY <1>1, <1>2, <1>3 DEF Users

\* Only WriteMessage begins a file.
LEMMA HandleInv ==
  ASSUME Inv, Handle
  PROVE  /\ Inv'
         /\ index' > index /\ handle' # NoFile /\ ~late => handle' \notin DOMAIN files
<1>. DEFINE e == Head(todo)
<1>0. todo \in Seq(General \cup Change) /\ todo # <<>> /\ attr \in Attributes /\ index \in Nat
  BY DEF Inv, TypeOK, Handle
<1>1. e \in General \cup Change /\ todo' \in Seq(General \cup Change)
  BY <1>0, HeadTailProperties DEF Handle
<1>2. UNCHANGED <<now, queued, w>>
  BY DEF Handle
<1>3. CASE e.type # "general"
  <2>1. /\ attr' = [attr EXCEPT ![e.type] = e.value] /\ CloseHandle
        /\ UNCHANGED <<created, index, writeLen, files, allowed, late, needFlush>>
    BY <1>3 DEF Handle
  <2>2. e \in Change
    BY <1>1, <1>3 DEF General
  <2>3. attr' \in Attributes
    BY <1>0, <2>1, <2>2, ChangeTypes
  <2>4. Files' /\ DayInv' /\ FreshInv'
    BY <2>1, FilesKept
  <2>5. ~(index' > index)
    BY <1>0, <2>1
  <2>. QED  BY <1>1, <1>2, <2>1, <2>3, <2>4, <2>5 DEF Inv, TypeOK, ClockInv, Files
<1>4. CASE e.type = "general" /\ WriteMessage(e)
  <2>1. e \in General
    BY <1>1, <1>4 DEF Change, HotChange, Flags
  <2>2. /\ Files' /\ attr' \in Attributes /\ needFlush' \in BOOLEAN
        /\ DayInv' /\ FreshInv'
        /\ index' > index /\ handle' # NoFile /\ ~late => handle' \notin DOMAIN files
    BY <1>4, <2>1, Writing
  <2>. QED  BY <1>1, <1>2, <2>2 DEF Inv, TypeOK, ClockInv, Files
<1>5. CASE UNCHANGED <<attr, needFlush, fileVars>>
  <2>1. Files' /\ DayInv' /\ FreshInv' /\ index' = index
    BY <1>5, FilesKept DEF fileVars
  <2>. QED  BY <1>0, <1>1, <1>2, <1>5, <2>1 DEF Inv, TypeOK, ClockInv, Files
<1>. QED  BY <1>3, <1>4, <1>5 DEF Handle

LEMMA NextInv ==
  ASSUME Inv, [Next]_vars
  PROVE  /\ Inv'
         /\ index' > index /\ handle' # NoFile /\ ~late => handle' \notin DOMAIN files
<1>0. index \in Nat
  BY DEF Inv, TypeOK
<1>1. CASE Tick
  <2>1. Files' /\ DayInv' /\ FreshInv' /\ index' = index
    BY <1>1, FilesKept DEF Tick, fileVars
  <2>. QED  BY <1>0, <1>1, <2>1, TimeAssumption DEF Tick, Inv, TypeOK, ClockInv, Files
<1>2. CASE Users
  <2>1. index' = index
    BY <1>2 DEF Users, Log, SetLogger, EnableLogger, LowerLevel, Enqueue, fileVars
  <2>. QED  BY <1>0, <1>2, <2>1, UsersInv
<1>3. CASE Handle
  BY <1>3, HandleInv
<1>4. CASE Drained \/ Flush \/ CloseDisabled \/ UNCHANGED vars
  <2>1. /\ UNCHANGED <<now, attr, todo, queued, created, index, files, allowed, late>>
        /\ w' \in {"pop", "flush", "close"} /\ needFlush' \in BOOLEAN
        /\ \/ UNCHANGED <<handle, buffered>>
           \/ CloseHandle
           \/ handle' = handle /\ buffered' = 0
    BY <1>4 DEF Drained, Flush, CloseDisabled, vars, fileVars, Inv, TypeOK
  <2>2. Files' /\ DayInv' /\ FreshInv'
    BY <2>1, FilesKept
  <2>. QED  BY <1>0, <2>1, <2>2 DEF Inv, TypeOK, ClockInv, Files
<1>. QED  BY <1>1, <1>2, <1>3, <1>4 DEF Next, Writer

LEMMA Invariance == Spec => []Inv
<1>1. Inv /\ [Next]_vars => Inv'
  BY NextInv
<1>. QED  BY <1>1, InitInv, PTL DEF Spec

\* Type correctness, for any attributes, messages and hot changes.
THEOREM TypeCorrect == Spec => []TypeOK
<1>1. Inv => TypeOK
  BY DEF Inv
<1>. QED  BY <1>1, Invariance, PTL

\* The messages in a file are of the day in its name, in whatever order the
\* threads push them.
THEOREM FilesHaveOneDay == Spec => []OneDayPerFile
<1>1. Inv => OneDayPerFile
  BY DEF Inv, DayInv
<1>. QED  BY <1>1, Invariance, PTL

\* The file that follows a full one does not exist yet, unless a message came
\* after one of a later day.
THEOREM RolledFileIsNew == Spec => RollIsFresh
<1>1. Inv /\ [Next]_vars
      => [index' > index /\ handle' # NoFile /\ ~late => handle' \notin DOMAIN files]_vars
  BY NextInv
<1>. QED  BY <1>1, Invariance, PTL DEF Spec, RollIsFresh

-----------------------------------------------------------------------------
(* The lines *)

\* What is shown and what is written of a message is one line that ends with CR,
\* LF and NUL, whatever is logged and however long it is.
THEOREM EveryLineIsWhole == Spec => []LinesAreWhole
<1>1. Inv => LinesAreWhole
  <2>. SUFFICES ASSUME Inv, NEW i \in DOMAIN todo, todo[i].type = "general"
                PROVE  IsLine(Line(todo[i].said, todo[i].fileLine))
    BY DEF LinesAreWhole
  <2>1. todo[i] \in General \cup Change
    BY DEF Inv, TypeOK
  <2>2. todo[i].said \in Said /\ todo[i].fileLine \in BOOLEAN
    BY <2>1 DEF General, Change, HotChange, Flags
  <2>. QED  BY <2>2, LineIsWhole
<1>. QED  BY <1>1, Invariance, PTL

-----------------------------------------------------------------------------
(* The sizes of the files *)

\* What is written since the file was opened is what _curWriteLen says: the rest
\* of the file is what earlier openings allowed.
LengthInv ==
  /\ writeLen \in Nat
  /\ \A file \in DOMAIN files: allowed[file] \in Nat /\ Size(file) <= allowed[file]
  /\ handle # NoFile
       => Size(handle) + attr.limitsize * Unit + BufSize <= allowed[handle] + writeLen

\* The limit in bytes does not come near the end of the numbers, even if it wraps
\* around: one line more is still a number.
LEMMA LimitFits ==
  ASSUME NEW limit \in Nat
  PROVE  /\ limit * Unit \in Nat
         /\ (limit * Unit) % Word \in Nat
         /\ (limit * Unit) % Word <= limit * Unit
         /\ (limit * Unit) % Word <= Word - Unit
<1>. DEFINE all == limit * Unit
            rest == all % Word
            many == all \div Word
            units == Word \div Unit
<1>0. Unit \in Nat \ {0} /\ Word \in Nat \ {0} /\ all \in Nat
  BY UnitAssumption, BufSizeAssumption
<1>1. rest \in 0..Word - 1 /\ all = many * Word + rest /\ many \in Nat
  <2>. HIDE DEF all
  <2>. QED  BY <1>0
<1>2. Word = units * Unit /\ units \in Nat
  BY <1>0, UnitAssumption
<1>. HIDE DEF rest, many, units
<1>3. many * Word \in Nat
  BY <1>0, <1>1
<1>4. rest <= all
  <2>. HIDE DEF all
  <2>. QED  BY <1>0, <1>1, <1>3
<1>5. rest = (limit - many * units) * Unit
  BY <1>0, <1>1, <1>2
<1>. DEFINE left == limit - many * units
<1>6. left \in Int
  BY <1>1, <1>2
<1>. HIDE DEF left, all
<1>7. rest = left * Unit
  BY <1>5 DEF left
<1>8. left <= units - 1
  <2>. SUFFICES ASSUME left >= units PROVE FALSE
    BY <1>2, <1>6
  <2>1. left * Unit >= units * Unit
    BY <1>0, <1>2, <1>6
  <2>. QED  BY <1>0, <1>1, <1>2, <1>7, <2>1
<1>9. left * Unit <= (units - 1) * Unit
  BY <1>0, <1>2, <1>6, <1>8
<1>10. (units - 1) * Unit = Word - Unit
  BY <1>0, <1>2
<1>. QED  BY <1>0, <1>1, <1>4, <1>7, <1>9, <1>10 DEF rest, all

LEMMA NoLengths ==
  ASSUME LengthInv, UNCHANGED <<writeLen, files, allowed>>,
         handle' = NoFile \/ (handle' = handle /\ attr'.limitsize = attr.limitsize)
  PROVE  LengthInv'
BY DEF LengthInv, Size

\* A message is added to the file that is open, or to one that is opened for it.
LEMMA WriteLengths ==
  ASSUME Inv, LengthInv, NEW m \in General, WriteMessage(m)
  PROVE  LengthInv'
<1>. DEFINE keep    == handle # NoFile /\ SameDay(m) /\ ~Full
            i       == IF ~SameDay(m) THEN 0 ELSE IF Full THEN index + 1 ELSE index
            file    == IF keep THEN handle ELSE FileName(m.time, i)
            length  == IF keep THEN writeLen ELSE 0
            content == At(files, file, <<>>)
            entry   == [time |-> m.time, len |-> m.len]
            limit   == attr.limitsize * Unit
            before  == At(allowed, file, 0)
            granted == IF keep THEN allowed
                       ELSE With(allowed, file, At(allowed, file, 0) + attr.limitsize * Unit + BufSize)
<1>0. /\ attr \in Attributes /\ attr.limitsize \in Nat /\ BufSize \in Nat /\ BufSize <= Unit
      /\ DOMAIN allowed = DOMAIN files
      /\ \A f \in DOMAIN files: files[f] \in Seq(Stored) /\ allowed[f] \in Nat
      /\ handle \in DOMAIN files \cup {NoFile}
      /\ Unit \in Nat /\ Word \in Nat \ {0} /\ writeLen \in Nat
  BY UnitAssumption, BufSizeAssumption DEF Inv, TypeOK, Attributes, LengthInv
<1>1. limit \in Nat /\ limit % Word \in Nat /\ limit % Word <= limit /\ limit % Word <= Word - Unit
  BY <1>0, LimitFits
<1>2. m.len \in 2..BufSize - 1 /\ entry \in Stored /\ \A x \in Stored: x.len \in Nat
  <2>1. m.len \in Lengths
    BY DEF General
  <2>2. m.len \in 2..BufSize - 1 /\ \A x \in Stored: x.len \in 2..BufSize - 1
    BY <2>1, LengthsAreShort DEF Stored
  <2>3. entry \in Stored
    BY <2>1 DEF General, Stored
  <2>. QED  BY <2>2, <2>3, BufSizeAssumption
\* The length that is tested does not wrap around.
<1>3. length \in Nat /\ length <= limit /\ (length + m.len) % Word = length + m.len
  <2>1. length \in Nat /\ length <= limit % Word
    <3>1. keep => writeLen <= limit % Word
      BY <1>0, <1>1 DEF Full
    <3>. QED  BY <1>0, <1>1, <3>1
  <2>2. length + m.len \in Nat /\ length + m.len < Word
    BY <1>0, <1>1, <1>2, <2>1
  <2>. HIDE DEF length, limit
  <2>. QED  BY <1>0, <1>1, <2>1, <2>2
<1>4. file \in DOMAIN files => Size(file) = Bytes(content) /\ Size(file) <= before /\ before = allowed[file]
  BY <1>0 DEF At, Size, LengthInv
<1>5. content \in Seq(Stored) /\ before \in Nat /\ Bytes(content) \in Nat /\ Bytes(content) <= before
      /\ Bytes(Append(content, entry)) = Bytes(content) + m.len
  <2>1. content \in Seq(Stored) /\ before \in Nat
    <3>1. CASE file \in DOMAIN files
      BY <1>0, <3>1 DEF At
    <3>2. CASE file \notin DOMAIN files
      BY <1>0, <3>2, EmptySeq DEF At
    <3>. QED  BY <3>1, <3>2
  <2>2. Bytes(content) \in Nat /\ Bytes(Append(content, entry)) = Bytes(content) + entry.len
    <3>. HIDE DEF content, entry
    <3>. QED  BY <1>2, <2>1, BytesOfOneMore
  <2>3. Bytes(content) <= before
    <3>1. CASE file \in DOMAIN files
      BY <1>4, <3>1
    <3>2. CASE file \notin DOMAIN files
      <4>1. content = <<>> /\ before = 0
        BY <1>0, <3>2 DEF At
      <4>. QED  BY <4>1, BytesOfNone
    <3>. QED  BY <3>1, <3>2
  <2>. QED  BY <2>1, <2>2, <2>3
<1>6. keep => /\ file = handle /\ file \in DOMAIN files /\ before = allowed[file]
              /\ Bytes(content) + limit + BufSize <= before + writeLen
  BY <1>0, <1>4 DEF LengthInv
\* The three ways in which it can end.
<1>. DEFINE
       Wrote       == /\ handle' = file /\ files' = With(files, file, Append(content, entry))
                      /\ writeLen' = (length + m.len) % Word
                      /\ allowed' = granted /\ attr' = attr
       WriteFailed == /\ files' = With(files, file, content)
                      /\ writeLen' = (length + m.len) % Word
                      /\ handle' = NoFile /\ allowed' = granted
       OpenFailed  == /\ handle' = NoFile /\ writeLen' = 0
                      /\ UNCHANGED <<files, allowed>>
<1>7. Wrote \/ WriteFailed \/ OpenFailed
  BY DEF WriteMessage, CloseHandle
<1>8. /\ granted[file] = IF keep THEN before ELSE before + limit + BufSize
      /\ \A f \in DOMAIN files \ {file}: granted[f] = allowed[f]
  <2>1. CASE keep
    BY <1>6, <2>1
  <2>2. CASE ~keep
    <3>. DEFINE bytes == before + limit + BufSize
    <3>1. granted = With(allowed, file, bytes)
      BY <2>2
    <3>. HIDE DEF bytes, granted, file, before, keep
    <3>2. granted[file] = bytes /\ \A f \in DOMAIN allowed \ {file}: granted[f] = allowed[f]
      BY <3>1 DEF With
    <3>. QED  BY <1>0, <2>2, <3>2 DEF bytes
  <2>. QED  BY <2>1, <2>2
<1>. HIDE DEF keep, i, file, content, entry, granted, before, length, limit
<1>9. granted[file] \in Nat /\ Bytes(content) + m.len <= granted[file]
      /\ Bytes(content) + m.len + limit + BufSize <= granted[file] + length + m.len
  <2>1. CASE keep
    <3>1. length = writeLen /\ granted[file] = before
          /\ Bytes(content) + limit + BufSize <= before + writeLen
      BY <1>6, <1>8, <2>1 DEF length
    <3>2. length \in Nat /\ length <= limit /\ limit \in Nat /\ m.len \in 2..BufSize - 1
          /\ before \in Nat /\ Bytes(content) \in Nat
      BY <1>1, <1>2, <1>3, <1>5
    <3>. QED  BY <1>0, <3>1, <3>2
  <2>2. CASE ~keep
    <3>1. length = 0 /\ granted[file] = before + limit + BufSize
      BY <1>8, <2>2 DEF length
    <3>2. limit \in Nat /\ m.len \in 2..BufSize - 1
          /\ before \in Nat /\ Bytes(content) \in Nat /\ Bytes(content) <= before
      BY <1>1, <1>2, <1>5
    <3>. QED  BY <1>0, <3>1, <3>2
  <2>. QED  BY <2>1, <2>2
\* A file that has more messages, or not.
<1>10. ASSUME NEW c, files' = With(files, file, c), allowed' = granted,
              Bytes(c) <= granted[file]
       PROVE  /\ \A f \in DOMAIN files': allowed'[f] \in Nat /\ Size(f)' <= allowed'[f]
              /\ Bytes(files'[file]) = Bytes(c)
  <2>1. /\ DOMAIN files' = DOMAIN files \cup {file} /\ files'[file] = c
        /\ \A f \in DOMAIN files \ {file}: files'[f] = files[f]
    BY <1>10 DEF With
  <2>2. ASSUME NEW f \in DOMAIN files \ {file}
        PROVE  allowed'[f] \in Nat /\ Size(f)' <= allowed'[f]
    <3>1. allowed'[f] = allowed[f] /\ files'[f] = files[f]
      BY <1>8, <1>10, <2>1
    <3>. QED  BY <3>1 DEF LengthInv, Size
  <2>3. Bytes(files'[file]) = Bytes(c) /\ allowed'[file] = granted[file]
    BY <1>10, <2>1
  <2>. QED  BY <1>9, <1>10, <2>1, <2>2, <2>3 DEF Size
<1>11. CASE Wrote
  <2>. DEFINE c == Append(content, entry)
  <2>1. Bytes(c) = Bytes(content) + m.len
    BY <1>5
  <2>2. files' = With(files, file, c) /\ allowed' = granted /\ Bytes(c) <= granted[file]
    BY <1>9, <1>11, <2>1
  <2>. HIDE DEF c
  <2>3. /\ \A f \in DOMAIN files': allowed'[f] \in Nat /\ Size(f)' <= allowed'[f]
        /\ Bytes(files'[file]) = Bytes(c)
    BY <1>10, <2>2
  <2>4. writeLen' = length + m.len /\ writeLen' \in Nat
        /\ handle' = file /\ allowed'[file] = granted[file] /\ attr' = attr
    BY <1>2, <1>3, <1>11
  <2>5. Size(handle)' = Bytes(c)
    BY <2>3, <2>4 DEF Size
  <2>6. Bytes(c) + limit + BufSize <= granted[file] + writeLen'
    <3>1. limit \in Nat /\ m.len \in 2..BufSize - 1 /\ length \in Nat
          /\ granted[file] \in Nat /\ Bytes(content) \in Nat
          /\ Bytes(content) + m.len + limit + BufSize <= granted[file] + length + m.len
          /\ Bytes(c) = Bytes(content) + m.len /\ writeLen' = length + m.len
      BY <1>1, <1>2, <1>3, <1>5, <1>9, <2>1, <2>4
    <3>. QED  BY <1>0, <3>1
  <2>. QED  BY <2>3, <2>4, <2>5, <2>6 DEF LengthInv, limit
<1>12. CASE WriteFailed
  <2>1. Bytes(content) <= granted[file]
    BY <1>2, <1>5, <1>9
  <2>2. \A f \in DOMAIN files': allowed'[f] \in Nat /\ Size(f)' <= allowed'[f]
    BY <1>10, <1>12, <2>1
  <2>3. writeLen' \in Nat /\ handle' = NoFile
    BY <1>2, <1>3, <1>12
  <2>. QED  BY <2>2, <2>3 DEF LengthInv
<1>13. CASE OpenFailed
  BY <1>13 DEF LengthInv, Size
<1>. QED  BY <1>7, <1>11, <1>12, <1>13

LEMMA NextLengths ==
  ASSUME Inv, LengthInv, [Next]_vars
  PROVE  LengthInv'
<1>0. attr \in Attributes
  BY DEF Inv, TypeOK
<1>1. CASE Tick
  BY <1>1, NoLengths DEF Tick, fileVars
<1>2. CASE Users
  <2>1. UNCHANGED fileVars /\ attr'.limitsize = attr.limitsize
    <3>1. [attr EXCEPT !.enable = TRUE].limitsize = attr.limitsize
      BY <1>0 DEF Attributes
    <3>2. \A value \in Level: [attr EXCEPT !.level = value].limitsize = attr.limitsize
      BY <1>0 DEF Attributes
    <3>. QED  BY <1>2, <3>1, <3>2 DEF Users, Log, SetLogger, EnableLogger, LowerLevel, Enqueue
  <2>. QED  BY <2>1, NoLengths DEF fileVars
<1>3. CASE Handle
  <2>. DEFINE e == Head(todo)
  <2>1. e \in General \cup Change
    BY <1>3, HeadTailProperties DEF Handle, Inv, TypeOK
  <2>2. CASE e.type # "general"
    BY <1>3, <2>2, NoLengths DEF Handle, CloseHandle
  <2>3. CASE e.type = "general" /\ WriteMessage(e)
    <3>1. e \in General
      BY <2>1, <2>3 DEF Change, HotChange, Flags
    <3>. QED  BY <2>3, <3>1, WriteLengths
  <2>4. CASE UNCHANGED <<attr, needFlush, fileVars>>
    BY <2>4, NoLengths DEF fileVars
  <2>. QED  BY <1>3, <2>2, <2>3, <2>4 DEF Handle
<1>4. CASE Drained \/ Flush \/ CloseDisabled \/ UNCHANGED vars
  BY <1>4, NoLengths DEF Drained, Flush, CloseDisabled, CloseHandle, vars, fileVars
<1>. QED  BY <1>1, <1>2, <1>3, <1>4 DEF Next, Writer

LEMMA LengthInvariance == Spec => []LengthInv
<1>1. Init => LengthInv
  BY DEF Init, LengthInv
<1>2. Inv /\ LengthInv /\ [Next]_vars => LengthInv'
  BY NextLengths
<1>. QED  BY <1>1, <1>2, Invariance, PTL DEF Spec

\* No file has more bytes than its openings allow: each of them the limit and one
\* line, and _curWriteLen never wraps around while a file is open.
THEOREM SizesAreBounded == Spec => []SizeIsBounded
<1>1. LengthInv => SizeIsBounded
  BY DEF LengthInv, SizeIsBounded
<1>. QED  BY <1>1, LengthInvariance, PTL
=============================================================================
