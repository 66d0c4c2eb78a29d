--------------------------- MODULE JsonRoundProofs ---------------------------
(***************************************************************************)
(* Proofs about a program with jsoncpp, continued, for any document and    *)
(* any edits: every Value is in a container that it fits, and what is      *)
(* written is read back.                                                   *)
(*                                                                         *)
(* The round trip goes by a table w of what was written: for each Value    *)
(* which one of its container it is (w.at) and how many that has           *)
(* (w.count), the tokens from the Value on (w.begin) and those after it    *)
(* (w.end).  Each writer has such a table, because its recursive function  *)
(* has a fixed point; and what is left to read is always what the table    *)
(* has for the place where the reader is.                                  *)
(***************************************************************************)
EXTENDS JsonProofs, FiniteSetTheorems

-----------------------------------------------------------------------------
(* What is written for a scalar is read as that scalar *)

Total(d) == Sums(d)[Len(d)]

\* One digit more.
LEMMA TotalAppend ==
  ASSUME NEW d \in Seq(0..9), NEW x \in 0..9
  PROVE  Append(d, x) \in Seq(0..9) /\ Total(Append(d, x)) = Total(d) * 10 + x
<1>. DEFINE e == Append(d, x)
            N == Len(d)
            P == Sums(d)
            Q == Sums(e)
<1>1. /\ e \in Seq(0..9) /\ Len(e) = N + 1 /\ N \in Nat /\ e[N + 1] = x
      /\ \A i \in 1..N: e[i] = d[i]
  BY AppendProperties
<1>2. P[0] = 0 /\ \A i \in 1..N: P[i] = P[i - 1] * 10 + d[i]
  BY SumsFacts
<1>3. Q[0] = 0 /\ \A i \in 1..N + 1: Q[i] = Q[i - 1] * 10 + e[i]
  BY <1>1, SumsFacts
<1>. HIDE DEF e, P, Q
<1>. DEFINE X == {i \in 0..N: Q[i] = P[i]}
<1>4. 0 \in X /\ \A i \in 1..N: i - 1 \in X => i \in X
  <2>1. 0 \in X
    BY <1>1, <1>2, <1>3
  <2>2. ASSUME NEW i \in 1..N, i - 1 \in X PROVE i \in X
    <3>1. Q[i - 1] = P[i - 1] /\ i \in 1..N + 1 /\ i \in 0..N
      BY <1>1, <2>2
    <3>2. Q[i] = Q[i - 1] * 10 + e[i] /\ P[i] = P[i - 1] * 10 + d[i] /\ e[i] = d[i]
      BY <1>1, <1>2, <1>3, <3>1
    <3>. QED  BY <3>1, <3>2
  <2>. QED  BY <2>1, <2>2
<1>5. 0..N \subseteq X
  <2>. HIDE DEF X, N
  <2>. QED  BY <1>1, <1>4, Induction, Zenon
<1>6. Q[N + 1] = Q[N] * 10 + x /\ Q[N] = P[N]
  <2>1. N + 1 \in 1..N + 1 /\ (N + 1) - 1 = N /\ N \in 0..N
    BY <1>1
  <2>. QED  BY <1>1, <1>3, <1>5, <2>1
<1>. QED  BY <1>1, <1>6 DEF Total, e, P, Q

\* What uintToString writes stands for the number it was given.
LEMMA DigitsOfIs ==
  ASSUME NEW n \in Nat
  PROVE  DigitsOf(n) \in Seq(0..9) /\ Total(DigitsOf(n)) = n
<1>. DEFINE S == Seq(0..9)
            N == n
            Next_(f, m) == IF m < 10 THEN <<m>> ELSE Append(f[m \div 10], m % 10)
            start == [m \in 0..N |-> <<>>]
            step == [f \in [0..N -> S] |-> [m \in 0..N |-> Next_(f, m)]]
            Is_(f) == f = [m \in 0..N |-> Next_(f, m)]
<1>1. \A m \in Nat: m % 10 \in 0..9 /\ m \div 10 \in Nat /\ m = (m \div 10) * 10 + (m % 10)
                    /\ (m >= 10 => m \div 10 \in 0..m - 1)
  BY SMT
<1>2. \A f \in [0..N -> S], m \in 0..N: Next_(f, m) \in S
  <2>. SUFFICES ASSUME NEW f \in [0..N -> S], NEW m \in 0..N PROVE Next_(f, m) \in S
    BY Zenon
  <2>1. CASE m < 10
    <3>1. m \in 0..9
      BY <2>1
    <3>2. <<m>> \in Seq(0..9)
      BY <3>1
    <3>. QED  BY <2>1, <3>2
  <2>2. CASE ~(m < 10)
    <3>1. m \div 10 \in 0..N /\ m % 10 \in 0..9 /\ m \in Nat
      BY <1>1, <2>2
    <3>2. f[m \div 10] \in Seq(0..9)
      BY <3>1
    <3>3. Append(f[m \div 10], m % 10) \in Seq(0..9)
      BY <3>1, <3>2, AppendProperties
    <3>. QED  BY <2>2, <3>3
  <2>. QED  BY <2>1, <2>2
<1>3. \A f, g \in [0..N -> S]: \A m \in 0..N:
        (\A k \in 0..m - 1: f[k] = g[k]) => step[f][m] = step[g][m]
  <2>. SUFFICES ASSUME NEW f \in [0..N -> S], NEW g \in [0..N -> S], NEW m \in 0..N,
                       \A k \in 0..m - 1: f[k] = g[k]
                PROVE  Next_(f, m) = Next_(g, m)
    OBVIOUS
  <2>1. m >= 10 => f[m \div 10] = g[m \div 10]
    BY <1>1
  <2>2. m < 10 \/ m >= 10
    OBVIOUS
  <2>. QED  BY <2>1, <2>2
<1>4. PICK f \in [0..N -> S]: step[f] = f
  <2>1. start \in [0..N -> S] /\ N \in Nat
    <3>1. <<>> \in S
      BY EmptySeq
    <3>. HIDE DEF S
    <3>. QED  BY <3>1
  <2>2. step \in [[0..N -> S] -> [0..N -> S]]
    <3>. HIDE DEF Next_, S, N
    <3>. QED  BY <1>2
  <2>. HIDE DEF step, start, N, S, Next_
  <2>. QED  BY <1>3, <2>1, <2>2, CourseExists, ZenonT(60)
<1>5. Is_(f)
  <2>. HIDE DEF Next_
  <2>. QED  BY <1>4
<1>. DEFINE F == CHOOSE g: Is_(g)
<1>6. DigitsOf(n) = F[n]
  BY DEF DigitsOf
<1>7. Is_(F)
  <2>. HIDE DEF Is_
  <2>. QED  BY <1>5
<1>. HIDE DEF F
<1>8. \A m \in 0..N: F[m] = Next_(F, m)
  <2>. HIDE DEF Next_
  <2>. QED  BY <1>7, Zenon
<1>. DEFINE X == {m \in 0..N: \A k \in 0..m: F[k] \in Seq(0..9) /\ Total(F[k]) = k}
<1>9. ASSUME NEW x \in 0..9 PROVE <<x>> \in Seq(0..9) /\ Total(<<x>>) = x
  <2>1. <<>> \in Seq(0..9) /\ <<x>> = Append(<<>>, x)
    BY EmptySeq
  <2>2. Total(<<>>) = 0
    <3>1. Len(<<>>) = 0 /\ Sums(<<>>)[0] = 0
      BY <2>1, SumsFacts, Zenon
    <3>. QED  BY <3>1 DEF Total
  <2>3. Append(<<>>, x) \in Seq(0..9) /\ Total(Append(<<>>, x)) = Total(<<>>) * 10 + x
    BY <2>1, TotalAppend, Zenon
  <2>. QED  BY <2>1, <2>2, <2>3
<1>10. ASSUME NEW m \in 0..N, \A k \in 0..m - 1: F[k] \in Seq(0..9) /\ Total(F[k]) = k
       PROVE  F[m] \in Seq(0..9) /\ Total(F[m]) = m
  <2>1. CASE m < 10
    <3>1. F[m] = <<m>> /\ m \in 0..9
      <4>1. F[m] = IF m < 10 THEN <<m>> ELSE Append(F[m \div 10], m % 10)
        BY <1>8, Zenon
      <4>2. m \in 0..9
        BY <2>1
      <4>. HIDE DEF N
      <4>3. F[m] = <<m>>
        BY <2>1, <4>1, Zenon
      <4>. QED  BY <4>2, <4>3
    <3>. QED  BY <1>9, <3>1, Zenon
  <2>2. CASE m >= 10
    <3>1. F[m] = Append(F[m \div 10], m % 10) /\ m \in Nat
      <4>1. F[m] = IF m < 10 THEN <<m>> ELSE Append(F[m \div 10], m % 10)
        BY <1>8, Zenon
      <4>. QED  BY <2>2, <4>1
    <3>2. m \div 10 \in 0..m - 1 /\ m % 10 \in 0..9 /\ m = (m \div 10) * 10 + (m % 10)
      BY <1>1, <2>2, <3>1
    <3>3. F[m \div 10] \in Seq(0..9) /\ Total(F[m \div 10]) = m \div 10
      BY <1>10, <3>2
    <3>4. /\ Append(F[m \div 10], m % 10) \in Seq(0..9)
          /\ Total(Append(F[m \div 10], m % 10)) = Total(F[m \div 10]) * 10 + (m % 10)
      BY <3>2, <3>3, TotalAppend, Zenon
    <3>. QED  BY <3>1, <3>2, <3>3, <3>4
  <2>3. m < 10 \/ m >= 10
    OBVIOUS
  <2>. QED  BY <2>1, <2>2, <2>3
<1>11. 0 \in X /\ \A m \in 1..N: m - 1 \in X => m \in X
  <2>. DEFINE Good_(k) == F[k] \in Seq(0..9) /\ Total(F[k]) = k
  <2>. HIDE DEF Good_
  <2>0. /\ X = {m \in 0..N: \A k \in 0..m: Good_(k)}
        /\ \A m \in 0..N: (\A k \in 0..m - 1: Good_(k)) => Good_(m)
    BY <1>10 DEF Good_
  <2>. HIDE DEF X
  <2>1. 0 \in X
    BY <2>0
  <2>2. ASSUME NEW m \in 1..N, m - 1 \in X PROVE m \in X
    <3>1. \A k \in 0..m - 1: Good_(k)
      BY <2>0, <2>2
    <3>2. m \in 0..N
      OBVIOUS
    <3>3. Good_(m)
      BY <2>0, <3>1, <3>2
    <3>4. \A k \in 0..m: k = m \/ k \in 0..m - 1
      OBVIOUS
    <3>. QED  BY <2>0, <3>1, <3>2, <3>3, <3>4
  <2>. QED  BY <2>1, <2>2
<1>12. n \in X
  <2>1. 0..N \subseteq X
    <3>. HIDE DEF X
    <3>. QED  BY <1>11, Induction, Zenon
  <2>2. n \in 0..N
    OBVIOUS
  <2>. HIDE DEF X, N
  <2>. QED  BY <2>1, <2>2
<1>. QED
  <2>1. n \in 0..n
    OBVIOUS
  <2>. HIDE DEF F
  <2>. QED  BY <1>6, <1>12, <2>1

\* What a Value that has nothing below it, or only begins, can be.
Storable(v) ==
  \/ v \in {Null, Array, Object, Bool(TRUE), Bool(FALSE), Infinity}
  \/ v = [type |-> "string", text |-> v.text] /\ v.text \in Seq(Int \ {0})
  \/ \E type \in {"int", "uint"}: /\ v = [type |-> type, num |-> v.num]
                                  /\ v.num \in -LargestInt..Word - 1
  \/ v = [type |-> "real", num |-> v.num] /\ v.num \in Int

\* The text of a number is read as that number.
LEMMA NumberTextIs ==
  ASSUME NEW v, v # Infinity, v.num \in Int
  PROVE  LET t == NumberText(v)
         IN /\ t.type = "number" /\ t.neg \in BOOLEAN /\ t.digits \in Seq(0..9)
            /\ t.form = IF v.type = "real" THEN "real" ELSE "digits"
            /\ Number(t) = v.num
<1>. DEFINE n == IF v.num < 0 THEN -v.num ELSE v.num
            form == IF v.type = "real" THEN "real" ELSE "digits"
            neg == v.num < 0
            d == DigitsOf(n)
            t == NumberText(v)
<1>1. n \in Nat /\ neg \in BOOLEAN
  OBVIOUS
<1>2. t = [type |-> "number", neg |-> neg, digits |-> d, form |-> form]
  BY DEF NumberText
<1>3. v.num = IF neg THEN -n ELSE n
  OBVIOUS
<1>. HIDE DEF n, form, neg, t
<1>4. d \in Seq(0..9) /\ Total(d) = n
  BY <1>1, DigitsOfIs
<1>. HIDE DEF d
<1>5. t.type = "number" /\ t.neg = neg /\ t.digits = d /\ t.form = form
  BY <1>2
<1>6. Number(t) = IF neg THEN -n ELSE n
  <2>1. Number(t) = IF t.neg THEN -Total(t.digits) ELSE Total(t.digits)
    BY <1>4, <1>5, NumberIs DEF Total
  <2>. QED  BY <1>4, <1>5, <2>1
<1>. QED  BY <1>1, <1>3, <1>4, <1>5, <1>6 DEF form, t

LEMMA NumberBack ==
  ASSUME NEW v, NEW type \in {"int", "uint"}, v = [type |-> type, num |-> v.num],
         v.num \in -LargestInt..Word - 1
  PROVE  \E kind \in {"int", "uint"}: DecodeNumber(NumberText(v)) = [type |-> kind, num |-> v.num]
<1>. DEFINE t == NumberText(v)
<1>0. v.num \in Int
  BY WidthAssumption DEF Word
<1>1. v.type = type /\ v # Infinity
  BY DEF Infinity
<1>2. /\ t.type = "number" /\ t.neg \in BOOLEAN /\ t.digits \in Seq(0..9)
      /\ t.form = "digits" /\ Number(t) = v.num
  BY <1>0, <1>1, NumberTextIs
<1>. HIDE DEF t
<1>3. \/ DecodeNumber(t) = [type |-> "int", num |-> Number(t)]
      \/ DecodeNumber(t) = [type |-> "uint", num |-> Number(t)]
  BY <1>2, DecodedExactly
<1>. QED  BY <1>2, <1>3 DEF t

LEMMA RealBack ==
  ASSUME NEW v, v = [type |-> "real", num |-> v.num], v.num \in Int
  PROVE  DecodeNumber(NumberText(v)) = v
<1>. DEFINE t == NumberText(v)
<1>1. v.type = "real" /\ v # Infinity
  BY DEF Infinity
<1>2. /\ t.type = "number" /\ t.form = "real" /\ Number(t) = v.num
  BY <1>1, NumberTextIs
<1>. HIDE DEF t
<1>3. DecodeNumber(t) = DecodeDouble(t)
  BY <1>2 DEF DecodeNumber
<1>4. DecodeDouble(t) = [type |-> "real", num |-> Number(t)]
  BY <1>2 DEF DecodeDouble
<1>. QED  BY <1>2, <1>3, <1>4 DEF t

LEMMA IntegersStorable ==
  ASSUME NEW type \in {"int", "uint"}, NEW n \in -LargestInt..Word - 1
  PROVE  Storable([type |-> type, num |-> n])
<1>. DEFINE v == [type |-> type, num |-> n]
<1>1. v.num = n /\ v = [type |-> type, num |-> v.num]
  OBVIOUS
<1>. HIDE DEF v
<1>2. Storable(v)
  BY <1>1, Zenon DEF Storable
<1>. QED  BY <1>2 DEF v

LEMMA Residue ==
  ASSUME NEW w \in Nat, w > 0, NEW x \in Int
  PROVE  x % w \in 0..w - 1
  BY SMT

\* What decodeNumber makes of a number.
LEMMA NumberStorable ==
  ASSUME NEW t, t.neg \in BOOLEAN, t.digits \in Seq(0..9)
  PROVE  DecodeNumber(t) = Failed \/ Storable(DecodeNumber(t))
<1>. DEFINE max == IF t.neg THEN LargestInt ELSE Word - 1
            v == Digits(t.digits, max)
            s == Sums(t.digits)[Len(t.digits)]
<1>0. LargestInt \in Nat /\ LargestInt > 9 /\ MaxInt \in Nat /\ Word = 2 * LargestInt
  BY WidthAssumption DEF Word
<1>1. DecodeDouble(t) = Failed \/ Storable(DecodeDouble(t))
  <2>1. Number(t) \in Int
    <3>1. s \in Nat
      BY SumsFacts
    <3>. QED  BY <3>1, NumberIs
  <2>2. Storable(Infinity) /\ Storable([type |-> "real", num |-> Number(t)])
    BY <2>1, Zenon DEF Storable
  <2>3. \/ DecodeDouble(t) = Failed \/ DecodeDouble(t) = Infinity
        \/ DecodeDouble(t) = [type |-> "real", num |-> Number(t)]
    <3>1. CASE t.form = "junk"
      BY <3>1 DEF DecodeDouble
    <3>2. CASE t.form = "inf"
      BY <3>2 DEF DecodeDouble
    <3>3. CASE t.form # "junk" /\ t.form # "inf"
      BY <3>3 DEF DecodeDouble
    <3>. QED  BY <3>1, <3>2, <3>3
  <2>. QED  BY <2>2, <2>3, Zenon
<1>2. max \in Nat
  BY <1>0
<1>3. v = OVERFLOW \/ v \in 0..Word - 1
  <2>. DEFINE R == Scans(t.digits, max)
              N == Len(t.digits)
  <2>1. /\ R[0] = 0 /\ v = R[N]
        /\ \A i \in 1..N: R[i] = OVERFLOW \/ R[i] = (R[i - 1] * 10 + t.digits[i]) % Word
    BY <1>2, ScansFacts
  <2>2. N \in Nat /\ \A i \in 1..N: t.digits[i] \in 0..9
    OBVIOUS
  <2>. DEFINE X == {i \in 0..N: R[i] = OVERFLOW \/ R[i] \in 0..Word - 1}
  <2>. HIDE DEF R, N, max
  <2>3. ASSUME NEW i \in 1..N, i - 1 \in X PROVE i \in X
    <3>1. R[i - 1] \in Int
      BY <1>0, <2>3 DEF OVERFLOW
    <3>. DEFINE x == R[i - 1] * 10 + t.digits[i]
    <3>2. x \in Int
      <4>. DEFINE a == R[i - 1]
                  g == t.digits[i]
      <4>1. a \in Int /\ g \in Int
        BY <2>2, <3>1, SMTT(60)
      <4>. HIDE DEF a, g
      <4>2. a * 10 + g \in Int
        BY <4>1
      <4>. QED  BY <4>2 DEF a, g
    <3>3. R[i] = OVERFLOW \/ R[i] = x % Word
      BY <2>1
    <3>. HIDE DEF x
    <3>4. x % Word \in 0..Word - 1
      BY <1>0, <3>2, Residue
    <3>. QED  BY <2>2, <3>3, <3>4
  <2>4. 0 \in X
    BY <1>0, <2>1, <2>2
  <2>5. 0..N \subseteq X
    <3>. HIDE DEF X
    <3>. QED  BY <2>2, <2>3, <2>4, Induction, Zenon
  <2>6. N \in 0..N
    BY <2>2
  <2>. HIDE DEF v
  <2>. QED  BY <2>1, <2>5, <2>6
<1>4. DecodeNumber(t) = IF t.form # "digits" \/ v = OVERFLOW THEN DecodeDouble(t)
                        ELSE IF t.neg THEN [type |-> "int", num |-> Negated(v)]
                        ELSE [type |-> IF v <= MaxInt THEN "int" ELSE "uint", num |-> v]
  BY DEF DecodeNumber
<1>. HIDE DEF v, max
<1>5. CASE t.form # "digits" \/ v = OVERFLOW
  BY <1>1, <1>4, <1>5
<1>6. CASE ~(t.form # "digits" \/ v = OVERFLOW) /\ t.neg
  <2>1. DecodeNumber(t) = [type |-> "int", num |-> Negated(v)]
    BY <1>4, <1>6
  <2>2. Negated(v) \in -LargestInt..Word - 1
    <3>. DEFINE u == (Word - v) % Word
    <3>1. u \in 0..Word - 1
      <4>1. Word - v \in Int
        BY <1>0, <1>3, <1>6
      <4>. QED  BY <1>0, <4>1, Residue
    <3>2. Negated(v) = IF u >= LargestInt THEN u - Word ELSE u
      BY DEF Negated
    <3>. HIDE DEF u
    <3>. QED  BY <1>0, <3>1, <3>2
  <2>. QED  BY <2>1, <2>2, IntegersStorable
<1>7. CASE ~(t.form # "digits" \/ v = OVERFLOW) /\ ~t.neg
  <2>1. \E type \in {"int", "uint"}: DecodeNumber(t) = [type |-> type, num |-> v]
    BY <1>4, <1>7
  <2>2. v \in -LargestInt..Word - 1
    BY <1>0, <1>3, <1>7
  <2>. QED  BY <2>1, <2>2, IntegersStorable
<1>. QED  BY <1>5, <1>6, <1>7

\* What is written for a byte is read as that byte.
LEMMA QuoteOn ==
  ASSUME NEW text \in Seq(Int), NEW c \in Int
  PROVE  DecodePiece([text |-> text, high |-> 0, failed |-> FALSE], QuotePiece(c))
           = [text |-> Append(text, c), high |-> 0, failed |-> FALSE]
<1>. DEFINE L == {"quote", "backslash", "b", "f", "n", "r", "t"}
            s == [text |-> text, high |-> 0, failed |-> FALSE]
            Coded == {Letters[l]: l \in L}
            p == QuotePiece(c)
            goal == [text |-> Append(text, c), high |-> 0, failed |-> FALSE]
<1>1. DOMAIN Letters = L
  BY DEF Letters
<1>2. QUOTE \in Coded /\ BACKSLASH \in Coded
  <2>1. Letters["quote"] = QUOTE /\ Letters["backslash"] = BACKSLASH
    BY DEF Letters
  <2>. QED  BY <2>1, Zenon
<1>3. p = IF c \in Coded THEN Escape(CHOOSE l \in L: Letters[l] = c, 0)
          ELSE IF c \in 1..31 THEN Escape("u", c) ELSE Plain(c)
  BY <1>1 DEF QuotePiece
<1>. HIDE DEF p
<1>4. CASE c \in Coded
  <2>. DEFINE l == CHOOSE l \in L: Letters[l] = c
  <2>1. l \in L /\ Letters[l] = c
    BY <1>4
  <2>2. p = [esc |-> TRUE, letter |-> l, code |-> 0]
    BY <1>3, <1>4, Zenon DEF Escape
  <2>. HIDE DEF l
  <2>3. p.esc = TRUE /\ p.letter = l /\ p.code = 0
    BY <2>2
  <2>4. l # "u" /\ l # "slash" /\ l \in DOMAIN Letters
    BY <1>1, <2>1
  <2>5. ~IsHigh(p)
    BY <2>3, <2>4 DEF IsHigh
  <2>6. DecodePiece(s, p) = [s EXCEPT !.text = Append(@, Letters[l])]
    BY <2>3, <2>4, <2>5 DEF DecodePiece
  <2>. QED  BY <2>1, <2>6, Zenon DEF p
<1>5. CASE c \notin Coded /\ c \in 1..31
  <2>1. p = [esc |-> TRUE, letter |-> "u", code |-> c]
    BY <1>3, <1>5, Zenon DEF Escape
  <2>2. p.esc = TRUE /\ p.letter = "u" /\ p.code = c
    BY <2>1
  <2>3. ~IsHigh(p)
    BY <1>5, <2>2 DEF IsHigh
  <2>4. UTF8(p.code) = <<c>>
    BY <1>5, <2>2 DEF UTF8
  <2>5. DecodePiece(s, p) = [s EXCEPT !.text = @ \o UTF8(p.code)]
    BY <2>2, <2>3 DEF DecodePiece
  <2>6. text \o <<c>> = Append(text, c)
    OBVIOUS
  <2>. QED  BY <2>4, <2>5, <2>6, Zenon DEF p
<1>6. CASE c \notin Coded /\ c \notin 1..31
  <2>1. p = [esc |-> FALSE, code |-> c]
    BY <1>3, <1>6, Zenon DEF Plain
  <2>2. p.esc = FALSE /\ p.code = c
    BY <2>1
  <2>3. c # QUOTE /\ c # BACKSLASH
    BY <1>2, <1>6, Zenon
  <2>4. DecodePiece(s, p) = [s EXCEPT !.text = Append(@, c)]
    BY <2>2, <2>3 DEF DecodePiece
  <2>. QED  BY <2>4, Zenon DEF p
<1>. QED  BY <1>4, <1>5, <1>6

\* What is written for a text is read as that text.
LEMMA StringBack ==
  ASSUME NEW text \in Seq(Int)
  PROVE  DecodeString(StringText(text)) = [type |-> "string", text |-> text]
<1>. DEFINE t == StringText(text)
            p == [i \in DOMAIN text |-> QuotePiece(text[i])]
            N == Len(text)
            start == [text |-> <<>>, high |-> 0, failed |-> FALSE]
            Solves(f) == f = [i \in 0..N |-> IF i = 0 THEN start ELSE DecodePiece(f[i - 1], p[i])]
            State(x) == [text |-> x, high |-> 0, failed |-> FALSE]
            g == [i \in 0..N |-> State(SubSeq(text, 1, i))]
<1>1. t.pieces = p /\ N \in Nat /\ DOMAIN text = 1..N
  BY DEF StringText
<1>2. Len(p) = N /\ \A i \in 1..N: p[i] = QuotePiece(text[i])
  BY <1>1
<1>. HIDE DEF t, p
<1>3. ASSUME NEW i \in 1..N
      PROVE  State(SubSeq(text, 1, i)) = DecodePiece(State(SubSeq(text, 1, i - 1)), p[i])
  <2>. DEFINE x == SubSeq(text, 1, i - 1)
  <2>1. x \in Seq(Int) /\ text[i] \in Int
    <3>1. i - 1 \in 0..N
      BY <1>1
    <3>. QED  BY <1>1, <3>1, SubSeqProperties
  <2>2. SubSeq(text, 1, i) = Append(x, text[i])
    <3>1. /\ i - 1 \in 0..N /\ i \in 0..N
      BY <1>1
    <3>2. /\ SubSeq(text, 1, i) \in Seq(Int) /\ Len(SubSeq(text, 1, i)) = i
          /\ \A j \in 1..i: SubSeq(text, 1, i)[j] = text[j]
      BY <3>1, SubSeqProperties
    <3>3. /\ Len(x) = i - 1 /\ \A j \in 1..i - 1: x[j] = text[j]
      BY <3>1, SubSeqProperties
    <3>4. /\ Append(x, text[i]) \in Seq(Int) /\ Len(Append(x, text[i])) = i
          /\ \A j \in 1..i - 1: Append(x, text[i])[j] = x[j]
          /\ Append(x, text[i])[i] = text[i]
      BY <2>1, <3>3, AppendProperties
    <3>5. \A j \in 1..i: j = i \/ j \in 1..i - 1
      OBVIOUS
    <3>. HIDE DEF x
    <3>. QED  BY <3>2, <3>3, <3>4, <3>5, SeqEqual, SMTT(60)
  <2>. HIDE DEF x
  <2>3. State(Append(x, text[i])) = DecodePiece(State(x), QuotePiece(text[i]))
    BY <2>1, QuoteOn, Zenon
  <2>. QED  BY <1>2, <2>2, <2>3, Zenon DEF x
<1>4. State(SubSeq(text, 1, 0)) = start
  <2>1. SubSeq(text, 1, 0) = <<>>
    BY SubSeqEmpty
  <2>. QED  BY <2>1, Zenon
<1>. HIDE DEF State, start
<1>5. Solves(g)
  <2>1. /\ g = [i \in 0..N |-> g[i]] /\ g[0] = start
        /\ \A i \in 1..N: g[i] = DecodePiece(g[i - 1], p[i])
    BY <1>1, <1>3, <1>4
  <2>2. \A i \in 0..N: i = 0 \/ i \in 1..N
    OBVIOUS
  <2>. HIDE DEF g, N
  <2>. QED  BY <2>1, <2>2, Zenon
<1>. DEFINE F == Decodings(p)
<1>6. Solves(F)
  <2>1. F = CHOOSE h: Solves(h)
    BY <1>2 DEF Decodings, start
  <2>. HIDE DEF Solves, F
  <2>. QED  BY <1>5, <2>1
<1>7. \A i \in 0..N: F[i] = IF i = 0 THEN start ELSE DecodePiece(F[i - 1], p[i])
  <2>. HIDE DEF F
  <2>1. F = [i \in 0..N |-> IF i = 0 THEN start ELSE DecodePiece(F[i - 1], p[i])]
    BY <1>6, Zenon
  <2>. QED  BY <2>1, Zenon
<1>8. DecodeString(t) = LET s == F[N]
                        IN IF s.failed \/ s.high # 0 THEN Failed
                           ELSE [type |-> "string", text |-> s.text]
  BY <1>1, <1>2 DEF DecodeString, Decodings
<1>. HIDE DEF F
<1>. DEFINE X == {i \in 0..N: F[i] = State(SubSeq(text, 1, i))}
<1>9. 0..N \subseteq X
  <2>1. 0 \in X
    BY <1>1, <1>4, <1>7
  <2>2. ASSUME NEW i \in 1..N, i - 1 \in X PROVE i \in X
    <3>1. i \in 0..N /\ i # 0
      BY <1>1
    <3>2. F[i] = DecodePiece(F[i - 1], p[i]) /\ F[i - 1] = State(SubSeq(text, 1, i - 1))
      BY <1>7, <2>2, <3>1
    <3>. QED  BY <1>3, <3>1, <3>2
  <2>. HIDE DEF X, N
  <2>. QED  BY <1>1, <2>1, <2>2, Induction, Zenon
<1>10. F[N] = State(text)
  <2>1. N \in 0..N /\ SubSeq(text, 1, N) = text
    BY <1>1, SubSeqFull
  <2>. QED  BY <1>9, <2>1, Zenon
<1>11. F[N] = [text |-> text, high |-> 0, failed |-> FALSE]
  BY <1>10 DEF State
<1>. QED  BY <1>8, <1>11 DEF t

\* A text ends before its first NUL, and one that has none is all there.
LEMMA CStrIs ==
  ASSUME NEW text \in Seq(Int)
  PROVE  /\ CStr(text) \in Seq(Int \ {0})
         /\ text \in Seq(Int \ {0}) => CStr(text) = text
<1>. DEFINE N == Len(text)
            W == {i \in 1..N + 1: i > N \/ text[i] = 0}
            m == Min(W)
<1>1. N \in Nat /\ \A i \in 1..N: text[i] \in Int
  OBVIOUS
<1>2. W \in SUBSET Nat /\ N + 1 \in W
  BY <1>1
<1>3. PICK n \in W: \A k \in W: n <= k
  <2>. HIDE DEF W
  <2>. QED  BY <1>2, LeastNumber, Zenon
<1>4. m \in W /\ \A k \in W: m <= k
  <2>1. m = CHOOSE x \in W: \A y \in W: x <= y
    BY DEF Min
  <2>. HIDE DEF W, m
  <2>. QED  BY <1>3, <2>1
<1>5. CStr(text) = SubSeq(text, 1, m - 1)
  BY DEF CStr
<1>. HIDE DEF m
<1>6. m \in 1..N + 1 /\ m - 1 \in 0..N
  BY <1>1, <1>4
<1>7. \A j \in 1..m - 1: text[j] \in Int \ {0}
  <2>1. TAKE j \in 1..m - 1
  <2>2. j \in 1..N /\ j < m /\ j \in 1..N + 1
    BY <1>1, <1>6
  <2>3. j \notin W
    <3>. HIDE DEF W
    <3>1. j \in W => m <= j
      BY <1>4
    <3>. QED  BY <1>6, <2>2, <3>1
  <2>. QED  BY <1>1, <2>2, <2>3
<1>8. /\ SubSeq(text, 1, m - 1) \in Seq(Int) /\ Len(SubSeq(text, 1, m - 1)) = m - 1
      /\ \A j \in 1..m - 1: SubSeq(text, 1, m - 1)[j] = text[j]
  BY <1>1, <1>6, SubSeqProperties
<1>9. CStr(text) \in Seq(Int \ {0})
  BY <1>5, <1>7, <1>8, <1>6
<1>10. ASSUME text \in Seq(Int \ {0}) PROVE CStr(text) = text
  <2>1. \A i \in 1..N: text[i] # 0
    BY <1>10
  <2>2. m > N
    BY <1>4, <1>6, <2>1
  <2>3. m - 1 = N
    BY <1>1, <1>6, <2>2
  <2>4. SubSeq(text, 1, N) = text
    BY SubSeqFull
  <2>. QED  BY <1>5, <2>3, <2>4
<1>. QED  BY <1>9, <1>10

ScalarTypes == {"number", "string", "literal"}

\* What a token of a single Value stands for.
LEMMA ScalarStorable ==
  ASSUME NEW t \in AnyToken, t.type \in ScalarTypes
  PROVE  Scalar(t) = Failed \/ Storable(Scalar(t))
<1>1. CASE t.type = "number"
  <2>1. Scalar(t) = DecodeNumber(t)
    BY <1>1 DEF Scalar
  <2>2. t.neg \in BOOLEAN /\ t.digits \in Seq(0..9)
    BY <1>1, TokenIs, Zenon
  <2>3. DecodeNumber(t) = Failed \/ Storable(DecodeNumber(t))
    BY <2>2, NumberStorable
  <2>. QED  BY <2>1, <2>3
<1>2. CASE t.type = "literal"
  <2>1. Scalar(t) = t.value
    BY <1>2 DEF Scalar
  <2>2. t.value \in {Null, Bool(TRUE), Bool(FALSE)}
    BY <1>2, TokenIs, Zenon
  <2>. QED  BY <2>1, <2>2, Zenon DEF Storable
<1>3. CASE t.type = "string"
  <2>1. PICK s \in Decoded:
          DecodeString(t) = IF s.failed \/ s.high # 0 THEN Failed
                            ELSE [type |-> "string", text |-> s.text]
    BY <1>3, TokenIs, StringIsRead, Zenon
  <2>2. s.text \in Seq(Int)
    BY DEF Decoded
  <2>3. Scalar(t) = IF DecodeString(t) = Failed THEN Failed
                    ELSE [DecodeString(t) EXCEPT !.text = CStr(@)]
    BY <1>3 DEF Scalar
  <2>4. CASE DecodeString(t) = Failed
    BY <2>3, <2>4
  <2>5. CASE DecodeString(t) # Failed
    <3>1. DecodeString(t) = [type |-> "string", text |-> s.text]
      BY <2>1, <2>5
    <3>2. Scalar(t) = [type |-> "string", text |-> CStr(s.text)]
      BY <2>3, <2>5, <3>1
    <3>3. CStr(s.text) \in Seq(Int \ {0})
      BY <2>2, CStrIs
    <3>. DEFINE v == Scalar(t)
    <3>4. v = [type |-> "string", text |-> v.text] /\ v.text \in Seq(Int \ {0})
      BY <3>2, <3>3
    <3>. HIDE DEF v
    <3>5. Storable(v)
      BY <3>4, Zenon DEF Storable
    <3>. QED  BY <3>5 DEF v
  <2>. QED  BY <2>4, <2>5
<1>. QED  BY <1>1, <1>2, <1>3 DEF ScalarTypes

LEMMA ReadBack ==
  ASSUME NEW v, Storable(v), v \notin {Array, Object, Infinity}
  PROVE  LET t == ScalarText(v)
         IN /\ t.type \in ScalarTypes
            /\ Scalar(t) # Failed
            /\ Integral(Scalar(t)) = Integral(v)
<1>. DEFINE t == ScalarText(v)
<1>1. CASE v \in {Null, Bool(TRUE), Bool(FALSE)}
  <2>1. v.type \in {"null", "bool"}
    BY <1>1 DEF Null, Bool
  <2>2. t = [type |-> "literal", value |-> v]
    BY <2>1 DEF ScalarText
  <2>. HIDE DEF t
  <2>3. t.type = "literal" /\ Scalar(t) = v
    BY <2>2 DEF Scalar
  <2>4. v # Failed
    BY <2>1 DEF Failed
  <2>. QED  BY <2>3, <2>4 DEF t, ScalarTypes
<1>2. CASE v = [type |-> "string", text |-> v.text] /\ v.text \in Seq(Int \ {0})
  <2>. DEFINE text == v.text
  <2>0. text \in Seq(Int \ {0}) /\ v.type = "string"
    BY <1>2
  <2>1. text \in Seq(Int)
    <3>1. Seq(Int \ {0}) \subseteq Seq(Int)
      BY SeqMonotonic
    <3>. QED  BY <2>0, <3>1
  <2>2. t = StringText(text) /\ t.type = "string"
    BY <2>0 DEF ScalarText, StringText
  <2>3. DecodeString(t) = [type |-> "string", text |-> text]
    BY <2>1, <2>2, StringBack
  <2>4. CStr(text) = text
    BY <2>0, <2>1, CStrIs
  <2>. HIDE DEF t, text
  <2>5. DecodeString(t) # Failed
    BY <2>3 DEF Failed
  <2>6. Scalar(t) = [DecodeString(t) EXCEPT !.text = CStr(@)]
    BY <2>2, <2>5 DEF Scalar
  <2>7. Scalar(t) = [type |-> "string", text |-> text]
    BY <2>3, <2>4, <2>6
  <2>8. Scalar(t) = v
    BY <1>2, <2>7 DEF text
  <2>9. v # Failed
    BY <2>0 DEF Failed
  <2>. QED  BY <2>2, <2>8, <2>9 DEF t, ScalarTypes
<1>3. CASE \E type \in {"int", "uint"}: /\ v = [type |-> type, num |-> v.num]
                                        /\ v.num \in -LargestInt..Word - 1
  <2>1. PICK type \in {"int", "uint"}: /\ v = [type |-> type, num |-> v.num]
                                       /\ v.num \in -LargestInt..Word - 1
    BY <1>3
  <2>. DEFINE n == v.num
  <2>2. PICK kind \in {"int", "uint"}: DecodeNumber(NumberText(v)) = [type |-> kind, num |-> n]
    BY <2>1, NumberBack
  <2>. HIDE DEF n
  <2>3. v = [type |-> type, num |-> n]
    BY <2>1 DEF n
  <2>4. v.type \in {"int", "uint"} /\ v # Infinity
    BY <2>3 DEF Infinity
  <2>5. t = NumberText(v)
    BY <2>4 DEF ScalarText
  <2>6. t.type = "number"
    BY <2>4, <2>5 DEF NumberText
  <2>. HIDE DEF t
  <2>7. Scalar(t) = [type |-> kind, num |-> n]
    BY <2>2, <2>5, <2>6 DEF Scalar
  <2>8. Integral(Scalar(t)) = [type |-> "int", num |-> n]
    BY <2>7 DEF Integral
  <2>9. Integral(v) = [type |-> "int", num |-> n]
    BY <2>3 DEF Integral
  <2>10. Scalar(t) # Failed
    BY <2>7 DEF Failed
  <2>. QED  BY <2>6, <2>8, <2>9, <2>10 DEF t, ScalarTypes
<1>4. CASE v = [type |-> "real", num |-> v.num] /\ v.num \in Int
  <2>1. DecodeNumber(NumberText(v)) = v
    BY <1>4, RealBack
  <2>2. v.type = "real" /\ v # Infinity /\ v # Failed
    BY <1>4 DEF Infinity, Failed
  <2>3. t = NumberText(v)
    BY <2>2 DEF ScalarText
  <2>4. t.type = "number"
    BY <2>2, <2>3 DEF NumberText
  <2>. HIDE DEF t
  <2>5. Scalar(t) = v
    BY <2>1, <2>3, <2>4 DEF Scalar
  <2>. QED  BY <2>2, <2>4, <2>5 DEF t, ScalarTypes
<1>5. \/ v \in {Null, Bool(TRUE), Bool(FALSE)}
      \/ v = [type |-> "string", text |-> v.text] /\ v.text \in Seq(Int \ {0})
      \/ \E type \in {"int", "uint"}: /\ v = [type |-> type, num |-> v.num]
                                      /\ v.num \in -LargestInt..Word - 1
      \/ v = [type |-> "real", num |-> v.num] /\ v.num \in Int
  BY Zenon DEF Storable
<1>. QED  BY <1>1, <1>2, <1>3, <1>4, <1>5, Zenon

\* What the program assigns.
LEMMA NewStorable == \A v \in NewValues: Storable(v)
<1>. TAKE v \in NewValues
<1>0. LargestInt \in Nat /\ Word = 2 * LargestInt
  BY WidthAssumption DEF Word
<1>1. CASE v \in {Null, Array, Object, Bool(TRUE), Bool(FALSE), Infinity}
  BY <1>1, Zenon DEF Storable
<1>2. CASE v.type = "string" /\ v = [type |-> "string", text |-> v.text] /\ v.text \in Seq(1..255)
  <2>1. Seq(1..255) \subseteq Seq(Int \ {0})
    <3>1. 1..255 \subseteq Int \ {0}
      BY SMT
    <3>. QED  BY <3>1, SeqMonotonic, ZenonT(60)
  <2>3. v.text \in Seq(Int \ {0})
    BY <1>2, <2>1, Zenon
  <2>. QED  BY <1>2, <2>3, Zenon DEF Storable
<1>3. CASE v.type = "int" /\ v = [type |-> "int", num |-> v.num] /\ v.num \in -LargestInt..LargestInt - 1
  <2>1. v.num \in -LargestInt..Word - 1
    BY <1>0, <1>3
  <2>. QED  BY <1>3, <2>1, Zenon DEF Storable
<1>4. CASE v.type = "uint" /\ v = [type |-> "uint", num |-> v.num] /\ v.num \in 0..Word - 1
  <2>1. v.num \in -LargestInt..Word - 1
    BY <1>0, <1>4
  <2>. QED  BY <1>4, <2>1, Zenon DEF Storable
<1>5. CASE v.type = "real" /\ v = [type |-> "real", num |-> v.num] /\ v.num \in Int
  BY <1>5, Zenon DEF Storable
<1>6. \/ v \in {Null, Array, Object, Bool(TRUE), Bool(FALSE), Infinity}
      \/ v.type = "string" /\ v = [type |-> "string", text |-> v.text] /\ v.text \in Seq(1..255)
      \/ v.type = "int" /\ v = [type |-> "int", num |-> v.num] /\ v.num \in -LargestInt..LargestInt - 1
      \/ v.type = "uint" /\ v = [type |-> "uint", num |-> v.num] /\ v.num \in 0..Word - 1
      \/ v.type = "real" /\ v = [type |-> "real", num |-> v.num] /\ v.num \in Int
  BY ProgramAssumption, Zenon
<1>. QED  BY <1>1, <1>2, <1>3, <1>4, <1>5, <1>6, Zenon

-----------------------------------------------------------------------------
(* Every Value below the root is in a container that it fits *)

KeySet == {Index(i): i \in Nat} \cup {[name |-> n]: n \in Seq(Int \ {0})}

\* A container has keys of its own kind, and what is no container has none.
Fits(value, key) ==
  \/ value = Array /\ key \in {Index(i): i \in Nat}
  \/ value = Object /\ key \in {[name |-> n]: n \in Seq(Int \ {0})}

\* In every Value but the root is in a container, and in strict mode no comment is kept.
WellFormed(m, tr) ==
  /\ Rooted(KeySet, tr)
  /\ IsFiniteSet(DOMAIN tr)
  /\ \A p \in DOMAIN tr: p # <<>> => /\ Front(p) \in DOMAIN tr
                                     /\ Fits(tr[Front(p)].value, p[Len(p)])
  /\ \A p \in DOMAIN tr: /\ Storable(tr[p].value)
                         /\ m = "strict" => tr[p].comments = {}

LEMMA PrefixIs ==
  ASSUME NEW K, NEW s \in Seq(K), NEW t \in Seq(K)
  PROVE  IsPrefix(s, t) <=> Len(s) <= Len(t) /\ \A i \in 1..Len(s): s[i] = t[i]
<1>. SUFFICES ASSUME Len(s) <= Len(t)
              PROVE  SubSeq(s, 1, Len(s)) = SubSeq(t, 1, Len(s)) <=> \A i \in 1..Len(s): s[i] = t[i]
  BY DEF IsPrefix
<1>1. SubSeq(s, 1, Len(s)) = s
  BY SubSeqFull
<1>2. Len(s) \in 0..Len(t) /\ Len(s) \in Nat
  OBVIOUS
<1>. DEFINE u == SubSeq(t, 1, Len(s))
<1>3. u \in Seq(K) /\ Len(u) = Len(s) /\ \A i \in 1..Len(s): u[i] = t[i]
  BY <1>2, SubSeqProperties
<1>. HIDE DEF u
<1>4. s = u <=> \A i \in 1..Len(s): s[i] = t[i]
  <2>1. ASSUME \A i \in 1..Len(s): s[i] = t[i] PROVE s = u
    BY <1>2, <1>3, <2>1, SeqEqual
  <2>. QED  BY <1>3, <2>1
<1>. QED  BY <1>1, <1>4 DEF u

LEMMA FrontFacts ==
  ASSUME NEW K, NEW p \in Seq(K), p # <<>>
  PROVE  /\ Front(p) \in Seq(K) /\ Len(p) \in Nat /\ Len(p) >= 1 /\ Len(Front(p)) = Len(p) - 1
         /\ \A i \in 1..Len(p) - 1: Front(p)[i] = p[i]
         /\ p[Len(p)] \in K
         /\ p = Append(Front(p), p[Len(p)])
<1>1. Len(p) \in Nat /\ Len(p) >= 1
  BY EmptySeq
<1>. DEFINE f == Front(p)
<1>3. f \in Seq(K) /\ Len(f) = Len(p) - 1 /\ \A i \in 1..Len(p) - 1: f[i] = p[i]
  BY FrontIs
<1>4. p[Len(p)] \in K
  BY <1>1
<1>. HIDE DEF f
<1>5. /\ Append(f, p[Len(p)]) \in Seq(K) /\ Len(Append(f, p[Len(p)])) = Len(p)
      /\ \A i \in 1..Len(p): Append(f, p[Len(p)])[i] = p[i]
  BY <1>1, <1>3, <1>4, AppendProperties
<1>6. p = Append(f, p[Len(p)])
  BY <1>5, SeqEqual
<1>. QED  BY <1>1, <1>3, <1>4, <1>6 DEF f

\* What is a prefix of a path but not the path is a prefix of all but its last key.
LEMMA PrefixFront ==
  ASSUME NEW K, NEW s \in Seq(K), NEW p \in Seq(K), p # <<>>
  PROVE  IsPrefix(s, p) <=> s = p \/ IsPrefix(s, Front(p))
<1>. DEFINE f == Front(p)
<1>1. /\ f \in Seq(K) /\ Len(p) \in Nat /\ Len(p) >= 1 /\ Len(f) = Len(p) - 1
      /\ \A i \in 1..Len(p) - 1: f[i] = p[i]
  BY FrontFacts
<1>2. Len(s) \in Nat
  OBVIOUS
<1>. HIDE DEF f
<1>3. IsPrefix(s, p) <=> Len(s) <= Len(p) /\ \A i \in 1..Len(s): s[i] = p[i]
  BY PrefixIs
<1>4. IsPrefix(s, f) <=> Len(s) <= Len(f) /\ \A i \in 1..Len(s): s[i] = f[i]
  BY <1>1, PrefixIs
<1>. SUFFICES IsPrefix(s, p) <=> s = p \/ IsPrefix(s, f)
  BY DEF f
<1>5. CASE Len(s) <= Len(f)
  <2>1. \A i \in 1..Len(s): i \in 1..Len(p) - 1
    BY <1>1, <1>2, <1>5
  <2>2. Len(s) <= Len(p) /\ \A i \in 1..Len(s): f[i] = p[i]
    BY <1>1, <1>2, <1>5, <2>1
  <2>3. s # p
    BY <1>1, <1>2, <1>5
  <2>4. (\A i \in 1..Len(s): s[i] = p[i]) <=> (\A i \in 1..Len(s): s[i] = f[i])
    BY <2>2
  <2>5. IsPrefix(s, p) <=> IsPrefix(s, f)
    <3>. HIDE DEF IsPrefix
    <3>. QED  BY <1>3, <1>4, <1>5, <2>2, <2>4
  <2>. QED  BY <2>3, <2>5, Zenon
<1>6. CASE ~(Len(s) <= Len(f))
  <2>1. ~IsPrefix(s, f)
    BY <1>4, <1>6
  <2>2. IsPrefix(s, p) => s = p
    <3>. SUFFICES ASSUME IsPrefix(s, p) PROVE s = p
      OBVIOUS
    <3>1. Len(s) = Len(p) /\ \A i \in 1..Len(s): s[i] = p[i]
      BY <1>1, <1>2, <1>3, <1>6
    <3>. QED  BY <3>1, SeqEqual
  <2>3. s = p => IsPrefix(s, p)
    BY <1>1, <1>3
  <2>4. IsPrefix(s, p) <=> s = p \/ IsPrefix(s, f)
    BY <2>1, <2>2, <2>3, Zenon
  <2>. QED  BY <2>4
<1>. QED  BY <1>5, <1>6

LEMMA FormedFacts ==
  ASSUME NEW m, NEW tr, WellFormed(m, tr)
  PROVE  /\ DOMAIN tr \subseteq Seq(KeySet) /\ <<>> \in DOMAIN tr /\ IsFiniteSet(DOMAIN tr)
         /\ Nodes(tr)
         /\ \A p \in DOMAIN tr: p # <<>> => /\ Front(p) \in DOMAIN tr
                                            /\ Fits(tr[Front(p)].value, p[Len(p)])
         /\ \A p \in DOMAIN tr: /\ Storable(tr[p].value)
                                /\ m = "strict" => tr[p].comments = {}
<1>1. Rooted(KeySet, tr)
  BY DEF WellFormed
<1>2. DOMAIN tr \subseteq Seq(KeySet) /\ <<>> \in DOMAIN tr /\ Nodes(tr)
  BY <1>1, RootedTree DEF Nodes
<1>. QED  BY <1>2 DEF WellFormed

\* Another function on the same tree, or on less of it.
LEMMA FormedFrom ==
  ASSUME NEW m, NEW tr, WellFormed(m, tr), NEW new, Nodes(new), <<>> \in DOMAIN new,
         DOMAIN new \subseteq DOMAIN tr,
         \A p \in DOMAIN new: p # <<>> => /\ Front(p) \in DOMAIN new
                                          /\ new[Front(p)].value = tr[Front(p)].value,
         \A p \in DOMAIN new: /\ Storable(new[p].value)
                              /\ m = "strict" => new[p].comments = tr[p].comments
  PROVE  WellFormed(m, new)
<1>1. DOMAIN tr \subseteq Seq(KeySet) /\ IsFiniteSet(DOMAIN tr)
  BY FormedFacts
<1>2. IsFiniteSet(DOMAIN new)
  BY <1>1, FS_Subset
<1>3. Rooted(KeySet, new)
  BY <1>1, RootedTree DEF Nodes
<1>4. ASSUME NEW p \in DOMAIN new, p # <<>> PROVE Fits(new[Front(p)].value, p[Len(p)])
  BY <1>4 DEF WellFormed
<1>5. \A p \in DOMAIN new: m = "strict" => new[p].comments = {}
  BY DEF WellFormed
<1>. QED  BY <1>2, <1>3, <1>4, <1>5 DEF WellFormed

LEMMA WithFormed ==
  ASSUME NEW m, NEW tr, WellFormed(m, tr), NEW path \in DOMAIN tr, NEW place, m # "strict"
  PROVE  WellFormed(m, With(tr, path, place))
<1>. DEFINE w == With(tr, path, place)
<1>1. /\ Nodes(tr) /\ <<>> \in DOMAIN tr
      /\ \A p \in DOMAIN tr: p # <<>> => Front(p) \in DOMAIN tr
      /\ \A p \in DOMAIN tr: Storable(tr[p].value)
  BY FormedFacts
<1>2. /\ DOMAIN w = DOMAIN tr /\ Nodes(w)
      /\ \A p \in DOMAIN tr: w[p].value = tr[p].value
  BY <1>1, WithValue
<1>. HIDE DEF w
<1>3. WellFormed(m, w)
  BY <1>1, <1>2, FormedFrom
<1>. QED  BY <1>3 DEF w

\* What an assignment leaves.
Assigned(new, tr, path, value) ==
  /\ DOMAIN new = DOMAIN tr \ Below(tr, path)
  /\ path \in DOMAIN new
  /\ Nodes(new)
  /\ \A p \in DOMAIN new: /\ new[p].comments = tr[p].comments
                          /\ new[p].value = IF p = path THEN value ELSE tr[p].value

LEMMA AssignIs ==
  ASSUME NEW tr, NEW path \in DOMAIN tr, NEW value, Nodes(tr)
  PROVE  Assigned(Assign(tr, path, value), tr, path, value)
<1>. DEFINE a == Assign(tr, path, value)
<1>1. DOMAIN a = DOMAIN tr \ Below(tr, path) /\ path \in DOMAIN a
  BY DEF Assign, Below
<1>2. ASSUME NEW p \in DOMAIN a
      PROVE  /\ a[p] = [value |-> a[p].value, comments |-> a[p].comments]
             /\ a[p].comments = tr[p].comments
             /\ a[p].value = IF p = path THEN value ELSE tr[p].value
  <2>1. tr[p] = [value |-> tr[p].value, comments |-> tr[p].comments]
    BY <1>1 DEF Nodes
  <2>2. a[p] = IF p = path THEN [tr[p] EXCEPT !.value = value] ELSE tr[p]
    BY <1>1 DEF Assign
  <2>. HIDE DEF a
  <2>. QED  BY <2>1, <2>2
<1>. HIDE DEF a
<1>3. Nodes(a)
  BY <1>2 DEF Nodes
<1>. QED  BY <1>1, <1>2, <1>3 DEF a, Assigned

LEMMA AssignFormed ==
  ASSUME NEW m, NEW tr, WellFormed(m, tr), NEW path \in DOMAIN tr, NEW value, Storable(value)
  PROVE  WellFormed(m, Assign(tr, path, value))
<1>. DEFINE a == Assign(tr, path, value)
<1>1. Nodes(tr) /\ DOMAIN tr \subseteq Seq(KeySet) /\ <<>> \in DOMAIN tr /\ path \in Seq(KeySet)
  BY FormedFacts
<1>2. /\ DOMAIN a = DOMAIN tr \ Below(tr, path) /\ path \in DOMAIN a /\ Nodes(a)
      /\ \A p \in DOMAIN a: /\ a[p].comments = tr[p].comments
                            /\ a[p].value = IF p = path THEN value ELSE tr[p].value
  <2>1. Assigned(a, tr, path, value)
    BY <1>1, AssignIs
  <2>. HIDE DEF a
  <2>. QED  BY <2>1 DEF Assigned
<1>. HIDE DEF a
<1>3. <<>> \in DOMAIN a
  <2>1. CASE path = <<>>
    BY <1>2, <2>1
  <2>2. CASE path # <<>>
    BY <1>1, <1>2, <2>2, NotTheRoot DEF Below
  <2>. QED  BY <2>1, <2>2
<1>4. ASSUME NEW p \in DOMAIN a, p # <<>>
      PROVE  Front(p) \in DOMAIN a /\ a[Front(p)].value = tr[Front(p)].value
  <2>1. p \in DOMAIN tr /\ p \in Seq(KeySet) /\ p \notin Below(tr, path) /\ Front(p) \in DOMAIN tr
    BY <1>1, <1>2, <1>4 DEF WellFormed
  <2>2. p = path \/ ~IsPrefix(path, p)
    BY <2>1 DEF Below
  <2>3. IsPrefix(path, p) <=> path = p \/ IsPrefix(path, Front(p))
    BY <1>1, <1>4, <2>1, PrefixFront
  <2>4. IsPrefix(path, Front(p)) => FALSE
    <3>. SUFFICES ASSUME IsPrefix(path, Front(p)) PROVE FALSE
      OBVIOUS
    <3>1. p = path
      BY <2>2, <2>3
    <3>2. Len(path) <= Len(Front(p))
      BY DEF IsPrefix
    <3>3. Len(Front(p)) = Len(p) - 1 /\ Len(p) \in Nat
      BY <1>4, <2>1, FrontFacts
    <3>. QED  BY <3>1, <3>2, <3>3
  <2>5. Front(p) # path
    <3>1. IsPrefix(path, path)
      BY <1>1, PrefixIs
    <3>. QED  BY <2>4, <3>1
  <2>. QED  BY <1>2, <2>1, <2>4, <2>5 DEF Below
<1>5. \A p \in DOMAIN a: Storable(a[p].value)
  BY <1>2 DEF WellFormed
<1>6. WellFormed(m, a)
  BY <1>2, <1>3, <1>4, <1>5, FormedFrom
<1>. QED  BY <1>6 DEF a

LEMMA WithoutFormed ==
  ASSUME NEW m, NEW tr, WellFormed(m, tr), NEW paths, \A r \in paths: r \in Seq(KeySet) /\ r # <<>>
  PROVE  WellFormed(m, Without(tr, paths))
<1>. DEFINE w == Without(tr, paths)
<1>1. Nodes(tr) /\ DOMAIN tr \subseteq Seq(KeySet) /\ <<>> \in DOMAIN tr
  BY FormedFacts
<1>2. /\ DOMAIN w = {q \in DOMAIN tr: ~\E r \in paths: IsPrefix(r, q)}
      /\ \A p \in DOMAIN w: w[p] = tr[p]
  BY DEF Without
<1>. HIDE DEF w
<1>3. Nodes(w)
  BY <1>1, <1>2 DEF Nodes
<1>4. <<>> \in DOMAIN w
  BY <1>1, <1>2, NotTheRoot
<1>5. ASSUME NEW p \in DOMAIN w, p # <<>> PROVE Front(p) \in DOMAIN w
  <2>1. p \in DOMAIN tr /\ p \in Seq(KeySet) /\ Front(p) \in DOMAIN tr
    BY <1>1, <1>2, <1>5 DEF WellFormed
  <2>2. ASSUME NEW r \in paths, IsPrefix(r, Front(p)) PROVE FALSE
    <3>1. IsPrefix(r, p)
      BY <1>5, <2>1, <2>2, PrefixFront
    <3>. QED  BY <1>2, <3>1
  <2>. QED  BY <1>2, <2>1, <2>2
<1>6. \A p \in DOMAIN w: p \in DOMAIN tr /\ w[p] = tr[p] /\ Storable(tr[p].value)
  BY <1>2, FormedFacts
<1>7. WellFormed(m, w)
  BY <1>2, <1>3, <1>4, <1>5, <1>6, FormedFrom
<1>. QED  BY <1>7 DEF w

\* A new Value in a container that it fits in.
LEMMA AddFormed ==
  ASSUME NEW m, NEW tr, WellFormed(m, tr), NEW path \in DOMAIN tr, NEW key, Fits(tr[path].value, key)
  PROVE  LET child == Append(path, key)
         IN WellFormed(m, [p \in DOMAIN tr \cup {child} |-> IF p = child THEN Leaf(Null) ELSE tr[p]])
            \/ child \in DOMAIN tr
<1>. DEFINE child == Append(path, key)
            c == [p \in DOMAIN tr \cup {child} |-> IF p = child THEN Leaf(Null) ELSE tr[p]]
<1>. SUFFICES ASSUME child \notin DOMAIN tr PROVE WellFormed(m, c)
  OBVIOUS
<1>1. /\ Nodes(tr) /\ DOMAIN tr \subseteq Seq(KeySet) /\ <<>> \in DOMAIN tr
      /\ IsFiniteSet(DOMAIN tr) /\ path \in Seq(KeySet)
  BY FormedFacts
<1>2. key \in KeySet
  BY DEF Fits, KeySet
<1>3. child \in Seq(KeySet) /\ child # <<>> /\ Front(child) = path /\ child[Len(child)] = key
  <2>1. child \in Seq(KeySet) /\ Len(child) = Len(path) + 1 /\ child[Len(path) + 1] = key
    BY <1>1, <1>2, AppendProperties
  <2>2. child # <<>> /\ Front(child) = path
    BY <1>1, <1>2, FrontAppend
  <2>. QED  BY <2>1, <2>2
<1>4. /\ DOMAIN c = DOMAIN tr \cup {child}
      /\ \A p \in DOMAIN tr: c[p] = tr[p]
      /\ c[child] = [value |-> Null, comments |-> {}]
  BY Zenon DEF Leaf
<1>. HIDE DEF c, child
<1>5. IsFiniteSet(DOMAIN c)
  BY <1>1, <1>4, FS_AddElement
<1>6. Nodes(c)
  BY <1>1, <1>4 DEF Nodes
<1>7. Rooted(KeySet, c)
  BY <1>1, <1>3, <1>4, <1>6, RootedTree, Zenon DEF Nodes
<1>8. ASSUME NEW p \in DOMAIN c, p # <<>>
      PROVE  Front(p) \in DOMAIN c /\ Fits(c[Front(p)].value, p[Len(p)])
  BY <1>3, <1>4, <1>8 DEF WellFormed
<1>9. \A p \in DOMAIN c: Storable(c[p].value) /\ (m = "strict" => c[p].comments = {})
  <2>1. Storable(Null)
    BY DEF Storable
  <2>. QED  BY <1>4, <2>1 DEF WellFormed
<1>. QED  BY <1>5, <1>7, <1>8, <1>9 DEF WellFormed

LEMMA ContainerIs ==
  ASSUME NEW v, Storable(v)
  PROVE  /\ v.type = "null" => v = Null
         /\ v.type = "array" => v = Array
         /\ v.type = "object" => v = Object
<1>1. CASE v \in {Null, Array, Object, Bool(TRUE), Bool(FALSE), Infinity}
  BY <1>1 DEF Null, Array, Object, Bool, Infinity
<1>2. CASE v = [type |-> "string", text |-> v.text]
  BY <1>2
<1>3. CASE \E type \in {"int", "uint"}: v = [type |-> type, num |-> v.num]
  BY <1>3
<1>4. CASE v = [type |-> "real", num |-> v.num]
  BY <1>4
<1>. QED  BY <1>1, <1>2, <1>3, <1>4, Zenon DEF Storable

LEMMA KeyKinds ==
  ASSUME NEW key \in KeySet
  PROVE  /\ "index" \in DOMAIN key => key \in {Index(i): i \in Nat}
         /\ "index" \notin DOMAIN key => key \in {[name |-> n]: n \in Seq(Int \ {0})}
  BY DEF KeySet, Index

\* operator[] of a Value that is null or a container of that kind.
LEMMA ChildFormed ==
  ASSUME NEW m, NEW tr, WellFormed(m, tr), NEW path \in DOMAIN tr, NEW key \in KeySet,
         tr[path].value \in {Null, IF "index" \in DOMAIN key THEN Array ELSE Object}
  PROVE  /\ WellFormed(m, Child(tr, path, key)) /\ Append(path, key) \in DOMAIN Child(tr, path, key)
         /\ Child(tr, path, key)[path].value \in Unpacked
<1>. DEFINE kind == IF "index" \in DOMAIN key THEN Array ELSE Object
            container == IF Is(tr, path, "null") THEN Assign(tr, path, kind) ELSE tr
            child == Append(path, key)
            grown == [p \in DOMAIN container \cup {child} |->
                        IF p = child THEN Leaf(Null) ELSE container[p]]
<1>1. Storable(kind)
  BY Zenon DEF Storable
<1>2. WellFormed(m, container) /\ path \in DOMAIN container
  <2>1. CASE Is(tr, path, "null")
    <3>1. Nodes(tr)
      BY FormedFacts
    <3>2. Assigned(Assign(tr, path, kind), tr, path, kind)
      BY <3>1, AssignIs
    <3>3. path \in DOMAIN Assign(tr, path, kind)
      BY <3>2 DEF Assigned
    <3>4. WellFormed(m, Assign(tr, path, kind))
      BY <1>1, AssignFormed
    <3>. QED  BY <2>1, <3>3, <3>4
  <2>. QED  BY <2>1
<1>3. container[path].value = kind
  <2>1. CASE Is(tr, path, "null")
    <3>1. Nodes(tr)
      BY FormedFacts
    <3>2. Assigned(Assign(tr, path, kind), tr, path, kind)
      BY <3>1, AssignIs
    <3>. DEFINE a == Assign(tr, path, kind)
    <3>. HIDE DEF a, kind
    <3>3. a[path].value = kind
      BY <3>2 DEF Assigned, a
    <3>. QED  BY <2>1, <3>3 DEF a
  <2>2. CASE ~Is(tr, path, "null")
    <3>1. tr[path].value # Null
      BY <2>2 DEF Is, Null
    <3>. QED  BY <2>2, <3>1
  <2>. QED  BY <2>1, <2>2
<1>4. Fits(container[path].value, key)
  <2>. HIDE DEF container
  <2>. QED  BY <1>3, KeyKinds DEF Fits
<1>5. Child(tr, path, key) = IF child \in DOMAIN tr THEN tr ELSE grown
  BY DEF Child
<1>6. CASE child \in DOMAIN tr
  <2>1. tr[path].value \in Unpacked
    BY DEF Unpacked
  <2>. HIDE DEF child, grown
  <2>2. Child(tr, path, key) = tr
    BY <1>5, <1>6
  <2>. QED  BY <1>6, <2>1, <2>2 DEF child
<1>7. CASE child \notin DOMAIN tr
  <2>1. DOMAIN container \subseteq DOMAIN tr
    BY DEF Assign
  <2>. HIDE DEF container
  <2>2. WellFormed(m, grown)
    <3>1. child \notin DOMAIN container
      BY <1>7, <2>1
    <3>. QED  BY <1>2, <1>4, <3>1, AddFormed, Zenon
  <2>3. child \in DOMAIN grown
    OBVIOUS
  <2>4. grown[path].value \in Unpacked
    <3>1. kind \in Unpacked
      BY DEF Unpacked
    <3>2. path # child
      BY <1>7
    <3>3. grown[path] = container[path]
      BY <1>2, <3>2
    <3>. HIDE DEF grown, kind
    <3>. QED  BY <1>3, <3>1, <3>3
  <2>. HIDE DEF grown, child
  <2>. QED  BY <1>5, <1>7, <2>2, <2>3, <2>4 DEF child
<1>. QED  BY <1>6, <1>7

\* A token begins the Value at a path.
LEMMA ReadValueFormed ==
  ASSUME NEW tr, WellFormed(mode, tr), NEW path \in DOMAIN tr, NEW t \in AnyToken, NEW fs,
         ReadValue(t, path, tr, fs)
  PROVE  WellFormed(mode, tree')
<1>. DEFINE commented == IF collect /\ before THEN With(tr, path, "before") ELSE tr
<1>1. WellFormed(mode, commented) /\ path \in DOMAIN commented
  <2>1. CASE collect /\ before
    <3>1. mode # "strict"
      BY <2>1 DEF collect
    <3>2. WellFormed(mode, With(tr, path, "before"))
      BY <3>1, WithFormed
    <3>. QED  BY <2>1, <3>2 DEF With
  <2>. QED  BY <2>1
<1>2. Storable(Array) /\ Storable(Object)
  BY Zenon DEF Storable
<1>3. t.type \in ScalarTypes => Scalar(t) = Failed \/ Storable(Scalar(t))
  BY ScalarStorable
<1>4. \/ tree' = Assign(commented, path, Object)
      \/ tree' = Assign(commented, path, Array)
      \/ t.type \in ScalarTypes /\ Scalar(t) # Failed /\ tree' = Assign(commented, path, Scalar(t))
      \/ tree' = commented
  BY DEF ReadValue, ScalarTypes
<1>. HIDE DEF commented
<1>. QED  BY <1>1, <1>2, <1>3, <1>4, AssignFormed

LEMMA AddCommentFormed ==
  ASSUME NEW tr, WellFormed(mode, tr), last = NOWHERE \/ last \in DOMAIN tr,
         NEW t, AddComment(t, tr)
  PROVE  WellFormed(mode, tree')
<1>1. tree' = IF collect /\ t.same /\ last # NOWHERE THEN With(tr, last, "same") ELSE tr
  BY DEF AddComment
<1>2. CASE collect /\ t.same /\ last # NOWHERE
  <2>1. mode # "strict" /\ last \in DOMAIN tr
    BY <1>2 DEF collect
  <2>. QED  BY <1>1, <1>2, <2>1, WithFormed
<1>. QED  BY <1>1, <1>2

LEMMA PrefixFacts ==
  ASSUME NEW K, NEW s \in Seq(K), NEW t \in Seq(K)
  PROVE  /\ IsPrefix(s, s)
         /\ IsPrefix(s, t) => Len(s) <= Len(t)
         /\ IsPrefix(s, t) /\ Len(s) = Len(t) => s = t
<1>1. IsPrefix(s, s)
  BY PrefixIs
<1>2. IsPrefix(s, t) <=> Len(s) <= Len(t) /\ \A i \in 1..Len(s): s[i] = t[i]
  BY PrefixIs
<1>3. ASSUME IsPrefix(s, t), Len(s) = Len(t) PROVE s = t
  BY <1>2, <1>3, SeqEqual
<1>. QED  BY <1>1, <1>2, <1>3

\* What is right below a path.
LEMMA ChildrenAre ==
  ASSUME NEW K, NEW tr, DOMAIN tr \subseteq Seq(K), NEW path \in Seq(K), NEW q
  PROVE  q \in Children(tr, path) <=> q \in DOMAIN tr /\ q # <<>> /\ Front(q) = path
<1>0. q \in Children(tr, path) <=> q \in DOMAIN tr /\ q # path /\ IsPrefix(path, q) /\ Len(q) = Len(path) + 1
  BY DEF Children, Below
<1>. SUFFICES ASSUME q \in DOMAIN tr
              PROVE  q # path /\ IsPrefix(path, q) /\ Len(q) = Len(path) + 1 <=> q # <<>> /\ Front(q) = path
  BY <1>0
<1>1. q \in Seq(K) /\ Len(path) \in Nat /\ Len(q) \in Nat
  OBVIOUS
<1>2. CASE q = <<>>
  BY <1>1, <1>2
<1>3. CASE q # <<>>
  <2>1. Front(q) \in Seq(K) /\ Len(Front(q)) = Len(q) - 1
    BY <1>1, <1>3, FrontFacts
  <2>2. IsPrefix(path, q) <=> path = q \/ IsPrefix(path, Front(q))
    BY <1>1, <1>3, PrefixFront
  <2>3. ASSUME q # path, IsPrefix(path, q), Len(q) = Len(path) + 1 PROVE Front(q) = path
    <3>1. IsPrefix(path, Front(q)) /\ Len(path) = Len(Front(q))
      BY <1>1, <2>1, <2>2, <2>3
    <3>. QED  BY <2>1, <3>1, PrefixFacts
  <2>4. ASSUME Front(q) = path PROVE q # path /\ IsPrefix(path, q) /\ Len(q) = Len(path) + 1
    <3>1. IsPrefix(path, Front(q))
      BY <2>1, <2>4, PrefixFacts
    <3>2. Len(q) = Len(path) + 1
      BY <1>1, <2>1, <2>4
    <3>3. q # path
      BY <1>1, <3>2
    <3>4. IsPrefix(path, q)
      BY <2>2, <3>1
    <3>. QED  BY <3>2, <3>3, <3>4
  <2>. QED  BY <1>3, <2>3, <2>4
<1>. QED  BY <1>2, <1>3

\* Finitely many numbers have a bound.
LEMMA FiniteBound ==
  ASSUME NEW S, IsFiniteSet(S), NEW h \in [S -> Nat]
  PROVE  \E b \in Nat: \A x \in S: h[x] <= b
<1>1. PICK n \in Nat: ExistsBijection(1..n, S)
  BY FS_NatBijection
<1>2. PICK f \in [1..n -> S]: \A x \in S: \E i \in 1..n: f[i] = x
  BY <1>1, Zenon DEF ExistsBijection, Bijection, Surjection
<1>. DEFINE X == {k \in 0..n: \E b \in Nat: \A i \in 1..k: h[f[i]] <= b}
<1>3. 0 \in X
  <2>1. 0 \in Nat /\ \A i \in 1..0: h[f[i]] <= 0
    OBVIOUS
  <2>. QED  BY <2>1
<1>4. ASSUME NEW k \in 1..n, k - 1 \in X PROVE k \in X
  <2>1. PICK b \in Nat: \A i \in 1..k - 1: h[f[i]] <= b
    BY <1>4
  <2>2. h[f[k]] \in Nat
    BY <1>2
  <2>. DEFINE c == b + h[f[k]]
  <2>3. c \in Nat /\ \A i \in 1..k: h[f[i]] <= c
    <3>1. \A i \in 1..k: h[f[i]] \in Nat /\ (i = k \/ i \in 1..k - 1)
      BY <1>2
    <3>. QED  BY <2>1, <2>2, <3>1
  <2>. QED  BY <2>3
<1>5. n \in X
  <2>1. n \in 0..n
    OBVIOUS
  <2>2. 0..n \subseteq X
    <3>. HIDE DEF X
    <3>. QED  BY <1>3, <1>4, Induction, Zenon
  <2>. QED  BY <2>1, <2>2, Zenon
<1>6. PICK b \in Nat: \A i \in 1..n: h[f[i]] <= b
  BY <1>5
<1>7. \A x \in S: h[x] <= b
  BY <1>2, <1>6
<1>. QED  BY <1>7

\* The size of a container: all the keys of an array are below it.
LEMMA SizeIs ==
  ASSUME NEW m, NEW tr, WellFormed(m, tr), NEW path \in DOMAIN tr
  PROVE  /\ Size(tr, path) \in Nat
         /\ tr[path].value = Array =>
              \A q \in Children(tr, path):
                \E i \in 0..Size(tr, path) - 1: q[Len(q)] = Index(i) /\ q = Append(path, Index(i))
         /\ tr[path].value = Object => Size(tr, path) = Cardinality(Children(tr, path))
<1>1. /\ DOMAIN tr \subseteq Seq(KeySet) /\ IsFiniteSet(DOMAIN tr) /\ path \in Seq(KeySet)
      /\ \A p \in DOMAIN tr: p # <<>> => Fits(tr[Front(p)].value, p[Len(p)])
      /\ Storable(tr[path].value)
  BY FormedFacts
<1>. DEFINE kids == Children(tr, path)
<1>2. IsFiniteSet(kids)
  <2>1. kids \in SUBSET DOMAIN tr
    BY DEF Children, Below
  <2>. HIDE DEF kids
  <2>. QED  BY <1>1, <2>1, FS_Subset
<1>3. Array.type = "array" /\ Object.type = "object"
  BY DEF Array, Object
<1>4. CASE tr[path].value = Array
  <2>1. Size(tr, path) = Max({0} \cup {Last(p).index + 1: p \in kids})
    BY <1>3, <1>4 DEF Size, Is
  <2>2. ASSUME NEW q \in kids
        PROVE  /\ Last(q) = q[Len(q)] /\ Last(q).index \in Nat /\ Last(q) = Index(Last(q).index)
               /\ q = Append(path, Last(q))
    <3>1. q \in DOMAIN tr /\ q # <<>> /\ Front(q) = path
      BY <1>1, ChildrenAre
    <3>2. Fits(Array, q[Len(q)])
      BY <1>1, <1>4, <3>1
    <3>3. PICK i \in Nat: q[Len(q)] = Index(i)
      BY <3>2 DEF Fits, Array, Object
    <3>4. q \in Seq(KeySet)
      BY <1>1, <3>1
    <3>5. q = Append(Front(q), q[Len(q)])
      BY <3>1, <3>4, FrontFacts
    <3>. QED  BY <3>1, <3>3, <3>5 DEF Last, Index
  <2>. DEFINE h == [p \in kids |-> Last(p).index + 1]
              W == {0} \cup {Last(p).index + 1: p \in kids}
  <2>3. h \in [kids -> Nat]
    BY <2>2
  <2>4. PICK b \in Nat: \A q \in kids: h[q] <= b
    <3>. HIDE DEF kids, h
    <3>. QED  BY <1>2, <2>3, FiniteBound
  <2>5. W \in SUBSET (0..b) /\ 0 \in W
    BY <2>2, <2>4
  <2>6. PICK top \in W: \A x \in W: x <= top
    <3>. HIDE DEF W
    <3>. QED  BY <2>5, GreatestNumber, Zenon
  <2>7. Max(W) \in W /\ \A x \in W: Max(W) >= x
    <3>. DEFINE mx == Max(W)
    <3>1. top \in W /\ \A x \in W: top >= x
      BY <2>5, <2>6
    <3>2. mx = CHOOSE x \in W: \A y \in W: x >= y
      BY DEF Max
    <3>. HIDE DEF W, mx
    <3>3. mx \in W /\ \A x \in W: mx >= x
      BY <3>1, <3>2
    <3>. QED  BY <3>3 DEF mx
  <2>8. Size(tr, path) \in Nat
    BY <2>1, <2>5, <2>7
  <2>9. ASSUME NEW q \in kids
        PROVE  \E i \in 0..Size(tr, path) - 1: q[Len(q)] = Index(i) /\ q = Append(path, Index(i))
    <3>1. Last(q).index + 1 \in W
      OBVIOUS
    <3>2. Last(q).index + 1 <= Size(tr, path)
      BY <2>1, <2>5, <2>7, <2>8, <3>1
    <3>3. Last(q).index \in 0..Size(tr, path) - 1
      BY <2>2, <2>8, <3>2
    <3>. QED  BY <2>2, <3>3
  <2>10. tr[path].value # Object
    BY <1>3, <1>4
  <2>. QED  BY <2>8, <2>9, <2>10
<1>5. CASE tr[path].value = Object
  <2>1. Size(tr, path) = Cardinality(kids) /\ tr[path].value # Array
    BY <1>3, <1>5 DEF Size, Is
  <2>2. Cardinality(kids) \in Nat
    BY <1>2, FS_CardinalityType
  <2>. QED  BY <2>1, <2>2
<1>6. CASE tr[path].value \notin {Array, Object}
  <2>1. tr[path].value.type \notin {"array", "object"}
    BY <1>1, <1>6, ContainerIs
  <2>2. Size(tr, path) = 0
    BY <2>1 DEF Size, Is
  <2>. QED  BY <1>6, <2>2
<1>. QED  BY <1>4, <1>5, <1>6

\* The names that the functions on the stack have read.
NamesRead(fs) == \A i \in 1..Len(fs): fs[i].kind = "object" => fs[i].name \in Seq(Int)

TreeInv ==
  /\ phase \in {"parse", "edit"} => WellFormed(mode, tree)
  /\ phase = "parse" => NamesRead(frames)
  /\ mode = "strict" /\ (phase = "edit" \/ (phase = "parse" /\ pc = "done" /\ ok))
     => tree[ROOT].value \in Unpacked

LEMMA NameKey == \A text \in Seq(Int): Name(text) \in KeySet /\ "index" \notin DOMAIN Name(text)
<1>. TAKE text \in Seq(Int)
<1>1. CStr(text) \in Seq(Int \ {0})
  BY CStrIs
<1>. QED  BY <1>1 DEF Name, KeySet

LEMMA IndexKey == \A i \in Nat: Index(i) \in KeySet /\ "index" \in DOMAIN Index(i)
  BY DEF Index, KeySet

LEMMA NamesPopped ==
  ASSUME NEW N, NEW fs \in Seq(Frame(N)), fs # <<>>, NamesRead(fs)
  PROVE  NamesRead(Pop(fs))
<1>1. Len(Pop(fs)) = Len(fs) - 1 /\ \A i \in 1..Len(fs) - 1: Pop(fs)[i] = fs[i]
  BY Popped
<1>. QED  BY <1>1 DEF NamesRead

LEMMA NamesPushed ==
  ASSUME NEW N, NEW fs \in Seq(Frame(N)), NEW frame \in Frame(N), NamesRead(fs),
         frame.kind = "object" => frame.name \in Seq(Int)
  PROVE  NamesRead(Append(fs, frame))
<1>. DEFINE a == Append(fs, frame)
<1>1. /\ Len(a) = Len(fs) + 1 /\ a[Len(fs) + 1] = frame /\ \A i \in 1..Len(fs): a[i] = fs[i]
      /\ Len(fs) \in Nat
  BY AppendProperties
<1>. HIDE DEF a
<1>2. \A i \in 1..Len(a): i \in 1..Len(fs) \/ i = Len(fs) + 1
  BY <1>1
<1>3. NamesRead(a)
  BY <1>1, <1>2 DEF NamesRead
<1>. QED  BY <1>3 DEF a

\* Where the frames are after a token has begun a Value.
LEMMA ReadValueNames ==
  ASSUME NEW N, NEW fs \in Seq(Frame(N)), NamesRead(fs), NEW t, NEW path, NEW tr,
         ReadValue(t, path, tr, fs)
  PROVE  NamesRead(frames') /\ pc' # "done"
<1>1. \/ frames' = Append(fs, [kind |-> "object", name |-> <<>>]) /\ pc' = "name"
      \/ frames' = Append(fs, [kind |-> "array", index |-> 0]) /\ pc' = "first"
      \/ frames' = fs /\ pc' # "done"
  BY DEF ReadValue, Return, UnexpectedToken
<1>2. [kind |-> "object", name |-> <<>>] \in Frame(N) /\ [kind |-> "array", index |-> 0] \in Frame(N)
  BY DEF Frame
<1>3. <<>> \in Seq(Int)
  BY EmptySeq
<1>4. NamesRead(Append(fs, [kind |-> "object", name |-> <<>>]))
  BY <1>2, <1>3, NamesPushed, Zenon
<1>5. NamesRead(Append(fs, [kind |-> "array", index |-> 0]))
  BY <1>2, NamesPushed
<1>. QED  BY <1>1, <1>4, <1>5, Zenon

\* The Value that the innermost function fills is a container of its kind.
LEMMA Container ==
  ASSUME NEW N, NEW K, Position(N), Good(K, tree, node, frames, last), WellFormed(mode, tree),
         Len(frames) >= 1, Len(node) = Len(frames) - 1
  PROVE  /\ node \in DOMAIN tree /\ Top \in Frame(N)
         /\ Top.kind = "object" => tree[node].value = Object
         /\ Top.kind = "array" => tree[node].value = Array
<1>1. node \in DOMAIN tree /\ node \in Seq(K) /\ frames \in Seq(Frame(N))
  BY DEF Good, Position
<1>2. SubSeq(node, 1, Len(frames) - 1) = node
  BY <1>1, SubSeqFull
<1>3. tree[node].value.type = Top.kind
  <2>1. Len(frames) \in 1..Len(frames)
    BY <1>1
  <2>. QED  BY <1>2, <2>1, Zenon DEF Good, Top
<1>4. Storable(tree[node].value)
  BY <1>1, FormedFacts
<1>5. Top \in Frame(N)
  BY <1>1 DEF Top
<1>. QED  BY <1>1, <1>3, <1>4, <1>5, ContainerIs

\* A step of the parser.
LEMMA TreeRead ==
  ASSUME ProgramInv, NumberInv, TreeInv, phase = "parse", Next
  PROVE  /\ WellFormed(mode, tree') /\ NamesRead(frames') /\ mode' = mode
         /\ mode = "strict" /\ pc' = "done" /\ ok' => tree'[ROOT].value \in Unpacked
<1>1. WellFormed(mode, tree) /\ NamesRead(frames)
  BY DEF TreeInv
<1>2. PICK K, N: Position(N) /\ Good(K, tree, node, frames, last)
  BY DEF ProgramInv, NodesInv
<1>3. /\ given = FALSE /\ doc \in Seq(AnyToken) /\ node \in DOMAIN tree
      /\ last = NOWHERE \/ last \in DOMAIN tree
      /\ frames \in Seq(Frame(N))
  BY <1>2 DEF NumberInv, Good, Position
<1>4. mode' = mode
  BY Zenon DEF Next, Value, NameOrEnd, Colon, Comma, CommaAfterComment, First, Separator,
         Recover, Finish, Read
<1>5. \A t \in Offered: Read(t) => t \in AnyToken
  BY <1>3, ReadToken, Zenon
<1>. DEFINE Fine == /\ WellFormed(mode, tree') /\ NamesRead(frames')
                    /\ mode = "strict" /\ pc' = "done" /\ ok' => tree'[ROOT].value \in Unpacked
<1>6. ASSUME NEW t, AddComment(t, tree), UNCHANGED frames, pc' # "done" PROVE Fine
  BY <1>1, <1>3, <1>6, AddCommentFormed
<1>7. ASSUME UNCHANGED tree, pc \notin {"value", "tail", "done"}, NEW good, ReturnContainer(good) PROVE Fine
  <2>1. frames' = Pop(frames) /\ pc' # "done"
    BY <1>7 DEF ReturnContainer, Return
  <2>2. frames # <<>>
    BY <1>2, <1>7, EmptySeq DEF Position
  <2>3. NamesRead(Pop(frames))
    BY <1>1, <1>3, <2>2, NamesPopped
  <2>. QED  BY <1>1, <1>7, <2>1, <2>3
<1>8. ASSUME UNCHANGED <<tree, frames>>, pc' # "done" PROVE Fine
  BY <1>1, <1>8
<1>9. ASSUME NEW t \in AnyToken, NEW path, NEW tr, WellFormed(mode, tr), path \in DOMAIN tr,
             ReadValue(t, path, tr, frames)
      PROVE  Fine
  BY <1>1, <1>3, <1>9, ReadValueFormed, ReadValueNames
<1>. SUFFICES Fine
  BY <1>4
<1>. HIDE DEF Fine
<1>10. CASE Value
  <2>1. PICK t \in Offered: Read(t) /\ (Skip(t) \/ ReadValue(t, node, tree, frames))
    BY <1>10 DEF Value
  <2>2. pc # "done"
    BY <1>10 DEF Value
  <2>. QED  BY <1>1, <1>3, <1>5, <1>6, <1>9, <2>1, <2>2 DEF Skip
<1>11. CASE NameOrEnd
  <2>1. PICK t \in Offered:
          /\ Read(t)
          /\ \/ Skip(t)
             \/ ReturnContainer(TRUE) /\ UNCHANGED tree
             \/ /\ t.type = "string" /\ DecodeString(t) # Failed
                /\ frames' = [frames EXCEPT ![Len(frames)].name = DecodeString(t).text]
                /\ pc' = "colon"
                /\ UNCHANGED tree
             \/ AddErrorAndRecover
    BY <1>11, Zenon DEF NameOrEnd
  <2>2. pc = "name"
    BY <1>11 DEF NameOrEnd
  <2>3. CASE /\ t.type = "string" /\ DecodeString(t) # Failed
             /\ frames' = [frames EXCEPT ![Len(frames)].name = DecodeString(t).text]
             /\ pc' = "colon"
             /\ UNCHANGED tree
    <3>. DEFINE text == DecodeString(t).text
    <3>1. text \in Seq(Int)
      <4>1. t.pieces \in Seq(Piece)
        BY <1>5, <2>1, <2>3, TokenIs, Zenon
      <4>2. PICK s \in Decoded: DecodeString(t) = IF s.failed \/ s.high # 0 THEN Failed
                                                  ELSE [type |-> "string", text |-> s.text]
        BY <4>1, StringIsRead
      <4>3. text = s.text
        BY <2>3, <4>2
      <4>. QED  BY <4>3 DEF Decoded
    <3>. HIDE DEF text
    <3>. DEFINE frame == [kind |-> "object", name |-> text]
                M == N \cup {text}
    <3>2. frame \in Frame(M) /\ frames \in Seq(Frame(M)) /\ Len(frames) \in 1..Len(frames)
      BY <1>2, <1>3, <2>2, MoreNames DEF Position, Frame
    <3>3. Top = [kind |-> "object", name |-> Top.name]
      <4>1. Top \in Frame(N) /\ Top.kind = "object"
        BY <1>2, <1>3, <2>2, <3>2 DEF Position, Top
      <4>. QED  BY <4>1 DEF Frame
    <3>4. frames' = [frames EXCEPT ![Len(frames)] = frame]
      <4>1. [Top EXCEPT !.name = text] = frame
        BY <3>3
      <4>. HIDE DEF frame
      <4>. QED  BY <2>3, <4>1, Zenon DEF Top, text
    <3>5. frame.kind = "object" /\ frame.name = text
      OBVIOUS
    <3>. HIDE DEF frame, M
    <3>6. /\ Len(frames') = Len(frames)
          /\ \A i \in 1..Len(frames): frames'[i] = IF i = Len(frames) THEN frame ELSE frames[i]
      BY <3>2, <3>4, ExceptSeq
    <3>7. NamesRead(frames')
      BY <1>1, <3>1, <3>5, <3>6 DEF NamesRead
    <3>. QED  BY <1>1, <2>3, <3>7 DEF Fine
  <2>. QED  BY <1>6, <1>7, <1>8, <2>1, <2>2, <2>3, Zenon DEF Skip, AddErrorAndRecover
<1>12. CASE Colon
  <2>1. pc = "colon" /\ Len(frames) >= 1 /\ Len(node) = Len(frames) - 1 /\ Top.kind = "object"
    BY <1>2, <1>12 DEF Position, Colon
  <2>2. PICK t \in Offered:
          \/ tree' = Child(tree, node, Name(Top.name)) /\ pc' = "value" /\ UNCHANGED frames
          \/ AddComment(t, tree) /\ pc' = "recover" /\ UNCHANGED frames
          \/ AddErrorAndRecover
    BY <1>12 DEF Colon
  <2>3. CASE tree' = Child(tree, node, Name(Top.name)) /\ pc' = "value" /\ UNCHANGED frames
    <3>1. node \in DOMAIN tree /\ tree[node].value = Object
      BY <1>1, <1>2, <2>1, Container
    <3>2. Top.name \in Seq(Int)
      BY <1>1, <1>3, <2>1 DEF NamesRead, Top
    <3>3. Name(Top.name) \in KeySet /\ "index" \notin DOMAIN Name(Top.name)
      BY <3>2, NameKey
    <3>4. WellFormed(mode, Child(tree, node, Name(Top.name)))
      BY <1>1, <3>1, <3>3, ChildFormed
    <3>. QED  BY <1>1, <2>3, <3>4 DEF Fine
  <2>. QED  BY <1>6, <1>8, <2>2, <2>3 DEF AddErrorAndRecover
<1>13. CASE Comma
  <2>1. PICK t \in Offered:
          \/ AddComment(t, tree) /\ pc' = "commented" /\ UNCHANGED frames
          \/ AfterMember(t)
    BY <1>13 DEF Comma
  <2>2. pc = "comma"
    BY <1>13 DEF Comma
  <2>3. \/ AddComment(t, tree) /\ pc' = "commented" /\ UNCHANGED frames
        \/ ReturnContainer(TRUE) /\ UNCHANGED tree
        \/ UNCHANGED <<tree, frames>> /\ pc' # "done"
    BY <2>1, Zenon DEF AfterMember, AddErrorAndRecover
  <2>. QED  BY <1>6, <1>7, <1>8, <2>2, <2>3, Zenon
<1>14. CASE CommaAfterComment
  <2>1. PICK t \in Offered:
          \/ Skip(t)
          \/ ReturnContainer(TRUE) /\ UNCHANGED tree
          \/ UNCHANGED <<tree, frames>> /\ pc' = "name"
    BY <1>14, Zenon DEF CommaAfterComment
  <2>2. pc = "commented"
    BY <1>14 DEF CommaAfterComment
  <2>. QED  BY <1>6, <1>7, <1>8, <2>1, <2>2, Zenon DEF Skip
<1>15. CASE First
  <2>1. pc = "first" /\ Len(frames) >= 1 /\ Len(node) = Len(frames) - 1 /\ Top.kind = "array" /\ Top.index = 0
    BY <1>2, <1>15 DEF Position, First
  <2>. DEFINE tr == Child(tree, node, Index(0))
  <2>2. WellFormed(mode, tr) /\ Append(node, Index(0)) \in DOMAIN tr
    <3>1. node \in DOMAIN tree /\ tree[node].value = Array
      BY <1>1, <1>2, <2>1, Container
    <3>2. Index(0) \in KeySet /\ "index" \in DOMAIN Index(0)
      BY IndexKey
    <3>. QED  BY <1>1, <3>1, <3>2, ChildFormed
  <2>3. Element = Append(node, Index(0))
    BY <2>1 DEF Element
  <2>4. PICK t \in Offered:
          /\ Read(t)
          /\ \/ ReturnContainer(TRUE) /\ UNCHANGED tree
             \/ AddComment(t, tr) /\ pc' = "value" /\ UNCHANGED frames
             \/ ReadValue(t, Element, tr, frames)
    BY <1>15, Zenon DEF First
  <2>. HIDE DEF tr
  <2>5. CASE AddComment(t, tr) /\ pc' = "value" /\ UNCHANGED frames
    <3>1. last = NOWHERE \/ last \in DOMAIN tr
      <4>1. Good(K \cup {Index(0)}, tree, node, frames, last)
        BY <1>2, MoreKeys, Zenon
      <4>2. Top.kind \in {"object", "array"} /\ Index(0) \in K \cup {Index(0)}
        BY <2>1
      <4>3. Good(K \cup {Index(0)}, tr, node, frames, last)
        BY <1>3, <2>1, <4>1, <4>2, ChildGood DEF tr, Top
      <4>. QED  BY <4>3 DEF Good
    <3>2. WellFormed(mode, tree')
      BY <2>2, <2>5, <3>1, AddCommentFormed
    <3>. QED  BY <1>1, <2>5, <3>2 DEF Fine
  <2>. QED  BY <1>1, <1>5, <1>7, <1>9, <2>1, <2>2, <2>3, <2>4, <2>5, Zenon
<1>16. CASE Separator
  <2>1. /\ pc = "separator" /\ Len(frames) >= 1 /\ Len(node) = Len(frames) - 1
        /\ Top.kind = "array"
    BY <1>2, <1>16 DEF Position, Separator
  <2>. DEFINE next == Index(Top.index + 1)
  <2>2. node \in DOMAIN tree /\ tree[node].value = Array /\ Top \in Frame(N)
    BY <1>1, <1>2, <2>1, Container
  <2>3. Top.index \in Nat
    BY <2>1, <2>2 DEF Frame
  <2>4. next \in KeySet /\ "index" \in DOMAIN next
    BY <2>3, IndexKey
  <2>. HIDE DEF next
  <2>5. PICK t \in Offered:
          \/ Skip(t)
          \/ ReturnContainer(TRUE) /\ UNCHANGED tree
          \/ /\ frames' = [frames EXCEPT ![Len(frames)].index = @ + 1]
             /\ tree' = Child(tree, node, next)
             /\ pc' = "value"
          \/ AddErrorAndRecover
    BY <1>16, Zenon DEF Separator, next
  <2>6. CASE /\ frames' = [frames EXCEPT ![Len(frames)].index = @ + 1]
             /\ tree' = Child(tree, node, next)
             /\ pc' = "value"
    <3>. DEFINE frame == [kind |-> "array", index |-> Top.index + 1]
    <3>1. frame \in Frame(N)
      BY <2>3 DEF Frame
    <3>2. Top = [kind |-> "array", index |-> Top.index]
      BY <2>1, <2>2 DEF Frame
    <3>3. frames' = [frames EXCEPT ![Len(frames)] = frame]
      <4>1. [Top EXCEPT !.index = @ + 1] = frame
        BY <3>2
      <4>. HIDE DEF frame
      <4>. QED  BY <2>6, <4>1, Zenon DEF Top
    <3>4. frame.kind = "array"
      OBVIOUS
    <3>. HIDE DEF frame
    <3>5. /\ Len(frames') = Len(frames)
          /\ \A i \in 1..Len(frames): frames'[i] = IF i = Len(frames) THEN frame ELSE frames[i]
      <4>1. Len(frames) \in 1..Len(frames)
        BY <1>3, <2>1
      <4>. QED  BY <1>3, <3>1, <3>3, <4>1, ExceptSeq
    <3>6. NamesRead(frames')
      BY <1>1, <3>4, <3>5 DEF NamesRead
    <3>7. WellFormed(mode, Child(tree, node, next))
      BY <1>1, <2>2, <2>4, ChildFormed
    <3>. QED  BY <2>6, <3>6, <3>7 DEF Fine
  <2>. QED  BY <1>6, <1>7, <1>8, <2>1, <2>5, <2>6, Zenon DEF Skip, AddErrorAndRecover
<1>17. CASE Recover
  <2>1. PICK t \in Offered:
          \/ Skip(t)
          \/ ReturnContainer(FALSE) /\ UNCHANGED tree
          \/ UNCHANGED <<tree, frames, pc>>
    BY <1>17, Zenon DEF Recover
  <2>2. pc = "recover"
    BY <1>17 DEF Recover
  <2>. QED  BY <1>6, <1>7, <1>8, <2>1, <2>2, Zenon DEF Skip
<1>18. CASE Finish
  <2>1. pc = "tail"
    BY <1>18 DEF Finish
  <2>2. PICK t \in Offered:
          \/ Skip(t)
          \/ LET refused == strictRoot /\ ~IsArray(tree, ROOT) /\ ~IsObject(tree, ROOT)
             IN /\ tree' = IF collect /\ before THEN With(tree, ROOT, "after") ELSE tree
                /\ ok' = (ok /\ ~refused)
                /\ UNCHANGED frames
    BY <1>18 DEF Finish
  <2>3. ROOT \in DOMAIN tree
    BY <1>1, FormedFacts DEF ROOT
  <2>4. CASE LET refused == strictRoot /\ ~IsArray(tree, ROOT) /\ ~IsObject(tree, ROOT)
             IN /\ tree' = IF collect /\ before THEN With(tree, ROOT, "after") ELSE tree
                /\ ok' = (ok /\ ~refused)
                /\ UNCHANGED frames
    <3>1. WellFormed(mode, tree')
      <4>1. CASE collect
        <5>1. mode # "strict"
          BY <4>1 DEF collect
        <5>2. WellFormed(mode, With(tree, ROOT, "after"))
          BY <1>1, <2>3, <5>1, WithFormed
        <5>. QED  BY <1>1, <2>4, <5>2
      <4>2. CASE ~collect
        BY <1>1, <2>4, <4>2
      <4>. QED  BY <4>1, <4>2
    <3>2. mode = "strict" /\ ok' => tree'[ROOT].value \in Unpacked
      <4>. SUFFICES ASSUME mode = "strict", ok' PROVE tree'[ROOT].value \in Unpacked
        OBVIOUS
      <4>1. tree' = tree /\ (IsArray(tree, ROOT) \/ IsObject(tree, ROOT))
        BY <2>4, Zenon DEF collect, strictRoot
      <4>. QED  BY <4>1 DEF IsArray, IsObject, Unpacked
    <3>. QED  BY <1>1, <2>4, <3>1, <3>2 DEF Fine
  <2>. QED  BY <1>6, <2>1, <2>2, <2>4 DEF Skip
<1>. QED  BY <1>10, <1>11, <1>12, <1>13, <1>14, <1>15, <1>16, <1>17, <1>18 DEF Next

\* An operation of the root leaves a tree, whose root is a container or null.
Sound(m, tr) == WellFormed(m, tr) /\ tr[ROOT].value \in Unpacked

\* The root while something below it is taken away.
LEMMA WithoutSound ==
  ASSUME NEW m, NEW tr, Sound(m, tr), NEW paths, \A r \in paths: r \in Seq(KeySet) /\ r # <<>>
  PROVE  Sound(m, Without(tr, paths))
<1>. DEFINE w == Without(tr, paths)
<1>1. WellFormed(m, tr) /\ tr[ROOT].value \in Unpacked
  BY DEF Sound
<1>2. WellFormed(m, w)
  BY <1>1, WithoutFormed
<1>. HIDE DEF w
<1>3. ROOT \in DOMAIN w
  BY <1>2, FormedFacts DEF ROOT
<1>4. w[ROOT] = tr[ROOT]
  BY <1>3 DEF w, Without
<1>. QED  BY <1>1, <1>2, <1>4 DEF w, Sound

LEMMA ChildrenSound ==
  ASSUME NEW m, NEW tr, Sound(m, tr), NEW gone \in SUBSET Children(tr, ROOT)
  PROVE  Sound(m, Without(tr, gone))
<1>1. DOMAIN tr \subseteq Seq(KeySet)
  BY FormedFacts DEF Sound
<1>2. \A r \in gone: r \in Seq(KeySet) /\ r # <<>>
  BY <1>1 DEF Children, Below, ROOT
<1>. QED  BY <1>2, WithoutSound

\* A new Value in the root, and what it is set to.
LEMMA RootChild ==
  ASSUME NEW m, NEW tr, WellFormed(m, tr), NEW key \in KeySet,
         tr[ROOT].value \in {Null, IF "index" \in DOMAIN key THEN Array ELSE Object}
  PROVE  /\ Sound(m, Child(tr, ROOT, key))
         /\ \A v: Storable(v) => Sound(m, Assign(Child(tr, ROOT, key), Append(ROOT, key), v))
<1>. DEFINE c == Child(tr, ROOT, key)
            child == Append(ROOT, key)
<1>1. ROOT \in DOMAIN tr
  BY FormedFacts DEF ROOT
<1>2. WellFormed(m, c) /\ child \in DOMAIN c /\ c[ROOT].value \in Unpacked
  BY <1>1, ChildFormed
<1>3. ROOT # child
  <2>1. ROOT \in Seq(KeySet) /\ Len(ROOT) = 0
    BY EmptySeq DEF ROOT
  <2>2. Len(child) = 1
    BY <2>1, AppendProperties
  <2>. QED  BY <2>1, <2>2
<1>. HIDE DEF c, child
<1>4. Nodes(c)
  BY <1>2, FormedFacts
<1>5. ASSUME NEW v, Storable(v) PROVE Sound(m, Assign(c, child, v))
  <2>. DEFINE a == Assign(c, child, v)
  <2>1. WellFormed(m, a) /\ Assigned(a, c, child, v)
    BY <1>2, <1>4, <1>5, AssignFormed, AssignIs
  <2>. HIDE DEF a
  <2>2. ROOT \in DOMAIN a
    BY <2>1, FormedFacts DEF ROOT
  <2>3. a[ROOT].value = c[ROOT].value
    BY <1>3, <2>1, <2>2 DEF Assigned
  <2>4. Sound(m, a)
    BY <1>2, <2>1, <2>3 DEF Sound
  <2>. QED  BY <2>4 DEF a
<1>6. Sound(m, c)
  BY <1>2 DEF Sound
<1>. QED  BY <1>5, <1>6 DEF c, child

LEMMA ResizeSound ==
  ASSUME NEW m, NEW tr, WellFormed(m, tr), IsArray(tr, ROOT), NEW n \in Nat
  PROVE  Sound(m, Resize(tr, ROOT, n))
<1>. DEFINE array == IF Is(tr, ROOT, "null") THEN Assign(tr, ROOT, Array) ELSE tr
            high == {p \in Children(array, ROOT): Last(p).index >= n}
<1>1. ROOT \in DOMAIN tr /\ Nodes(tr)
  BY FormedFacts DEF ROOT
<1>2. WellFormed(m, array) /\ array[ROOT].value = Array
  <2>1. CASE Is(tr, ROOT, "null")
    <3>. DEFINE a == Assign(tr, ROOT, Array)
    <3>1. Storable(Array)
      BY Zenon DEF Storable
    <3>2. WellFormed(m, a) /\ Assigned(a, tr, ROOT, Array)
      BY <1>1, <3>1, AssignFormed, AssignIs
    <3>. HIDE DEF a
    <3>3. a[ROOT].value = Array
      BY <3>2 DEF Assigned
    <3>. QED  BY <2>1, <3>2, <3>3 DEF a
  <2>2. CASE ~Is(tr, ROOT, "null")
    BY <2>2 DEF IsArray, Is, Null
  <2>. QED  BY <2>1, <2>2
<1>3. \/ Resize(tr, ROOT, n) = Clear(array, ROOT)
      \/ n # 0 /\ Resize(tr, ROOT, n) = Child(array, ROOT, Index(n - 1))
      \/ Resize(tr, ROOT, n) = Without(array, high)
  BY DEF Resize
<1>. HIDE DEF array
<1>4. high \in SUBSET Children(array, ROOT) /\ Children(array, ROOT) \in SUBSET Children(array, ROOT)
  OBVIOUS
<1>. HIDE DEF high
<1>5. Sound(m, array)
  BY <1>2 DEF Sound, Unpacked
<1>6. Sound(m, Clear(array, ROOT)) /\ Sound(m, Without(array, high))
  BY <1>4, <1>5, ChildrenSound DEF Clear
<1>7. n # 0 => Sound(m, Child(array, ROOT, Index(n - 1)))
  <2>. SUFFICES ASSUME n # 0 PROVE Sound(m, Child(array, ROOT, Index(n - 1)))
    OBVIOUS
  <2>. DEFINE key == Index(n - 1)
  <2>1. n - 1 \in Nat
    OBVIOUS
  <2>2. key \in KeySet /\ "index" \in DOMAIN key
    BY <2>1, IndexKey
  <2>. HIDE DEF key
  <2>3. array[ROOT].value \in {Null, IF "index" \in DOMAIN key THEN Array ELSE Object}
    BY <1>2, <2>2
  <2>. QED  BY <1>2, <2>2, <2>3, RootChild DEF key
<1>. QED  BY <1>3, <1>6, <1>7

LEMMA TreeEdit ==
  ASSUME TreeInv, phase = "edit", NEW allowed, NEW result, Edit(allowed, result),
         allowed => Sound(mode, result)
  PROVE  TreeInv'
<1>1. /\ mode' = mode
      /\ \/ allowed /\ tree' = result /\ phase' = "edit"
         \/ phase' = "aborted"
  BY DEF Edit, inputVars
<1>2. CASE allowed /\ tree' = result /\ phase' = "edit"
  <2>1. WellFormed(mode, tree') /\ tree'[ROOT].value \in Unpacked
    BY <1>2 DEF Sound
  <2>2. WellFormed(mode', tree')
    BY <1>1, <2>1
  <2>. QED  BY <1>2, <2>1, <2>2 DEF TreeInv
<1>3. CASE phase' = "aborted"
  BY <1>3 DEF TreeInv
<1>. QED  BY <1>1, <1>2, <1>3

LEMMA TreeStep == ProgramInv /\ NumberInv /\ TreeInv /\ [JsonNext]_allVars => TreeInv'
<1>. SUFFICES ASSUME ProgramInv, NumberInv, TreeInv, [JsonNext]_allVars PROVE TreeInv'
  OBVIOUS
<1>1. CASE Parse
  <2>1. phase \in {"parse", "reparse"} /\ phase' = phase /\ Next
    BY <1>1 DEF Parse, programVars
  <2>2. CASE phase = "parse"
    <3>1. /\ WellFormed(mode, tree') /\ NamesRead(frames') /\ mode' = mode
          /\ mode = "strict" /\ pc' = "done" /\ ok' => tree'[ROOT].value \in Unpacked
      BY <2>1, <2>2, TreeRead
    <3>2. WellFormed(mode', tree')
      BY <3>1
    <3>. QED  BY <2>1, <2>2, <3>1, <3>2 DEF TreeInv
  <2>3. CASE phase = "reparse"
    BY <2>1, <2>3 DEF TreeInv
  <2>. QED  BY <2>1, <2>2, <2>3
<1>2. CASE Parsed
  <2>1. phase = "parse" /\ pc = "done" /\ ok /\ phase' = "edit" /\ mode' = mode /\ tree' = tree
    BY <1>2 DEF Parsed
  <2>2. WellFormed(mode', tree')
    BY <2>1 DEF TreeInv
  <2>. QED  BY <2>1, <2>2 DEF TreeInv
<1>3. phase = "edit" => WellFormed(mode, tree) /\ ROOT \in DOMAIN tree
  <2>1. phase = "edit" => WellFormed(mode, tree)
    BY DEF TreeInv
  <2>. QED  BY <2>1, FormedFacts DEF ROOT
<1>4. Keys \subseteq Seq(Int) /\ Sizes \subseteq Nat
  <2>1. 1..255 \subseteq Int
    BY SMT
  <2>2. Seq(1..255) \subseteq Seq(Int)
    BY <2>1, SeqMonotonic, ZenonT(60)
  <2>3. Keys \subseteq Seq(1..255) /\ Sizes \subseteq Nat
    BY ProgramAssumption, Zenon
  <2>. QED  BY <2>2, <2>3, Zenon
<1>5. CASE SetMember
  <2>1. PICK k \in Keys, v \in NewValues:
          Edit(IsObject(tree, ROOT), Assign(Child(tree, ROOT, Name(k)), <<Name(k)>>, v))
    BY <1>5 DEF SetMember
  <2>2. phase = "edit"
    BY <2>1 DEF Edit
  <2>. DEFINE key == Name(k)
  <2>3. key \in KeySet /\ "index" \notin DOMAIN key
    BY <1>4, NameKey
  <2>4. Storable(v)
    BY NewStorable
  <2>. HIDE DEF key
  <2>5. Append(ROOT, key) = <<key>>
    BY DEF ROOT
  <2>6. IsObject(tree, ROOT) => Sound(mode, Assign(Child(tree, ROOT, key), <<key>>, v))
    <3>. SUFFICES ASSUME IsObject(tree, ROOT)
                  PROVE  Sound(mode, Assign(Child(tree, ROOT, key), Append(ROOT, key), v))
      BY <2>5
    <3>1. tree[ROOT].value \in {Null, IF "index" \in DOMAIN key THEN Array ELSE Object}
      BY <2>3 DEF IsObject
    <3>. QED  BY <1>3, <2>2, <2>3, <2>4, <3>1, RootChild
  <2>. QED  BY <2>1, <2>2, <2>6, TreeEdit DEF key
<1>6. CASE RemoveKey
  <2>1. PICK k \in Keys: Edit(IsObject(tree, ROOT), RemoveMember(tree, ROOT, Name(k)))
    BY <1>6 DEF RemoveKey
  <2>2. phase = "edit"
    BY <2>1 DEF Edit
  <2>. DEFINE key == Name(k)
              path == Append(ROOT, key)
  <2>3. key \in KeySet
    BY <1>4, NameKey
  <2>. HIDE DEF key
  <2>4. path \in Seq(KeySet) /\ path # <<>>
    <3>1. ROOT \in Seq(KeySet) /\ Len(ROOT) = 0
      BY EmptySeq DEF ROOT
    <3>2. path \in Seq(KeySet) /\ Len(path) = 1
      BY <2>3, <3>1, AppendProperties
    <3>. HIDE DEF path
    <3>. QED  BY <3>2, EmptySeq, SMTT(60)
  <2>. HIDE DEF path
  <2>5. IsObject(tree, ROOT) => Sound(mode, Without(tree, {path}))
    <3>. SUFFICES ASSUME IsObject(tree, ROOT) PROVE Sound(mode, Without(tree, {path}))
      OBVIOUS
    <3>1. Sound(mode, tree)
      BY <1>3, <2>2 DEF Sound, IsObject, Unpacked
    <3>. QED  BY <2>4, <3>1, WithoutSound
  <2>6. RemoveMember(tree, ROOT, Name(k)) = Without(tree, {path})
    BY DEF RemoveMember, path, key
  <2>. QED  BY <2>1, <2>2, <2>5, <2>6, TreeEdit
<1>7. CASE AppendValue
  <2>1. PICK v \in NewValues: Edit(IsArray(tree, ROOT), AppendTo(tree, ROOT, v))
    BY <1>7 DEF AppendValue
  <2>2. phase = "edit"
    BY <2>1 DEF Edit
  <2>. DEFINE size == Size(tree, ROOT)
              key == Index(size)
  <2>3. size \in Nat
    BY <1>3, <2>2, SizeIs
  <2>. HIDE DEF size
  <2>4. key \in KeySet /\ "index" \in DOMAIN key
    BY <2>3, IndexKey
  <2>. HIDE DEF key
  <2>5. Storable(v)
    BY NewStorable
  <2>6. IsArray(tree, ROOT) => Sound(mode, Assign(Child(tree, ROOT, key), Append(ROOT, key), v))
    <3>. SUFFICES ASSUME IsArray(tree, ROOT)
                  PROVE  Sound(mode, Assign(Child(tree, ROOT, key), Append(ROOT, key), v))
      OBVIOUS
    <3>1. tree[ROOT].value \in {Null, IF "index" \in DOMAIN key THEN Array ELSE Object}
      BY <2>4 DEF IsArray
    <3>. QED  BY <1>3, <2>2, <2>4, <2>5, <3>1, RootChild
  <2>7. AppendTo(tree, ROOT, v) = Assign(Child(tree, ROOT, key), Append(ROOT, key), v)
    BY DEF AppendTo, key, size
  <2>. QED  BY <2>1, <2>2, <2>6, <2>7, TreeEdit
<1>8. CASE ResizeRoot
  <2>1. PICK n \in Sizes:
          Edit(IsArray(tree, ROOT) /\ ResizeAsserts(tree, ROOT, n), Resize(tree, ROOT, n))
    BY <1>8 DEF ResizeRoot
  <2>2. phase = "edit"
    BY <2>1 DEF Edit
  <2>3. IsArray(tree, ROOT) => Sound(mode, Resize(tree, ROOT, n))
    BY <1>3, <1>4, <2>2, ResizeSound
  <2>4. IsArray(tree, ROOT) /\ ResizeAsserts(tree, ROOT, n) => Sound(mode, Resize(tree, ROOT, n))
    BY <2>3
  <2>. QED  BY <2>1, <2>2, <2>4, TreeEdit, Zenon
<1>9. CASE ClearRoot
  <2>1. Edit(IsArray(tree, ROOT) \/ IsObject(tree, ROOT), Clear(tree, ROOT)) /\ phase = "edit"
    BY <1>9 DEF ClearRoot, Edit
  <2>2. IsArray(tree, ROOT) \/ IsObject(tree, ROOT) => Sound(mode, Clear(tree, ROOT))
    <3>. SUFFICES ASSUME IsArray(tree, ROOT) \/ IsObject(tree, ROOT) PROVE Sound(mode, Clear(tree, ROOT))
      OBVIOUS
    <3>1. Sound(mode, tree)
      BY <1>3, <2>1 DEF Sound, IsArray, IsObject, Unpacked
    <3>2. Sound(mode, Without(tree, Children(tree, ROOT)))
      BY <3>1, ChildrenSound
    <3>. QED  BY <3>2 DEF Clear
  <2>. QED  BY <2>1, <2>2, TreeEdit, Zenon
<1>10. CASE Write
  <2>1. phase' = "reparse"
    BY <1>10 DEF Write
  <2>. QED  BY <2>1 DEF TreeInv
<1>11. CASE UNCHANGED allVars
  <2>1. mode' = mode /\ tree' = tree /\ frames' = frames /\ phase' = phase /\ pc' = pc /\ ok' = ok
    BY <1>11 DEF allVars, vars, programVars, inputVars
  <2>2. phase \in {"parse", "edit"} => WellFormed(mode', tree')
    BY <2>1 DEF TreeInv
  <2>3. phase = "parse" => NamesRead(frames')
    BY <2>1 DEF TreeInv
  <2>. QED  BY <2>1, <2>2, <2>3 DEF TreeInv
<1>. QED  BY <1>1, <1>2, <1>5, <1>6, <1>7, <1>8, <1>9, <1>10, <1>11 DEF JsonNext

LEMMA TreeStart == JsonInit => TreeInv
<1>. SUFFICES ASSUME JsonInit PROVE TreeInv
  OBVIOUS
<1>1. /\ tree = [p \in {<<>>} |-> Leaf(Null)] /\ frames = <<>> /\ pc = "value" /\ phase = "parse"
  BY DEF JsonInit, Init, ROOT
<1>2. DOMAIN tree = {<<>>} /\ tree[<<>>] = [value |-> Null, comments |-> {}]
  BY <1>1 DEF Leaf
<1>3. Rooted(KeySet, tree)
  <2>1. <<>> \in Seq(KeySet)
    BY EmptySeq
  <2>. QED  BY <1>2, <2>1, RootedTree, Zenon
<1>4. IsFiniteSet(DOMAIN tree)
  BY <1>2, FS_Singleton, Zenon
<1>5. Storable(Null)
  BY Zenon DEF Storable
<1>6. WellFormed(mode, tree)
  BY <1>2, <1>3, <1>4, <1>5 DEF WellFormed
<1>7. NamesRead(frames)
  BY <1>1, EmptySeq DEF NamesRead
<1>. QED  BY <1>1, <1>6, <1>7 DEF TreeInv

LEMMA TreeAlways == JsonSpec => []TreeInv
BY TreeStart, TreeStep, NumberAlways, ProgramAlways, PTL DEF JsonSpec

\* Whatever the document is, good or bad, and whatever the program does to its root:
\* there are finitely many Values, and each but the root is below a Value that is
\* alive, an array if its key is an index and an object if it is a name.  What is no
\* container has nothing below it, and strict mode keeps no comment.
THEOREM TreesAreWhole == JsonSpec => [](phase \in {"parse", "edit"} => WellFormed(mode, tree))
<1>1. TreeInv => (phase \in {"parse", "edit"} => WellFormed(mode, tree))
  BY DEF TreeInv
<1>. QED  BY <1>1, TreeAlways, PTL

-----------------------------------------------------------------------------
(* Functions by recursion on a rank, and lists with commas and comments *)

\* What F says of a place depends on places of a lower rank only.
Inductive(F, P, S, rank) ==
  \A f, g \in [P -> S]: \A p \in P:
    (\A q \in P: rank[q] < rank[p] => f[q] = g[q]) => F[f][p] = F[g][p]

HasFixedPoint(F, P, S) == \E f \in [P -> S]: F[f] = f

LEMMA FixedPoint ==
  ASSUME NEW P, NEW S, NEW s \in S, NEW N \in Nat, NEW rank \in [P -> 0..N],
         NEW F \in [[P -> S] -> [P -> S]], Inductive(F, P, S, rank)
  PROVE  HasFixedPoint(F, P, S)
<1>. DEFINE V == [P -> S]
            start == [p \in P |-> s]
            step == [n \in 1..N + 1 |-> F]
<1>1. start \in V /\ step \in [1..N + 1 -> [V -> V]] /\ N + 1 \in Nat
  OBVIOUS
<1>2. PICK run \in [0..N + 1 -> V]: Follows(run, start, N + 1, step)
  <2>. HIDE DEF V, start, step
  <2>. QED  BY <1>1, RecursionExists, Zenon
<1>3. \A n \in 1..N + 1: run[n] = F[run[n - 1]] /\ run[n - 1] \in V /\ run[n] \in V
  <2>. SUFFICES ASSUME NEW n \in 1..N + 1
                PROVE  run[n] = F[run[n - 1]] /\ run[n - 1] \in V /\ run[n] \in V
    OBVIOUS
  <2>1. n \in 0..N + 1 /\ n # 0 /\ n - 1 \in 0..N + 1 /\ step[n] = F
    OBVIOUS
  <2>. HIDE DEF step, V
  <2>. QED  BY <1>2, <2>1 DEF Follows
<1>. DEFINE X == {n \in 0..N + 1: \A p \in P: rank[p] < n => F[run[n]][p] = run[n][p]}
<1>4. 0 \in X
  <2>1. \A p \in P: ~(rank[p] < 0)
    OBVIOUS
  <2>. QED  BY <2>1
<1>5. ASSUME NEW n \in 1..N + 1, n - 1 \in X PROVE n \in X
  <2>. SUFFICES ASSUME NEW p \in P, rank[p] < n PROVE F[run[n]][p] = run[n][p]
    OBVIOUS
  <2>1. ASSUME NEW q \in P, rank[q] < rank[p] PROVE run[n][q] = run[n - 1][q]
    <3>1. rank[q] \in 0..N /\ rank[p] \in 0..N
      OBVIOUS
    <3>2. rank[q] < n - 1
      BY <2>1, <3>1
    <3>3. F[run[n - 1]][q] = run[n - 1][q]
      BY <1>5, <3>2
    <3>. QED  BY <1>3, <3>3, Zenon
  <2>2. run[n] \in V /\ run[n - 1] \in V
    BY <1>3
  <2>3. F[run[n]][p] = F[run[n - 1]][p]
    BY <2>1, <2>2, Zenon DEF Inductive
  <2>. QED  BY <1>3, <2>3, Zenon
<1>6. 0..N + 1 \subseteq X
  <2>. HIDE DEF X
  <2>. QED  BY <1>1, <1>4, <1>5, Induction, Zenon
<1>7. N + 1 \in X /\ N + 1 \in 1..N + 1
  <2>1. N + 1 \in 0..N + 1 /\ N + 1 \in 1..N + 1
    OBVIOUS
  <2>. HIDE DEF X
  <2>. QED  BY <1>6, <2>1
<1>. DEFINE f == run[N + 1]
<1>8. f \in V
  BY <1>3, <1>7
<1>9. \A p \in P: F[f][p] = f[p]
  <2>1. \A p \in P: rank[p] < N + 1
    <3>1. \A p \in P: rank[p] \in 0..N
      OBVIOUS
    <3>. QED  BY <3>1
  <2>. QED  BY <1>7, <2>1
<1>. HIDE DEF f
<1>10. F[f] \in V
  BY <1>8
<1>11. F[f] = f
  BY <1>8, <1>9, <1>10
<1>. QED  BY <1>8, <1>11 DEF HasFixedPoint

\* The parts from each one on.
LEMMA FlattenTable ==
  ASSUME NEW A, NEW parts \in Seq(Seq(A))
  PROVE  \E rest \in [0..Len(parts) -> Seq(A)]:
           /\ rest[Len(parts)] = <<>>
           /\ \A i \in 1..Len(parts): rest[i - 1] = parts[i] \o rest[i]
           /\ rest[0] = FlattenSeq(parts)
<1>. DEFINE S == Seq(A)
            n == Len(parts)
            front == [i \in 1..n |-> [t \in S |-> IF i = 1 THEN parts[i] ELSE t \o parts[i]]]
            back == [i \in 1..n |-> [t \in S |-> parts[n - i + 1] \o t]]
<1>1. n \in Nat /\ <<>> \in S /\ \A i \in 1..n: parts[i] \in S /\ parts[n - i + 1] \in S
  <2>1. <<>> \in S
    BY EmptySeq
  <2>2. \A i \in 1..n: n - i + 1 \in 1..n
    OBVIOUS
  <2>. QED  BY <2>1, <2>2
<1>2. \A a, b \in S: a \o b \in S
  BY ConcatProperties
<1>. HIDE DEF S
<1>3. front \in [1..n -> [S -> S]] /\ back \in [1..n -> [S -> S]]
  BY <1>1, <1>2, Zenon
<1>. HIDE DEF n
<1>4. PICK f \in [0..n -> S]: Follows(f, <<>>, n, front)
  <2>. HIDE DEF front
  <2>. QED  BY <1>1, <1>3, RecursionExists, Zenon
<1>5. PICK g \in [0..n -> S]: Follows(g, <<>>, n, back)
  <2>. HIDE DEF back
  <2>. QED  BY <1>1, <1>3, RecursionExists, Zenon
<1>6. \A i \in 1..n: f[i] = IF i = 1 THEN parts[i] ELSE f[i - 1] \o parts[i]
  <2>. SUFFICES ASSUME NEW i \in 1..n PROVE f[i] = IF i = 1 THEN parts[i] ELSE f[i - 1] \o parts[i]
    OBVIOUS
  <2>1. i \in 0..n /\ i # 0 /\ f[i - 1] \in S
    BY <1>1
  <2>2. f[i] = front[i][f[i - 1]]
    <3>. HIDE DEF front
    <3>. QED  BY <1>4, <2>1 DEF Follows
  <2>. QED  BY <2>1, <2>2
<1>7. g[0] = <<>> /\ \A i \in 1..n: g[i] = parts[n - i + 1] \o g[i - 1]
  <2>1. g[0] = <<>>
    <3>. HIDE DEF back
    <3>. QED  BY <1>1, <1>5 DEF Follows
  <2>2. ASSUME NEW i \in 1..n PROVE g[i] = parts[n - i + 1] \o g[i - 1]
    <3>1. i \in 0..n /\ i # 0 /\ g[i - 1] \in S
      BY <1>1
    <3>2. g[i] = back[i][g[i - 1]]
      <4>. HIDE DEF back
      <4>. QED  BY <1>5, <3>1 DEF Follows
    <3>. QED  BY <3>1, <3>2, Zenon
  <2>. QED  BY <2>1, <2>2, Zenon
<1>. HIDE DEF front, back
<1>. DEFINE rest == [i \in 0..n |-> g[n - i]]
<1>8. rest \in [0..n -> S] /\ rest[n] = <<>> /\ \A i \in 1..n: rest[i - 1] = parts[i] \o rest[i]
  <2>1. rest \in [0..n -> S]
    BY <1>1
  <2>2. rest[n] = <<>>
    BY <1>1, <1>7
  <2>3. ASSUME NEW i \in 1..n PROVE rest[i - 1] = parts[i] \o rest[i]
    <3>1. n - (i - 1) \in 1..n /\ n - (n - (i - 1)) + 1 = i /\ n - (i - 1) - 1 = n - i
      BY <1>1
    <3>2. g[n - (i - 1)] = parts[i] \o g[n - i]
      BY <1>7, <3>1, Zenon
    <3>3. i \in 0..n /\ i - 1 \in 0..n
      BY <1>1
    <3>. QED  BY <3>2, <3>3, Zenon
  <2>. QED  BY <2>1, <2>2, <2>3, Zenon
<1>. HIDE DEF rest
<1>9. \A a, b, c \in S: (a \o b) \o c = a \o (b \o c)
  BY ConcatAssociative, SMTT(60) DEF S
<1>10. \A i \in 1..n: f[i] \o rest[i] = rest[0]
  <2>. DEFINE X == {i \in 0..n: i = 0 \/ f[i] \o rest[i] = rest[0]}
  <2>1. 0 \in X
    BY <1>1
  <2>2. ASSUME NEW i \in 1..n, i - 1 \in X PROVE i \in X
    <3>1. i \in 0..n /\ i - 1 \in 0..n /\ rest[i] \in S /\ parts[i] \in S /\ f[i - 1] \in S
      BY <1>1, <1>8
    <3>2. rest[i - 1] = parts[i] \o rest[i] /\ f[i] = IF i = 1 THEN parts[i] ELSE f[i - 1] \o parts[i]
      BY <1>6, <1>8, Zenon
    <3>3. i - 1 = 0 \/ f[i - 1] \o rest[i - 1] = rest[0]
      BY <2>2, Zenon
    <3>4. f[i] \o rest[i] = rest[0]
      <4>1. CASE i = 1
        <5>1. i - 1 = 0
          BY <4>1
        <5>2. rest[0] = parts[i] \o rest[i]
          BY <3>2, <5>1, Zenon
        <5>3. f[i] = parts[i]
          BY <3>2, <4>1, Zenon
        <5>. QED  BY <5>2, <5>3, Zenon
      <4>2. CASE i # 1
        <5>0. i - 1 # 0
          BY <4>2
        <5>1. f[i - 1] \o rest[i - 1] = rest[0]
          BY <3>3, <5>0, Zenon
        <5>2. f[i] = f[i - 1] \o parts[i]
          BY <3>2, <4>2, Zenon
        <5>3. (f[i - 1] \o parts[i]) \o rest[i] = f[i - 1] \o (parts[i] \o rest[i])
          BY <1>9, <3>1, Zenon
        <5>. QED  BY <3>2, <5>1, <5>2, <5>3, Zenon
      <4>. QED  BY <4>1, <4>2, Zenon
    <3>. QED  BY <3>1, <3>4, Zenon
  <2>3. 0..n \subseteq X
    <3>. HIDE DEF X
    <3>. QED  BY <1>1, <2>1, <2>2, Induction, Zenon
  <2>4. SUFFICES ASSUME NEW i \in 1..n PROVE f[i] \o rest[i] = rest[0]
    BY Zenon
  <2>5. i \in 0..n /\ i # 0
    BY <1>1
  <2>6. i \in X
    <3>. HIDE DEF X
    <3>. QED  BY <2>3, <2>5, Zenon
  <2>. QED  BY <2>5, <2>6, Zenon
<1>11. rest[0] = FlattenSeq(parts)
  <2>1. CASE n = 0
    <3>1. parts = <<>>
      BY <2>1, EmptySeq DEF n
    <3>2. FlattenSeq(parts) = parts
      BY <2>1 DEF FlattenSeq, n
    <3>. QED  BY <1>8, <2>1, <3>1, <3>2
  <2>2. CASE n # 0
    <3>. DEFINE Body(h) == [i \in 1..n |-> IF i = 1 THEN parts[i] ELSE h[i - 1] \o parts[i]]
                chosen == CHOOSE h: h = Body(h)
    <3>1. FlattenSeq(parts) = chosen[n]
      BY <2>2 DEF FlattenSeq, n
    <3>. DEFINE h0 == [i \in 1..n |-> f[i]]
    <3>2. h0 = Body(h0)
      <4>1. \A i \in 1..n: i # 1 => i - 1 \in 1..n
        BY <1>1
      <4>. QED  BY <1>6, <4>1
    <3>3. chosen = Body(chosen)
      <4>. HIDE DEF Body, h0
      <4>. QED  BY <3>2
    <3>. HIDE DEF chosen
    <3>. DEFINE X == {i \in 0..n: i = 0 \/ chosen[i] = f[i]}
    <3>4. 0 \in X
      BY <1>1
    <3>5. ASSUME NEW i \in 1..n, i - 1 \in X PROVE i \in X
      <4>1. chosen[i] = IF i = 1 THEN parts[i] ELSE chosen[i - 1] \o parts[i]
        BY <3>3, Zenon
      <4>2. i \in 0..n
        BY <1>1
      <4>3. i # 1 => chosen[i - 1] = f[i - 1]
        BY <3>5
      <4>. QED  BY <1>6, <4>1, <4>2, <4>3
    <3>6. 0..n \subseteq X
      <4>. HIDE DEF X
      <4>. QED  BY <1>1, <3>4, <3>5, Induction, Zenon
    <3>7. n \in 0..n /\ n \in 1..n
      BY <1>1, <2>2
    <3>8. chosen[n] = f[n]
      <4>1. n \in X
        <5>. HIDE DEF X
        <5>. QED  BY <3>6, <3>7
      <4>. QED  BY <2>2, <4>1
    <3>9. f[n] \o rest[n] = rest[0]
      BY <1>10, <3>7, Zenon
    <3>10. f[n] \o <<>> = f[n]
      <4>1. f[n] \in Seq(A)
        BY <3>7 DEF S
      <4>. QED  BY <4>1, ConcatEmptySeq
    <3>. QED  BY <1>8, <3>1, <3>8, <3>9, <3>10
  <2>. QED  BY <2>1, <2>2
<1>. QED
  <2>1. /\ rest \in [0..Len(parts) -> Seq(A)] /\ rest[Len(parts)] = <<>>
        /\ \A i \in 1..Len(parts): rest[i - 1] = parts[i] \o rest[i]
    BY <1>8, Zenon DEF n, S
  <2>. QED  BY <1>11, <2>1, Zenon

\* What holds where it holds at all places of a lower rank holds everywhere.
LEMMA RankInduction ==
  ASSUME NEW P, NEW N \in Nat, NEW rank \in [P -> 0..N], NEW Y,
         \A p \in P: (\A q \in P: rank[q] < rank[p] => q \in Y) => p \in Y
  PROVE  P \subseteq Y
<1>. DEFINE X == {n \in 0..N: \A p \in P: rank[p] <= n => p \in Y}
<1>0. \A p \in P: rank[p] \in 0..N
  OBVIOUS
<1>1. 0 \in X
  <2>1. ASSUME NEW p \in P, rank[p] <= 0 PROVE p \in Y
    <3>1. \A q \in P: ~(rank[q] < rank[p])
      BY <1>0, <2>1
    <3>. QED  BY <3>1
  <2>. QED  BY <2>1
<1>2. ASSUME NEW n \in 1..N, n - 1 \in X PROVE n \in X
  <2>1. ASSUME NEW p \in P, rank[p] <= n PROVE p \in Y
    <3>1. \A q \in P: rank[q] < rank[p] => rank[q] <= n - 1
      BY <1>0, <2>1
    <3>. QED  BY <1>2, <3>1
  <2>. QED  BY <2>1
<1>3. 0..N \subseteq X
  <2>. HIDE DEF X
  <2>. QED  BY <1>1, <1>2, Induction
<1>4. N \in X
  <2>1. N \in 0..N
    OBVIOUS
  <2>. HIDE DEF X
  <2>. QED  BY <1>3, <2>1
<1>. QED  BY <1>0, <1>4

\* The comments that a writer may put at one place.
Remarks(m) == IF m = "strict" THEN {<<>>} ELSE Seq({WrittenComment})

LEMMA RemarksAre ==
  ASSUME NEW m, NEW A, WrittenComment \in A
  PROVE  /\ Remarks(m) \subseteq Seq(A) /\ <<>> \in Remarks(m)
         /\ \A c, d \in Remarks(m): c \o d \in Remarks(m)
<1>1. Seq({WrittenComment}) \subseteq Seq(A)
  BY SeqMonotonic
<1>2. <<>> \in Seq({WrittenComment}) /\ <<>> \in Seq(A)
  BY EmptySeq
<1>3. \A c, d \in Seq({WrittenComment}): c \o d \in Seq({WrittenComment})
  BY ConcatProperties
<1>4. <<>> \o <<>> = <<>>
  BY ConcatEmptySeq, <1>2
<1>. QED  BY <1>1, <1>2, <1>3, <1>4, Zenon DEF Remarks

\* What is written from the comma after each of the parts on, to the end of their
\* container, or from the first of them on.
Table(m, A, parts, comma, close, after) ==
  LET n == Len(parts) IN
  /\ after \in [0..n -> Seq(A)]
  /\ n = 0 => after[0] = <<close>>
  /\ n # 0 => \E c \in Remarks(m): after[0] = c \o (parts[1] \o after[1])
  /\ n # 0 => \E c \in Remarks(m): after[n] = c \o <<close>>
  /\ \A i \in 1..n - 1: \E c \in Remarks(m):
       after[i] = <<comma>> \o (c \o (parts[i + 1] \o after[i + 1]))

\* Sequences of tokens.
LEMMA Concat ==
  ASSUME NEW A
  PROVE  /\ <<>> \in Seq(A) /\ \A t \in A: <<t>> \in Seq(A)
         /\ \A a, b \in Seq(A): a \o b \in Seq(A)
         /\ \A a \in Seq(A): <<>> \o a = a /\ a \o <<>> = a
         /\ \A a, b, c \in Seq(A): (a \o b) \o c = a \o (b \o c)
<1>1. <<>> \in Seq(A) /\ \A t \in A: <<t>> \in Seq(A)
  BY EmptySeq
<1>2. \A a, b \in Seq(A): a \o b \in Seq(A)
  BY ConcatProperties
<1>3. \A a \in Seq(A): <<>> \o a = a /\ a \o <<>> = a
  BY ConcatEmptySeq
<1>4. \A a, b, c \in Seq(A): (a \o b) \o c = a \o (b \o c)
  <2>. SUFFICES ASSUME NEW a \in Seq(A), NEW b \in Seq(A), NEW c \in Seq(A)
                PROVE  (a \o b) \o c = a \o (b \o c)
    OBVIOUS
  <2>. QED  BY ConcatAssociative
<1>. QED  BY <1>1, <1>2, <1>3, <1>4, Zenon

LEMMA ConcatFour ==
  ASSUME NEW A, NEW a \in Seq(A), NEW b \in Seq(A), NEW c \in Seq(A), NEW d \in Seq(A)
  PROVE  a \o b \o c \o d = a \o (b \o (c \o d)) /\ a \o b \o c \in Seq(A)
<1>1. a \o b \in Seq(A) /\ c \o d \in Seq(A)
  BY ConcatProperties
<1>2. \A e \in Seq(A): e \o c \o d = e \o (c \o d) /\ e \o c \in Seq(A)
  BY ConcatAssociative, ConcatProperties, SMTT(60)
<1>3. \A f \in Seq(A): a \o b \o f = a \o (b \o f)
  BY ConcatAssociative, SMTT(60)
<1>. QED  BY <1>1, <1>2, <1>3, Zenon

LEMMA ConcatFive ==
  ASSUME NEW A, NEW v \in Seq(A), NEW x \in Seq(A), NEW y \in Seq(A), NEW z \in Seq(A),
         NEW r \in Seq(A)
  PROVE  /\ v \o x \o y \o z \o r = v \o (x \o (y \o (z \o r)))
         /\ v \o x \o y \o z \in Seq(A)
<1>1. v \o x \in Seq(A) /\ z \o r \in Seq(A)
  BY ConcatProperties
<1>2. y \o (z \o r) \in Seq(A)
  BY <1>1, ConcatProperties
<1>3. \A e \in Seq(A): e \o y \o z \o r = e \o (y \o (z \o r)) /\ e \o y \o z \in Seq(A)
  BY ConcatFour, Zenon
<1>4. \A f \in Seq(A): v \o x \o f = v \o (x \o f)
  BY ConcatAssociative, SMTT(60)
<1>. QED  BY <1>1, <1>2, <1>3, <1>4, Zenon

LEMMA JoinedTable ==
  ASSUME NEW m, NEW A, WrittenComment \in A, T("arraySeparator") \in A, NEW close \in A,
         NEW parts \in Seq(Seq(A))
  PROVE  /\ Joined(parts) \in Seq(A)
         /\ \E after: /\ Table(m, A, parts, T("arraySeparator"), close, after)
                      /\ Joined(parts) \o <<close>> = after[0]
<1>. DEFINE S == Seq(A)
            n == Len(parts)
            comma == <<T("arraySeparator")>>
            inner == [i \in DOMAIN parts |-> (IF i > 1 THEN comma ELSE <<>>) \o parts[i]]
<1>1. n \in Nat /\ DOMAIN parts = 1..n /\ \A i \in 1..n: parts[i] \in S
  OBVIOUS
<1>2. comma \in S /\ <<close>> \in S /\ <<>> \in S
  BY Concat
<1>3. /\ \A a, b \in S: a \o b \in S
      /\ \A a \in S: <<>> \o a = a /\ a \o <<>> = a
      /\ \A a, b, c \in S: (a \o b) \o c = a \o (b \o c)
  BY Concat, Zenon
<1>. HIDE DEF S, comma
<1>4. inner \in Seq(S) /\ Len(inner) = n
  BY <1>1, <1>2, <1>3
<1>5. PICK rest \in [0..n -> S]:
        /\ rest[n] = <<>>
        /\ \A i \in 1..n: rest[i - 1] = inner[i] \o rest[i]
        /\ rest[0] = FlattenSeq(inner)
  <2>1. inner \in Seq(Seq(A))
    BY <1>4 DEF S
  <2>. HIDE DEF inner
  <2>. QED  BY <1>4, <2>1, FlattenTable, ZenonT(60) DEF S
<1>6. rest[0] = Joined(parts)
  BY <1>5 DEF Joined, comma
<1>7. \A i \in 1..n: inner[i] = IF i = 1 THEN <<>> \o parts[i] ELSE comma \o parts[i]
  BY <1>1, SMTT(60)
<1>. HIDE DEF inner, n
<1>. DEFINE after == [i \in 0..n |-> rest[i] \o <<close>>]
<1>8. <<>> \in Remarks(m)
  BY RemarksAre
<1>9. after \in [0..n -> S] /\ \A i \in 0..n: after[i] = rest[i] \o <<close>>
  BY <1>1, <1>2, <1>3
<1>10. \A i \in 1..n: after[i - 1] = inner[i] \o after[i]
  <2>1. ASSUME NEW i \in 1..n PROVE after[i - 1] = inner[i] \o after[i]
    <3>1. i \in 0..n /\ i - 1 \in 0..n /\ rest[i] \in S /\ inner[i] \in S
      <4>1. /\ i \in 0..n /\ i - 1 \in 0..n /\ parts[i] \in S
        BY <1>1
      <4>2. <<>> \o parts[i] \in S /\ comma \o parts[i] \in S
        BY <1>2, <1>3, <4>1
      <4>3. inner[i] \in S
        BY <1>7, <4>2
      <4>. QED  BY <4>1, <4>3
    <3>2. after[i - 1] = (inner[i] \o rest[i]) \o <<close>>
      BY <1>5, <1>9, <3>1, Zenon
    <3>. QED  BY <1>2, <1>3, <1>9, <3>1, <3>2, ZenonT(60)
  <2>. QED  BY <2>1, Zenon
<1>. HIDE DEF after
<1>11. n = 0 => after[0] = <<close>>
  BY <1>2, <1>3, <1>5, <1>9
<1>12. n # 0 => after[n] = <<>> \o <<close>>
  BY <1>1, <1>5, <1>9
<1>13. n # 0 => after[0] = <<>> \o (parts[1] \o after[1])
  <2>. SUFFICES ASSUME n # 0 PROVE after[0] = <<>> \o (parts[1] \o after[1])
    BY Zenon
  <2>1. 1 \in 1..n /\ 1 - 1 = 0 /\ parts[1] \in S /\ 1 \in 0..n
    BY <1>1
  <2>2. after[0] = (<<>> \o parts[1]) \o after[1]
    BY <1>7, <1>10, <2>1, Zenon
  <2>. QED  BY <1>2, <1>3, <1>9, <2>1, <2>2
<1>14. \A i \in 1..n - 1: after[i] = comma \o (<<>> \o (parts[i + 1] \o after[i + 1]))
  <2>1. ASSUME NEW i \in 1..n - 1
        PROVE  after[i] = comma \o (<<>> \o (parts[i + 1] \o after[i + 1]))
    <3>1. /\ i + 1 \in 1..n /\ i + 1 # 1 /\ (i + 1) - 1 = i /\ parts[i + 1] \in S
          /\ i + 1 \in 0..n
      BY <1>1
    <3>2. after[i] = (comma \o parts[i + 1]) \o after[i + 1]
      BY <1>7, <1>10, <3>1, Zenon
    <3>3. after[i + 1] \in S
      BY <1>9, <3>1, Zenon
    <3>4. after[i] = comma \o (parts[i + 1] \o after[i + 1])
      BY <1>2, <1>3, <3>1, <3>2, <3>3, Zenon
    <3>5. parts[i + 1] \o after[i + 1] \in S
      BY <1>3, <3>1, <3>3
    <3>6. <<>> \o (parts[i + 1] \o after[i + 1]) = parts[i + 1] \o after[i + 1]
      BY <1>3, <3>5
    <3>. QED  BY <3>4, <3>6
  <2>. QED  BY <2>1, Zenon
<1>15. Table(m, A, parts, T("arraySeparator"), close, after)
  BY <1>8, <1>9, <1>11, <1>12, <1>13, <1>14, Zenon DEF Table, comma, n, S
<1>16. Joined(parts) \in S /\ Joined(parts) \o <<close>> = after[0]
  <2>1. 0 \in 0..n
    BY <1>1
  <2>. QED  BY <1>5, <1>6, <1>9, <2>1, Zenon
<1>. QED  BY <1>15, <1>16, Zenon DEF S

\* The comments of the first n paths.
Remarked(m, tr, paths, n) ==
  \A i \in 1..n: CommentBefore(tr, paths[i]) \in Remarks(m) /\ CommentAfter(tr, paths[i]) \in Remarks(m)

LinesAre(m, A, tr, paths, parts, close) ==
  /\ Lines(tr, paths, parts) \in Seq(A)
  /\ \E after: /\ Table(m, A, parts, T("arraySeparator"), close, after)
               /\ Lines(tr, paths, parts) \o <<close>> = after[0]

LEMMA LinesTable ==
  ASSUME NEW m, NEW A, WrittenComment \in A, T("arraySeparator") \in A, NEW close \in A,
         NEW parts \in Seq(Seq(A)), NEW tr, NEW paths,
         Remarked(m, tr, paths, Len(parts))
  PROVE  LinesAre(m, A, tr, paths, parts, close)
<1>. DEFINE S == Seq(A)
            n == Len(parts)
            comma == <<T("arraySeparator")>>
            left(i) == CommentBefore(tr, paths[i])
            right(i) == CommentAfter(tr, paths[i])
            sep(i) == IF i < n THEN comma ELSE <<>>
            inner == [i \in DOMAIN parts |-> left(i) \o parts[i] \o sep(i) \o right(i)]
<1>1. n \in Nat /\ DOMAIN parts = 1..n /\ \A i \in 1..n: parts[i] \in S
  OBVIOUS
<1>2. comma \in S /\ <<close>> \in S /\ <<>> \in S
  BY Concat
<1>3. /\ \A a, b \in S: a \o b \in S
      /\ \A a \in S: <<>> \o a = a /\ a \o <<>> = a
      /\ \A a, b, c \in S: (a \o b) \o c = a \o (b \o c)
  BY Concat, Zenon
<1>4. \A i \in 1..n: /\ left(i) \in Remarks(m) /\ right(i) \in Remarks(m)
                     /\ left(i) \in S /\ right(i) \in S /\ sep(i) \in S
  BY <1>2, RemarksAre DEF Remarked
<1>5. \A c, d \in Remarks(m): c \o d \in Remarks(m)
  BY RemarksAre
<1>. HIDE DEF S, comma, left, right, sep
<1>6. inner \in Seq(S) /\ Len(inner) = n
  BY <1>1, <1>3, <1>4
<1>7. PICK rest \in [0..n -> S]:
        /\ rest[n] = <<>>
        /\ \A i \in 1..n: rest[i - 1] = inner[i] \o rest[i]
        /\ rest[0] = FlattenSeq(inner)
  <2>1. inner \in Seq(Seq(A))
    BY <1>6 DEF S
  <2>. HIDE DEF inner
  <2>. QED  BY <1>6, <2>1, FlattenTable, ZenonT(60) DEF S
<1>8. rest[0] = Lines(tr, paths, parts)
  BY <1>7 DEF Lines, comma, left, right, sep
<1>9. \A i \in 1..n: inner[i] = left(i) \o parts[i] \o sep(i) \o right(i)
  BY <1>1, Zenon
<1>. HIDE DEF inner
<1>10. /\ \A i \in 1..n - 1: sep(i) = comma
       /\ n # 0 => sep(n) = <<>>
  BY <1>1 DEF sep
<1>. HIDE DEF n
<1>. DEFINE to(i) == rest[i] \o <<close>>
            after == [i \in 0..n |-> IF i = 0 THEN to(0) ELSE sep(i) \o (right(i) \o to(i))]
<1>11. \A i \in 0..n: to(i) \in S
  BY <1>2, <1>3, <1>7, Zenon
<1>12. \A i \in 1..n: to(i - 1) = left(i) \o (parts[i] \o after[i])
  <2>1. ASSUME NEW i \in 1..n PROVE to(i - 1) = left(i) \o (parts[i] \o after[i])
    <3>1. i \in 0..n /\ i # 0 /\ i - 1 \in 0..n /\ rest[i] \in S /\ parts[i] \in S
      BY <1>1, <1>7
    <3>2. after[i] = sep(i) \o (right(i) \o to(i)) /\ to(i) \in S
      BY <1>11, <3>1, Zenon
    <3>. DEFINE x == parts[i] y == sep(i) z == right(i) v == left(i) r == rest[i] u == inner[i]
    <3>3. /\ rest[i - 1] = u \o r /\ u = v \o x \o y \o z
          /\ v \in S /\ x \in S /\ y \in S /\ z \in S /\ r \in S
      BY <1>4, <1>7, <1>9, <3>1, Zenon
    <3>. HIDE DEF x, y, z, v, r, u
    <3>4. /\ \A e \in S: v \o x \o y \o z \o e = v \o (x \o (y \o (z \o e)))
          /\ v \o x \o y \o z \in S
      <4>1. v \in Seq(A) /\ x \in Seq(A) /\ y \in Seq(A) /\ z \in Seq(A)
        BY <3>3 DEF S
      <4>2. /\ \A e \in Seq(A): v \o x \o y \o z \o e = v \o (x \o (y \o (z \o e)))
            /\ r \in Seq(A) => v \o x \o y \o z \in Seq(A)
        <5>1. ASSUME NEW e \in Seq(A)
              PROVE  /\ v \o x \o y \o z \o e = v \o (x \o (y \o (z \o e)))
                     /\ v \o x \o y \o z \in Seq(A)
          BY <4>1, ConcatFive, Zenon
        <5>. QED  BY <5>1, Zenon
      <4>. QED  BY <3>3, <4>2, Zenon DEF S
    <3>5. (u \o r) \o <<close>> = v \o (x \o (y \o (z \o (r \o <<close>>))))
      <4>1. r \o <<close>> \in S
        BY <1>2, <1>3, <3>3
      <4>2. \A e \in S: (e \o r) \o <<close>> = e \o (r \o <<close>>)
        <5>1. r \in Seq(A) /\ <<close>> \in Seq(A)
          BY <1>2, <3>3 DEF S
        <5>2. \A e \in Seq(A): (e \o r) \o <<close>> = e \o (r \o <<close>>)
          BY <5>1, ConcatAssociative, SMTT(60)
        <5>. QED  BY <5>2, Zenon DEF S
      <4>. QED  BY <3>3, <3>4, <4>1, <4>2, Zenon
    <3>. HIDE DEF after
    <3>. QED  BY <3>2, <3>3, <3>5, Zenon DEF x, y, z, v, r
  <2>. QED  BY <2>1, Zenon
<1>13. after \in [0..n -> S]
  <2>1. \A i \in 0..n: i # 0 => i \in 1..n
    BY <1>1
  <2>. HIDE DEF to
  <2>. QED  BY <1>1, <1>3, <1>4, <1>11, <2>1
<1>14. after[0] = to(0) /\ \A i \in 1..n: after[i] = sep(i) \o (right(i) \o to(i))
  <2>1. 0 \in 0..n /\ \A i \in 1..n: i \in 0..n /\ i # 0
    BY <1>1
  <2>. HIDE DEF to
  <2>. QED  BY <2>1
<1>15. to(n) = <<close>>
  BY <1>1, <1>2, <1>3, <1>7
<1>. HIDE DEF after, to
<1>16. n = 0 => after[0] = <<close>>
  BY <1>14, <1>15
<1>17. n # 0 => \E c \in Remarks(m): after[n] = c \o <<close>>
  <2>. SUFFICES ASSUME n # 0 PROVE \E c \in Remarks(m): after[n] = c \o <<close>>
    BY Zenon
  <2>1. n \in 1..n
    BY <1>1
  <2>2. after[n] = <<>> \o (right(n) \o <<close>>)
    BY <1>10, <1>14, <1>15, <2>1, Zenon
  <2>3. after[n] = right(n) \o <<close>>
    BY <1>2, <1>3, <1>4, <2>1, <2>2
  <2>. QED  BY <1>4, <2>1, <2>3, Zenon
<1>18. n # 0 => \E c \in Remarks(m): after[0] = c \o (parts[1] \o after[1])
  <2>. SUFFICES ASSUME n # 0 PROVE \E c \in Remarks(m): after[0] = c \o (parts[1] \o after[1])
    BY Zenon
  <2>1. 1 \in 1..n /\ 1 - 1 = 0
    BY <1>1
  <2>2. after[0] = left(1) \o (parts[1] \o after[1])
    BY <1>12, <1>14, <2>1, Zenon
  <2>. QED  BY <1>4, <2>1, <2>2, Zenon
<1>19. \A i \in 1..n - 1: \E c \in Remarks(m):
         after[i] = comma \o (c \o (parts[i + 1] \o after[i + 1]))
  <2>. SUFFICES ASSUME NEW i \in 1..n - 1
                PROVE  \E c \in Remarks(m): after[i] = comma \o (c \o (parts[i + 1] \o after[i + 1]))
    BY Zenon
  <2>1. /\ i \in 1..n /\ i + 1 \in 1..n /\ (i + 1) - 1 = i /\ i \in 0..n /\ i + 1 \in 0..n
        /\ parts[i + 1] \in S
    BY <1>1
  <2>2. after[i] = comma \o (right(i) \o to(i))
    BY <1>10, <1>14, <2>1, Zenon
  <2>3. to(i) = left(i + 1) \o (parts[i + 1] \o after[i + 1])
    BY <1>12, <2>1, Zenon
  <2>4. right(i) \o to(i) = (right(i) \o left(i + 1)) \o (parts[i + 1] \o after[i + 1])
    <3>. DEFINE a == right(i) b == left(i + 1) c == parts[i + 1] \o after[i + 1]
    <3>1. a \in S /\ b \in S /\ c \in S
      BY <1>3, <1>4, <1>13, <2>1, Zenon
    <3>. HIDE DEF a, b, c
    <3>2. (a \o b) \o c = a \o (b \o c)
      BY <1>3, <3>1, SMTT(60)
    <3>. QED  BY <2>3, <3>2, Zenon DEF a, b, c
  <2>5. right(i) \o left(i + 1) \in Remarks(m)
    BY <1>4, <1>5, <2>1
  <2>. QED  BY <2>2, <2>4, <2>5, Zenon
<1>20. Table(m, A, parts, T("arraySeparator"), close, after)
  BY <1>13, <1>16, <1>17, <1>18, <1>19, Zenon DEF Table, comma, n, S
<1>21. Lines(tr, paths, parts) \in S /\ Lines(tr, paths, parts) \o <<close>> = after[0]
  <2>1. 0 \in 0..n
    BY <1>1
  <2>. QED  BY <1>7, <1>8, <1>14, <2>1, Zenon DEF to
<1>. QED  BY <1>20, <1>21 DEF LinesAre, S

-----------------------------------------------------------------------------
(* What the writers write *)

\* The values of a document, with nothing missing above any of them.
Whole(D) ==
  /\ DOMAIN D \subseteq Seq(KeySet) /\ ROOT \in DOMAIN D
  /\ \A p \in DOMAIN D: p # <<>> => Front(p) \in DOMAIN D /\ Fits(D[Front(p)], p[Len(p)])
  /\ \A p \in DOMAIN D: Storable(D[p])

\* What is right below a place.
Kids(P, p) == {q \in P: q # <<>> /\ Front(q) = p}

LEMMA GapsAre ==
  ASSUME NEW m, NEW tr, WellFormed(m, tr), NEW q
  PROVE  q \in Gaps(tr) <=>
           /\ q \notin DOMAIN tr
           /\ \E p \in DOMAIN tr: /\ tr[p].value = Array
                                  /\ \E i \in 0..Size(tr, p) - 1: q = Append(p, Index(i))
<1>1. \A p \in DOMAIN tr: Is(tr, p, "array") <=> tr[p].value = Array
  <2>1. \A p \in DOMAIN tr: Storable(tr[p].value)
    BY FormedFacts
  <2>. SUFFICES ASSUME NEW p \in DOMAIN tr PROVE Is(tr, p, "array") <=> tr[p].value = Array
    OBVIOUS
  <2>2. tr[p].value.type = "array" => tr[p].value = Array
    BY <2>1, ContainerIs
  <2>3. Array.type = "array"
    BY DEF Array
  <2>. QED  BY <2>2, <2>3 DEF Is
<1>. QED  BY <1>1 DEF Gaps

LEMMA DenseIs ==
  ASSUME NEW m, NEW tr, WellFormed(m, tr)
  PROVE  /\ Whole(Dense(tr))
         /\ DOMAIN Dense(tr) = DOMAIN tr \cup Gaps(tr)
         /\ \A p \in DOMAIN Dense(tr):
              /\ Dense(tr)[p] = At(tr, p).value
              /\ p # <<>> => Front(p) \in DOMAIN tr
              /\ p \notin DOMAIN tr => Dense(tr)[p] = Null
              /\ m = "strict" => At(tr, p).comments = {}
<1>. DEFINE D == Dense(tr)
            P == DOMAIN tr \cup Gaps(tr)
<1>1. /\ DOMAIN tr \subseteq Seq(KeySet) /\ <<>> \in DOMAIN tr
      /\ \A p \in DOMAIN tr: p # <<>> => /\ Front(p) \in DOMAIN tr
                                         /\ Fits(tr[Front(p)].value, p[Len(p)])
      /\ \A p \in DOMAIN tr: /\ Storable(tr[p].value)
                             /\ m = "strict" => tr[p].comments = {}
  BY FormedFacts
<1>2. /\ DOMAIN D = P
      /\ \A p \in P: D[p] = IF p \in DOMAIN tr THEN tr[p].value ELSE Null
  BY DEF Dense
<1>3. ASSUME NEW q \in P, q \notin DOMAIN tr
      PROVE  /\ q \in Seq(KeySet) /\ q # <<>> /\ Front(q) \in DOMAIN tr
             /\ Fits(tr[Front(q)].value, q[Len(q)])
  <2>1. PICK p \in DOMAIN tr: tr[p].value = Array /\ \E i \in 0..Size(tr, p) - 1: q = Append(p, Index(i))
    BY <1>3, GapsAre
  <2>2. Size(tr, p) \in Nat
    BY SizeIs
  <2>3. PICK i \in 0..Size(tr, p) - 1: q = Append(p, Index(i))
    BY <2>1
  <2>4. i \in Nat
    BY <2>2
  <2>5. Index(i) \in KeySet /\ p \in Seq(KeySet)
    BY <1>1, <2>4, IndexKey
  <2>6. q \in Seq(KeySet) /\ q # <<>> /\ Front(q) = p /\ Last(q) = Index(i)
    BY <2>3, <2>5, FrontAppend
  <2>7. q[Len(q)] = Index(i)
    BY <2>6 DEF Last
  <2>8. Fits(Array, Index(i))
    BY <2>4 DEF Fits
  <2>. QED  BY <2>1, <2>6, <2>7, <2>8
<1>4. Storable(Null)
  BY DEF Storable
<1>. HIDE DEF D, P
<1>5. \A p \in P: p \in DOMAIN tr => D[p] = tr[p].value
  BY <1>2
<1>6. \A p \in DOMAIN tr: p \in P
  BY DEF P
<1>7. Whole(D)
  <2>1. ASSUME NEW p \in P, p # <<>> PROVE Front(p) \in P /\ Fits(D[Front(p)], p[Len(p)])
    <3>1. Front(p) \in DOMAIN tr /\ Fits(tr[Front(p)].value, p[Len(p)])
      BY <1>1, <1>3, <2>1
    <3>2. Front(p) \in P
      BY <1>6, <3>1
    <3>3. D[Front(p)] = tr[Front(p)].value
      BY <1>5, <3>1, <3>2
    <3>. QED  BY <3>1, <3>2, <3>3
  <2>2. ASSUME NEW p \in P PROVE Storable(D[p]) /\ p \in Seq(KeySet)
    BY <1>1, <1>2, <1>3, <1>4
  <2>. QED  BY <1>1, <1>2, <1>6, <2>1, <2>2 DEF Whole, ROOT
<1>8. ASSUME NEW p \in P
      PROVE  /\ D[p] = At(tr, p).value
             /\ p # <<>> => Front(p) \in DOMAIN tr
             /\ p \notin DOMAIN tr => D[p] = Null
             /\ m = "strict" => At(tr, p).comments = {}
  BY <1>1, <1>2, <1>3 DEF At, Leaf
<1>. QED  BY <1>2, <1>7, <1>8 DEF D, P

LEMMA KidsAre ==
  ASSUME NEW m, NEW tr, WellFormed(m, tr), NEW p \in DOMAIN Dense(tr)
  PROVE  /\ Dense(tr)[p] = Array =>
              /\ p \in DOMAIN tr
              /\ \A q: q \in Kids(DOMAIN Dense(tr), p) <=>
                         \E i \in 0..Size(tr, p) - 1: q = Append(p, Index(i))
         /\ Dense(tr)[p] = Object =>
              p \in DOMAIN tr /\ Kids(DOMAIN Dense(tr), p) = Children(tr, p)
         /\ Dense(tr)[p] \notin {Array, Object} => Kids(DOMAIN Dense(tr), p) = {}
<1>. DEFINE D == Dense(tr)
            P == DOMAIN D
<1>1. /\ DOMAIN tr \subseteq Seq(KeySet)
      /\ P = DOMAIN tr \cup Gaps(tr) /\ Whole(D)
      /\ \A x \in P: x \notin DOMAIN tr => D[x] = Null
      /\ \A x \in DOMAIN tr: D[x] = tr[x].value
  <2>1. DOMAIN tr \subseteq Seq(KeySet)
    BY FormedFacts
  <2>2. /\ DOMAIN Dense(tr) = DOMAIN tr \cup Gaps(tr) /\ Whole(Dense(tr))
        /\ \A x \in DOMAIN Dense(tr): /\ x \notin DOMAIN tr => Dense(tr)[x] = Null
                                     /\ Dense(tr)[x] = At(tr, x).value
    BY DenseIs, ZenonT(60)
  <2>. HIDE DEF D
  <2>. QED  BY <2>1, <2>2 DEF At, D
<1>2. p \in P
  OBVIOUS
<1>. HIDE DEF D, P
<1>3. Null \notin {Array, Object} /\ Array # Object
  BY DEF Null, Array, Object
<1>4. D[p] \in {Array, Object} => p \in DOMAIN tr /\ p \in Seq(KeySet)
  BY <1>1, <1>2, <1>3
<1>5. \A q: p \in Seq(KeySet) =>
        (q \in Children(tr, p) <=> q \in DOMAIN tr /\ q # <<>> /\ Front(q) = p)
  BY <1>1, ChildrenAre
<1>6. ASSUME NEW x \in DOMAIN tr, NEW i \in Nat
      PROVE  /\ Append(x, Index(i)) # <<>> /\ Front(Append(x, Index(i))) = x
  <2>1. x \in Seq(KeySet) /\ Index(i) \in KeySet
    BY <1>1, IndexKey
  <2>. QED  BY <2>1, FrontAppend
<1>7. ASSUME NEW q, q \in Gaps(tr)
      PROVE  /\ q # <<>> /\ Front(q) \in DOMAIN tr /\ tr[Front(q)].value = Array
             /\ \E i \in 0..Size(tr, Front(q)) - 1: q = Append(Front(q), Index(i))
  <2>1. PICK x \in DOMAIN tr: tr[x].value = Array /\ \E i \in 0..Size(tr, x) - 1: q = Append(x, Index(i))
    BY <1>7, GapsAre
  <2>2. PICK i \in 0..Size(tr, x) - 1: q = Append(x, Index(i))
    BY <2>1
  <2>3. Size(tr, x) \in Nat
    BY SizeIs
  <2>4. i \in Nat
    BY <2>3
  <2>5. Front(q) = x /\ q # <<>>
    BY <1>6, <2>2, <2>4
  <2>. QED  BY <2>1, <2>2, <2>5
<1>8. ASSUME D[p] = Array
      PROVE  \A q: q \in Kids(P, p) <=> \E i \in 0..Size(tr, p) - 1: q = Append(p, Index(i))
  <2>1. p \in DOMAIN tr /\ p \in Seq(KeySet) /\ tr[p].value = Array /\ Size(tr, p) \in Nat
    BY <1>1, <1>4, <1>8, SizeIs
  <2>2. ASSUME NEW q \in Kids(P, p) PROVE \E i \in 0..Size(tr, p) - 1: q = Append(p, Index(i))
    <3>1. q \in P /\ q # <<>> /\ Front(q) = p
      BY DEF Kids
    <3>2. CASE q \in DOMAIN tr
      <4>1. q \in Children(tr, p)
        BY <1>5, <2>1, <3>1, <3>2
      <4>. QED  BY <2>1, <4>1, SizeIs
    <3>3. CASE q \in Gaps(tr)
      BY <1>7, <3>1, <3>3
    <3>. QED  BY <1>1, <3>1, <3>2, <3>3
  <2>3. ASSUME NEW i \in 0..Size(tr, p) - 1 PROVE Append(p, Index(i)) \in Kids(P, p)
    <3>. DEFINE q == Append(p, Index(i))
    <3>1. q # <<>> /\ Front(q) = p
      BY <1>6, <2>1
    <3>2. q \in DOMAIN tr \cup Gaps(tr)
      <4>1. q \in Gaps(tr) <=>
           /\ q \notin DOMAIN tr
           /\ \E x \in DOMAIN tr: /\ tr[x].value = Array
                                  /\ \E j \in 0..Size(tr, x) - 1: q = Append(x, Index(j))
        <5>. HIDE DEF q
        <5>. QED  BY GapsAre
      <4>2. \E x \in DOMAIN tr: /\ tr[x].value = Array
                                /\ \E j \in 0..Size(tr, x) - 1: q = Append(x, Index(j))
        BY <2>1
      <4>. QED  BY <4>1, <4>2
    <3>. QED  BY <1>1, <3>1, <3>2 DEF Kids
  <2>. QED  BY <2>2, <2>3, Zenon
<1>9. ASSUME D[p] = Object PROVE Kids(P, p) = Children(tr, p)
  <2>1. p \in DOMAIN tr /\ p \in Seq(KeySet) /\ tr[p].value # Array
    BY <1>1, <1>3, <1>4, <1>9
  <2>2. ASSUME NEW q \in Kids(P, p) PROVE q \in Children(tr, p)
    <3>1. q \in P /\ q # <<>> /\ Front(q) = p
      BY DEF Kids
    <3>2. q \notin Gaps(tr)
      BY <1>7, <2>1, <3>1
    <3>. QED  BY <1>1, <1>5, <2>1, <3>1, <3>2
  <2>3. ASSUME NEW q \in Children(tr, p) PROVE q \in Kids(P, p)
    BY <1>1, <1>5, <2>1 DEF Kids
  <2>. QED  BY <2>2, <2>3
<1>10. ASSUME D[p] \notin {Array, Object} PROVE Kids(P, p) = {}
  <2>. SUFFICES ASSUME NEW q \in Kids(P, p) PROVE FALSE
    OBVIOUS
  <2>1. q \in P /\ q # <<>> /\ Front(q) = p
    BY DEF Kids
  <2>2. Fits(D[p], q[Len(q)])
    BY <1>1, <2>1 DEF Whole, P
  <2>. QED  BY <1>10, <2>2 DEF Fits
<1>. QED  BY <1>4, <1>8, <1>9, <1>10 DEF D, P

\* The places below a container in the order of the writers.
Listed(D, p, kids) ==
  /\ kids \in Seq(DOMAIN D)
  /\ \A i \in 1..Len(kids): kids[i] \in Kids(DOMAIN D, p)
  /\ \A q \in Kids(DOMAIN D, p): \E i \in 1..Len(kids): kids[i] = q
  /\ \A i, j \in 1..Len(kids): kids[i] = kids[j] => i = j
  /\ D[p] = Array => \A i \in 1..Len(kids): kids[i] = Append(p, Index(i - 1))

LEMMA ElementsListed ==
  ASSUME NEW m, NEW tr, WellFormed(m, tr), NEW p \in DOMAIN Dense(tr), Dense(tr)[p] = Array
  PROVE  Listed(Dense(tr), p, Elements(tr, p))
<1>. DEFINE D == Dense(tr)
            n == Size(tr, p)
            kids == Elements(tr, p)
<1>1. /\ p \in DOMAIN tr
      /\ \A q: q \in Kids(DOMAIN D, p) <=> \E i \in 0..n - 1: q = Append(p, Index(i))
  BY KidsAre
<1>2. n \in Nat
  BY <1>1, SizeIs
<1>3. Kids(DOMAIN D, p) \subseteq DOMAIN D
  BY DEF Kids
<1>4. p \in Seq(KeySet)
  BY <1>1, FormedFacts
<1>5. kids = [i \in 1..n |-> Append(p, Index(i - 1))]
  BY DEF Elements
<1>6. D[p] = Array
  OBVIOUS
<1>. HIDE DEF D, n, kids
<1>7. \A i \in 1..n: kids[i] = Append(p, Index(i - 1)) /\ kids[i] \in Kids(DOMAIN D, p)
  <2>. SUFFICES ASSUME NEW i \in 1..n
                PROVE  kids[i] = Append(p, Index(i - 1)) /\ kids[i] \in Kids(DOMAIN D, p)
    OBVIOUS
  <2>1. i - 1 \in 0..n - 1 /\ kids[i] = Append(p, Index(i - 1))
    BY <1>2, <1>5
  <2>. QED  BY <1>1, <2>1, Zenon
<1>8. kids \in Seq(DOMAIN D) /\ Len(kids) = n
  <2>1. \A i \in 1..n: kids[i] \in DOMAIN D
    BY <1>3, <1>7
  <2>2. kids \in [1..n -> DOMAIN D]
    BY <1>5, <2>1
  <2>. QED  BY <1>2, <2>2
<1>9. ASSUME NEW q \in Kids(DOMAIN D, p) PROVE \E i \in 1..n: kids[i] = q
  <2>1. PICK i \in 0..n - 1: q = Append(p, Index(i))
    BY <1>1
  <2>2. i + 1 \in 1..n /\ (i + 1) - 1 = i
    BY <1>2
  <2>. QED  BY <1>7, <2>1, <2>2
<1>10. ASSUME NEW i \in 1..n, NEW j \in 1..n, kids[i] = kids[j] PROVE i = j
  <2>1. Append(p, Index(i - 1)) = Append(p, Index(j - 1))
    BY <1>7, <1>10
  <2>2. i - 1 \in Nat /\ j - 1 \in Nat
    BY <1>2
  <2>3. Index(i - 1) \in KeySet /\ Index(j - 1) \in KeySet
    BY <2>2, IndexKey
  <2>4. Index(i - 1) = Index(j - 1)
    BY <1>4, <2>1, <2>3, FrontAppend
  <2>5. i - 1 = j - 1
    BY <2>4 DEF Index
  <2>. QED  BY <1>2, <2>5
<1>11. Listed(D, p, kids)
  BY <1>7, <1>8, <1>9, <1>10 DEF Listed
<1>. QED  BY <1>11 DEF D, kids

LEMMA MembersListed ==
  ASSUME NEW m, NEW tr, WellFormed(m, tr), NEW p \in DOMAIN Dense(tr), Dense(tr)[p] = Object
  PROVE  Listed(Dense(tr), p, Members(tr, p))
<1>. DEFINE D == Dense(tr)
            S == Children(tr, p)
            n == Cardinality(S)
            kids == Members(tr, p)
<1>1. p \in DOMAIN tr /\ Kids(DOMAIN D, p) = S
  BY KidsAre
<1>2. S \subseteq DOMAIN tr /\ IsFiniteSet(S)
  <2>1. S \subseteq DOMAIN tr
    BY DEF Children, Below
  <2>2. IsFiniteSet(DOMAIN tr)
    BY FormedFacts
  <2>. QED  BY <2>1, <2>2, FS_Subset
<1>3. Kids(DOMAIN D, p) \subseteq DOMAIN D
  BY DEF Kids
<1>4. D[p] # Array
  BY DEF Array, Object
<1>5. kids = CHOOSE f \in [1..n -> S]: IsInjective(f)
  BY DEF Members, SetToSeq
<1>. HIDE DEF D, S, kids
<1>. HIDE DEF n
<1>6. n \in Nat /\ ExistsBijection(1..n, S)
  BY <1>2, FS_CardinalityType DEF n
<1>7. \E f \in [1..n -> S]: IsInjective(f)
  BY <1>6 DEF ExistsBijection, Bijection, Injection
<1>8. kids \in [1..n -> S] /\ IsInjective(kids)
  BY <1>5, <1>7
<1>9. kids \in Injection(1..n, S)
  BY <1>8 DEF Injection
<1>10. Cardinality(1..n) = n
  <2>1. 1 \in Int /\ n \in Int /\ (1 > n => n = 0)
    BY <1>6
  <2>. QED  BY <1>6, <2>1, FS_Interval
<1>11. kids \in Surjection(1..n, S)
  BY <1>2, <1>9, <1>10, FS_Injection DEF n
<1>12. \A q \in S: \E i \in 1..n: kids[i] = q
  BY <1>11 DEF Surjection
<1>13. kids \in Seq(DOMAIN D) /\ Len(kids) = n
  <2>1. kids \in [1..n -> DOMAIN D]
    BY <1>1, <1>3, <1>8
  <2>. QED  BY <1>6, <2>1
<1>14. \A i, j \in 1..n: kids[i] = kids[j] => i = j
  BY <1>8 DEF IsInjective
<1>15. \A i \in 1..n: kids[i] \in S
  BY <1>8
<1>16. Listed(D, p, kids)
  BY <1>1, <1>4, <1>12, <1>13, <1>14, <1>15 DEF Listed
<1>. QED  BY <1>16 DEF D, kids

Begun(v) == IF v = Array THEN T("arrayBegin") ELSE T("objectBegin")
Ended(v) == IF v = Array THEN T("arrayEnd") ELSE T("objectEnd")

\* What is written before the value of a member.
Label(D, q) ==
  IF D[Front(q)] = Object THEN <<StringText(q[Len(q)].name), T("memberSeparator")>> ELSE <<>>

TokensOf(D) ==
  {T("arraySeparator"), T("memberSeparator"), T("arrayBegin"), T("arrayEnd"),
   T("objectBegin"), T("objectEnd"), WrittenComment}
  \cup {ScalarText(D[p]): p \in DOMAIN D}
  \cup {StringText(q[Len(q)].name): q \in DOMAIN D}

Parts(D, text, list) == [i \in 1..Len(list) |-> Label(D, list[i]) \o text[list[i]]]

KidsOf(tr, p) ==
  IF Dense(tr)[p] = Array THEN Elements(tr, p)
  ELSE IF Dense(tr)[p] = Object THEN Members(tr, p) ELSE <<>>

\* What a writer writes for the Value at p, when f tells it of those below.
FastBody(tr, f, p) ==
  LET value    == At(tr, p).value
      elements == Elements(tr, p)
      members  == Members(tr, p)
  IN CASE value = Array ->
            <<T("arrayBegin")>>
            \o Joined([i \in DOMAIN elements |-> f[elements[i]]])
            \o <<T("arrayEnd")>>
       [] value = Object ->
            <<T("objectBegin")>>
            \o Joined([i \in DOMAIN members |->
                         <<StringText(Last(members[i]).name), T("memberSeparator")>>
                         \o f[members[i]]])
            \o <<T("objectEnd")>>
       [] OTHER -> <<ScalarText(value)>>

StyledBody(tr, f, p) ==
  LET value    == At(tr, p).value
      elements == Elements(tr, p)
      members  == Members(tr, p)
      parts    == [i \in DOMAIN elements |-> f[elements[i]]]
  IN CASE value = Array ->
            <<T("arrayBegin")>>
            \o (IF MultiLine(tr, p) THEN Lines(tr, elements, parts) ELSE Joined(parts))
            \o <<T("arrayEnd")>>
       [] value = Object ->
            <<T("objectBegin")>>
            \o Lines(tr, members,
                     [i \in DOMAIN members |->
                        <<StringText(Last(members[i]).name), T("memberSeparator")>>
                        \o f[members[i]]])
            \o <<T("objectEnd")>>
       [] OTHER -> <<ScalarText(value)>>

Body(styled, tr, f, p) == IF styled THEN StyledBody(tr, f, p) ELSE FastBody(tr, f, p)

LEMMA TokensOfIs ==
  ASSUME NEW D
  PROVE  /\ T("arraySeparator") \in TokensOf(D) /\ WrittenComment \in TokensOf(D)
         /\ \A v: Begun(v) \in TokensOf(D) /\ Ended(v) \in TokensOf(D)
         /\ \A p \in DOMAIN D: ScalarText(D[p]) \in TokensOf(D)
         /\ \A q \in DOMAIN D: Label(D, q) \in Seq(TokensOf(D))
<1>. DEFINE A == TokensOf(D)
<1>1. /\ T("arraySeparator") \in A /\ WrittenComment \in A /\ T("memberSeparator") \in A
      /\ T("arrayBegin") \in A /\ T("arrayEnd") \in A /\ T("objectBegin") \in A
      /\ T("objectEnd") \in A
      /\ \A p \in DOMAIN D: ScalarText(D[p]) \in A
      /\ \A q \in DOMAIN D: StringText(q[Len(q)].name) \in A
  BY Zenon DEF TokensOf
<1>. HIDE DEF A
<1>2. \A q \in DOMAIN D: Label(D, q) \in Seq(A)
  <2>1. \A a, b \in A: <<a, b>> \in Seq(A)
    OBVIOUS
  <2>2. <<>> \in Seq(A)
    BY EmptySeq
  <2>. QED  BY <1>1, <2>1, <2>2, Zenon DEF Label
<1>3. \A v: Begun(v) \in A /\ Ended(v) \in A
  BY <1>1, Zenon DEF Begun, Ended
<1>. QED  BY <1>1, <1>2, <1>3 DEF A

LEMMA CommentsAre ==
  ASSUME NEW m, NEW tr, WellFormed(m, tr), NEW p \in DOMAIN Dense(tr)
  PROVE  CommentBefore(tr, p) \in Remarks(m) /\ CommentAfter(tr, p) \in Remarks(m)
<1>1. m = "strict" => At(tr, p).comments = {}
  BY DenseIs, Zenon
<1>2. <<>> \in Remarks(m) /\ \A c, d \in Remarks(m): c \o d \in Remarks(m)
  BY RemarksAre, Zenon
<1>3. m # "strict" => <<WrittenComment>> \in Remarks(m)
  <2>1. <<WrittenComment>> \in Seq({WrittenComment})
    OBVIOUS
  <2>. QED  BY <2>1 DEF Remarks
<1>4. \A place: (IF place \in At(tr, p).comments THEN <<WrittenComment>> ELSE <<>>) \in Remarks(m)
  BY <1>1, <1>2, <1>3
<1>. QED  BY <1>2, <1>4 DEF CommentBefore, CommentAfter

LEMMA KidsOfAre ==
  ASSUME NEW m, NEW tr, WellFormed(m, tr), NEW p \in DOMAIN Dense(tr)
  PROVE  /\ KidsOf(tr, p) \in Seq(DOMAIN Dense(tr))
         /\ \A i \in 1..Len(KidsOf(tr, p)): KidsOf(tr, p)[i] \in Kids(DOMAIN Dense(tr), p)
         /\ Dense(tr)[p] \in {Array, Object} => Listed(Dense(tr), p, KidsOf(tr, p))
<1>. DEFINE D == Dense(tr)
<1>1. D[p] = Array => Listed(D, p, Elements(tr, p))
  BY ElementsListed
<1>2. D[p] = Object => Listed(D, p, Members(tr, p))
  BY MembersListed
<1>. HIDE DEF D
<1>3. Array # Object
  BY DEF Array, Object
<1>4. D[p] \in {Array, Object} => Listed(D, p, KidsOf(tr, p))
  BY <1>1, <1>2, <1>3 DEF KidsOf, D
<1>5. D[p] \notin {Array, Object} => KidsOf(tr, p) = <<>>
  BY DEF KidsOf, D
<1>6. <<>> \in Seq(DOMAIN D) /\ Len(<<>>) = 0
  BY EmptySeq
<1>7. D[p] \notin {Array, Object} =>
        /\ KidsOf(tr, p) \in Seq(DOMAIN D)
        /\ \A i \in 1..Len(KidsOf(tr, p)): KidsOf(tr, p)[i] \in Kids(DOMAIN D, p)
  <2>1. <<>> \in Seq(DOMAIN D) /\ \A i \in 1..Len(<<>>): <<>>[i] \in Kids(DOMAIN D, p)
    BY <1>6
  <2>. QED  BY <1>5, <2>1, Zenon
<1>. QED  BY <1>4, <1>7 DEF Listed, D

\* What is written for a Value, out of what is written for those below it.
BodyFits(m, styled, tr, f, p) ==
  LET D == Dense(tr)
      A == TokensOf(D)
  IN /\ Body(styled, tr, f, p) \in Seq(A)
     /\ D[p] \notin {Array, Object} => Body(styled, tr, f, p) = <<ScalarText(D[p])>>
     /\ D[p] \in {Array, Object} =>
          \E after:
            /\ Table(m, A, Parts(D, f, KidsOf(tr, p)), T("arraySeparator"), Ended(D[p]), after)
            /\ Body(styled, tr, f, p) = <<Begun(D[p])>> \o after[0]

LEMMA BodyIs ==
  ASSUME NEW m, NEW tr, WellFormed(m, tr), NEW p \in DOMAIN Dense(tr), NEW styled \in BOOLEAN,
         NEW f, \A q \in Kids(DOMAIN Dense(tr), p): f[q] \in Seq(TokensOf(Dense(tr)))
  PROVE  BodyFits(m, styled, tr, f, p)
<1>. DEFINE D == Dense(tr)
            A == TokensOf(D)
            kids == KidsOf(tr, p)
            parts == Parts(D, f, kids)
            before_ == <<Begun(D[p])>>
            end == <<Ended(D[p])>>
<1>1. /\ kids \in Seq(DOMAIN D)
      /\ \A i \in 1..Len(kids): kids[i] \in Kids(DOMAIN D, p)
      /\ D[p] \in {Array, Object} => Listed(D, p, kids)
  BY KidsOfAre
<1>2. D[p] = At(tr, p).value
  BY DenseIs, ZenonT(60)
<1>3. /\ T("arraySeparator") \in A /\ WrittenComment \in A
      /\ Begun(D[p]) \in A /\ Ended(D[p]) \in A /\ ScalarText(D[p]) \in A
      /\ \A q \in DOMAIN D: Label(D, q) \in Seq(A)
  BY TokensOfIs
<1>4. \A q \in Kids(DOMAIN D, p): q \in DOMAIN D /\ Front(q) = p
  BY DEF Kids
<1>5. \A q \in DOMAIN D: CommentBefore(tr, q) \in Remarks(m) /\ CommentAfter(tr, q) \in Remarks(m)
  BY CommentsAre
<1>6. D[p] = Array => kids = Elements(tr, p)
  BY DEF KidsOf
<1>7. D[p] = Object => kids = Members(tr, p)
  BY DEF KidsOf, Array, Object
<1>8. \A q \in Kids(DOMAIN D, p): f[q] \in Seq(A)
  OBVIOUS
<1>. HIDE DEF D, A, kids
<1>9. parts \in Seq(Seq(A)) /\ Len(parts) = Len(kids)
      /\ \A i \in 1..Len(kids): parts[i] = Label(D, kids[i]) \o f[kids[i]]
  <2>1. \A i \in 1..Len(kids): Label(D, kids[i]) \o f[kids[i]] \in Seq(A)
    BY <1>1, <1>3, <1>4, <1>8, ConcatProperties
  <2>2. Len(kids) \in Nat
    BY <1>1
  <2>3. parts = [i \in 1..Len(kids) |-> Label(D, kids[i]) \o f[kids[i]]]
    BY DEF Parts
  <2>. DEFINE S == Seq(A)
  <2>4. parts \in [1..Len(kids) -> S]
    BY <2>1, <2>3
  <2>. HIDE DEF parts, S
  <2>5. parts \in Seq(S) /\ Len(parts) = Len(kids)
    BY <2>2, <2>4
  <2>. QED  BY <2>3, <2>5, Zenon DEF S
<1>10. DOMAIN kids = 1..Len(kids)
  BY <1>1
<1>11. Array # Object
  BY DEF Array, Object
<1>12. D[p] = Array => parts = [i \in DOMAIN kids |-> f[kids[i]]]
  <2>. SUFFICES ASSUME D[p] = Array PROVE parts = [i \in DOMAIN kids |-> f[kids[i]]]
    OBVIOUS
  <2>1. \A i \in 1..Len(kids): Label(D, kids[i]) = <<>>
    BY <1>1, <1>4, <1>11 DEF Label
  <2>2. \A i \in 1..Len(kids): Label(D, kids[i]) \o f[kids[i]] = f[kids[i]]
    BY <1>1, <1>8, <2>1, ConcatEmptySeq, Zenon
  <2>. QED  BY <1>10, <2>2, Zenon DEF Parts
<1>13. D[p] = Object =>
         parts = [i \in DOMAIN kids |->
                    <<StringText(Last(kids[i]).name), T("memberSeparator")>> \o f[kids[i]]]
  <2>. SUFFICES ASSUME D[p] = Object
                PROVE  parts = [i \in DOMAIN kids |->
                         <<StringText(Last(kids[i]).name), T("memberSeparator")>> \o f[kids[i]]]
    OBVIOUS
  <2>1. \A i \in 1..Len(kids):
          Label(D, kids[i]) = <<StringText(Last(kids[i]).name), T("memberSeparator")>>
    BY <1>1, <1>4 DEF Label, Last
  <2>. QED  BY <1>10, <2>1, Zenon DEF Parts
<1>. HIDE DEF parts
<1>14. PICK joined: /\ Table(m, A, parts, T("arraySeparator"), Ended(D[p]), joined)
                    /\ Joined(parts) \in Seq(A) /\ Joined(parts) \o end = joined[0]
  <2>1. /\ Joined(parts) \in Seq(A)
        /\ \E after: /\ Table(m, A, parts, T("arraySeparator"), Ended(D[p]), after)
                     /\ Joined(parts) \o <<Ended(D[p])>> = after[0]
    BY <1>3, <1>9, JoinedTable, ZenonT(60)
  <2>. QED  BY <2>1, Zenon
<1>15. PICK lines: /\ Table(m, A, parts, T("arraySeparator"), Ended(D[p]), lines)
                   /\ Lines(tr, kids, parts) \in Seq(A) /\ Lines(tr, kids, parts) \o end = lines[0]
  <2>1. Remarked(m, tr, kids, Len(parts))
    BY <1>1, <1>4, <1>5, <1>9 DEF Remarked
  <2>2. /\ Lines(tr, kids, parts) \in Seq(A)
        /\ \E after: /\ Table(m, A, parts, T("arraySeparator"), Ended(D[p]), after)
                     /\ Lines(tr, kids, parts) \o <<Ended(D[p])>> = after[0]
    <3>. DEFINE close == Ended(D[p])
    <3>1. /\ WrittenComment \in A /\ T("arraySeparator") \in A /\ close \in A
          /\ parts \in Seq(Seq(A))
      BY <1>3, <1>9
    <3>. HIDE DEF close
    <3>2. LinesAre(m, A, tr, kids, parts, close)
      BY <3>1, <2>1, LinesTable
    <3>. QED  BY <3>2, Zenon DEF LinesAre, close
  <2>. QED  BY <2>2, Zenon
<1>16. /\ before_ \in Seq(A) /\ end \in Seq(A) /\ <<ScalarText(D[p])>> \in Seq(A)
  BY <1>3
<1>17. ASSUME D[p] \notin {Array, Object} PROVE Body(styled, tr, f, p) = <<ScalarText(D[p])>>
  BY <1>2, <1>17 DEF Body, FastBody, StyledBody
<1>18. ASSUME D[p] = Array
       PROVE  \/ Body(styled, tr, f, p) = before_ \o Joined(parts) \o end
              \/ Body(styled, tr, f, p) = before_ \o Lines(tr, kids, parts) \o end
  <2>1. Begun(D[p]) = T("arrayBegin") /\ Ended(D[p]) = T("arrayEnd")
    BY <1>18 DEF Begun, Ended
  <2>2. CASE styled = FALSE
    <3>1. Body(styled, tr, f, p) = FastBody(tr, f, p)
      BY <2>2 DEF Body
    <3>. QED  BY <1>2, <1>6, <1>11, <1>12, <1>18, <2>1, <3>1, Zenon DEF FastBody
  <2>3. CASE styled = TRUE
    <3>1. Body(styled, tr, f, p) = StyledBody(tr, f, p)
      BY <2>3 DEF Body
    <3>. QED  BY <1>2, <1>6, <1>11, <1>12, <1>18, <2>1, <3>1, Zenon DEF StyledBody
  <2>. QED  BY <2>2, <2>3, Zenon
<1>19. ASSUME D[p] = Object
       PROVE  \/ Body(styled, tr, f, p) = before_ \o Joined(parts) \o end
              \/ Body(styled, tr, f, p) = before_ \o Lines(tr, kids, parts) \o end
  <2>1. Begun(D[p]) = T("objectBegin") /\ Ended(D[p]) = T("objectEnd")
    BY <1>11, <1>19 DEF Begun, Ended
  <2>2. CASE styled = FALSE
    <3>1. Body(styled, tr, f, p) = FastBody(tr, f, p)
      BY <2>2 DEF Body
    <3>. QED  BY <1>2, <1>7, <1>11, <1>13, <1>19, <2>1, <3>1, Zenon DEF FastBody
  <2>3. CASE styled = TRUE
    <3>1. Body(styled, tr, f, p) = StyledBody(tr, f, p)
      BY <2>3 DEF Body
    <3>. QED  BY <1>2, <1>7, <1>11, <1>13, <1>19, <2>1, <3>1, Zenon DEF StyledBody
  <2>. QED  BY <2>2, <2>3, Zenon
<1>. HIDE DEF before_, end
<1>20. ASSUME NEW t \in Seq(A)
       PROVE  before_ \o t \o end = before_ \o (t \o end) /\ before_ \o t \o end \in Seq(A)
  BY <1>16, ConcatAssociative, ConcatProperties, SMTT(60)
<1>21. D[p] \in {Array, Object} =>
         /\ Body(styled, tr, f, p) \in Seq(A)
         /\ \/ Body(styled, tr, f, p) = before_ \o joined[0]
            \/ Body(styled, tr, f, p) = before_ \o lines[0]
  BY <1>14, <1>15, <1>18, <1>19, <1>20, Zenon
<1>22. D[p] \notin {Array, Object} => Body(styled, tr, f, p) \in Seq(A)
  BY <1>16, <1>17, Zenon
<1>. QED
  <2>1. D[p] \in {Array, Object} =>
          \E after: /\ Table(m, A, parts, T("arraySeparator"), Ended(D[p]), after)
                    /\ Body(styled, tr, f, p) = before_ \o after[0]
    BY <1>14, <1>15, <1>21, Zenon
  <2>. QED  BY <1>17, <1>21, <1>22, <2>1 DEF BodyFits, D, A, kids, parts, before_

\* Only what is written for those right below it matters.
LEMMA BodySame ==
  ASSUME NEW m, NEW tr, WellFormed(m, tr), NEW p \in DOMAIN Dense(tr), NEW styled \in BOOLEAN,
         NEW f, NEW g, \A q \in Kids(DOMAIN Dense(tr), p): f[q] = g[q]
  PROVE  Body(styled, tr, f, p) = Body(styled, tr, g, p)
<1>. DEFINE D == Dense(tr)
            kids == KidsOf(tr, p)
<1>1. /\ kids \in Seq(DOMAIN D) /\ \A i \in 1..Len(kids): f[kids[i]] = g[kids[i]]
  BY KidsOfAre
<1>2. D[p] = At(tr, p).value
  BY DenseIs, ZenonT(60)
<1>3. D[p] = Array => kids = Elements(tr, p)
  BY DEF KidsOf
<1>4. D[p] = Object => kids = Members(tr, p)
  BY DEF KidsOf, Array, Object
<1>. HIDE DEF kids, D
<1>5. [i \in DOMAIN kids |-> f[kids[i]]] = [i \in DOMAIN kids |-> g[kids[i]]]
  BY <1>1
<1>6. [i \in DOMAIN kids |-> <<StringText(Last(kids[i]).name), T("memberSeparator")>> \o f[kids[i]]]
      = [i \in DOMAIN kids |-> <<StringText(Last(kids[i]).name), T("memberSeparator")>> \o g[kids[i]]]
  BY <1>1
<1>7. Array # Object
  BY DEF Array, Object
<1>8. FastBody(tr, f, p) = FastBody(tr, g, p)
  <2>1. CASE D[p] = Array
    BY <1>2, <1>3, <1>5, <1>7, <2>1, Zenon DEF FastBody
  <2>2. CASE D[p] = Object
    BY <1>2, <1>4, <1>6, <1>7, <2>2, Zenon DEF FastBody
  <2>3. CASE D[p] \notin {Array, Object}
    BY <1>2, <2>3 DEF FastBody
  <2>. QED  BY <2>1, <2>2, <2>3
<1>9. StyledBody(tr, f, p) = StyledBody(tr, g, p)
  <2>1. CASE D[p] = Array
    BY <1>2, <1>3, <1>5, <1>7, <2>1, Zenon DEF StyledBody
  <2>2. CASE D[p] = Object
    BY <1>2, <1>4, <1>6, <1>7, <2>2, Zenon DEF StyledBody
  <2>3. CASE D[p] \notin {Array, Object}
    BY <1>2, <2>3 DEF StyledBody
  <2>. QED  BY <2>1, <2>2, <2>3
<1>. QED  BY <1>8, <1>9 DEF Body

\* What is written for each place of the document D: what is written below it in the
\* order of the writer, with commas and comments.
Texts(m, D, kids, after, text) ==
  /\ kids \in [DOMAIN D -> Seq(DOMAIN D)]
  /\ text \in [DOMAIN D -> Seq(TokensOf(D))]
  /\ \A p \in DOMAIN D:
       IF D[p] \in {Array, Object}
       THEN /\ Listed(D, p, kids[p])
            /\ Table(m, TokensOf(D), Parts(D, text, kids[p]), T("arraySeparator"),
                     Ended(D[p]), after[p])
            /\ text[p] = <<Begun(D[p])>> \o after[p][0]
       ELSE text[p] = <<ScalarText(D[p])>>

LEMMA DenseBound ==
  ASSUME NEW m, NEW tr, WellFormed(m, tr)
  PROVE  \E N \in Nat: \A p \in DOMAIN Dense(tr): Len(p) \in 0..N
<1>. DEFINE h == [p \in DOMAIN tr |-> Len(p)]
<1>1. DOMAIN tr \subseteq Seq(KeySet) /\ IsFiniteSet(DOMAIN tr)
  BY FormedFacts
<1>2. h \in [DOMAIN tr -> Nat]
  BY <1>1
<1>3. PICK b \in Nat: \A p \in DOMAIN tr: h[p] <= b
  <2>. HIDE DEF h
  <2>. QED  BY <1>1, <1>2, FiniteBound
<1>4. \A p \in DOMAIN tr: Len(p) <= b
  BY <1>3
<1>5. /\ DOMAIN Dense(tr) \subseteq Seq(KeySet)
      /\ \A p \in DOMAIN Dense(tr): p # <<>> => Front(p) \in DOMAIN tr
  BY DenseIs, Zenon DEF Whole
<1>6. ASSUME NEW p \in DOMAIN Dense(tr) PROVE Len(p) \in 0..b + 1
  <2>1. p \in Seq(KeySet) /\ Len(p) \in Nat
    BY <1>5
  <2>2. CASE p = <<>>
    <3>1. Len(p) = 0
      BY <2>2
    <3>. QED  BY <3>1
  <2>3. CASE p # <<>>
    <3>1. Front(p) \in DOMAIN tr /\ Len(Front(p)) = Len(p) - 1
      BY <1>5, <2>1, <2>3, FrontFacts
    <3>. QED  BY <1>4, <2>1, <3>1
  <2>. QED  BY <2>2, <2>3
<1>. QED  BY <1>6

\* The depth of what is right below a place.
LEMMA KidsDeeper ==
  ASSUME NEW D, Whole(D), NEW p, NEW q \in Kids(DOMAIN D, p)
  PROVE  q \in DOMAIN D /\ Len(q) \in Nat /\ Len(p) = Len(q) - 1
<1>1. q \in DOMAIN D /\ q # <<>> /\ Front(q) = p /\ q \in Seq(KeySet)
  BY DEF Kids, Whole
<1>. QED  BY <1>1, FrontFacts

LEMMA TextExists ==
  ASSUME NEW m, NEW tr, WellFormed(m, tr), NEW styled \in BOOLEAN
  PROVE  \E f: f = [p \in DOMAIN Dense(tr) |-> Body(styled, tr, f, p)]
<1>. DEFINE D == Dense(tr)
            P == DOMAIN D
            S == Seq(TokensOf(D))
            V == [P -> S]
            F == [f \in V |-> [p \in P |-> Body(styled, tr, f, p)]]
<1>1. PICK N \in Nat: \A p \in P: Len(p) \in 0..N
  BY DenseBound
<1>. DEFINE rank == [p \in P |-> N - Len(p)]
<1>2. rank \in [P -> 0..N]
  <2>1. \A p \in P: N - Len(p) \in 0..N
    BY <1>1
  <2>. HIDE DEF P
  <2>. QED  BY <2>1
<1>3. Whole(D)
  BY DenseIs, Zenon
<1>4. <<>> \in S
  BY EmptySeq
<1>5. \A f \in V: \A p \in P: Body(styled, tr, f, p) \in S
  <2>. SUFFICES ASSUME NEW f \in V, NEW p \in P PROVE Body(styled, tr, f, p) \in S
    OBVIOUS
  <2>1. \A q \in Kids(P, p): q \in P
    BY DEF Kids
  <2>2. \A q \in Kids(P, p): f[q] \in S
    BY <2>1
  <2>3. BodyFits(m, styled, tr, f, p)
    BY <2>2, BodyIs
  <2>. QED  BY <2>3 DEF BodyFits
<1>6. \A p \in P: \A q \in Kids(P, p): q \in P /\ rank[q] < rank[p]
  <2>. SUFFICES ASSUME NEW p \in P, NEW q \in Kids(P, p) PROVE q \in P /\ rank[q] < rank[p]
    OBVIOUS
  <2>1. q \in P /\ Len(q) \in Nat /\ Len(p) = Len(q) - 1
    BY <1>3, KidsDeeper
  <2>. HIDE DEF P
  <2>. QED  BY <2>1
<1>7. \A f, g: \A p \in P:
        (\A q \in Kids(P, p): f[q] = g[q]) => Body(styled, tr, f, p) = Body(styled, tr, g, p)
  BY BodySame
<1>. HIDE DEF D, P, S, rank
<1>8. F \in [V -> V]
  BY <1>5
<1>9. \A f \in V: \A p \in P: F[f][p] = Body(styled, tr, f, p)
  OBVIOUS
<1>10. \A f, g \in V: \A p \in P:
         (\A q \in P: rank[q] < rank[p] => f[q] = g[q]) => F[f][p] = F[g][p]
  <2>. SUFFICES ASSUME NEW f \in V, NEW g \in V, NEW p \in P,
                       \A q \in P: rank[q] < rank[p] => f[q] = g[q]
                PROVE  F[f][p] = F[g][p]
    BY Zenon
  <2>1. \A q \in Kids(P, p): f[q] = g[q]
    BY <1>6
  <2>2. Body(styled, tr, f, p) = Body(styled, tr, g, p)
    BY <1>7, <2>1
  <2>. QED  BY <1>9, <2>2
<1>11. \E f \in V: F[f] = f
  <2>1. PICK G: G = F
    BY Zenon
  <2>2. G \in [[P -> S] -> [P -> S]] /\ Inductive(G, P, S, rank)
    BY <1>8, <1>10, <2>1, ZenonT(60) DEF Inductive
  <2>3. \E f \in [P -> S]: G[f] = f
    <3>. HIDE DEF F, V
    <3>1. N \in Nat
      BY <1>1
    <3>2. HasFixedPoint(G, P, S)
      BY <1>2, <1>4, <2>2, <3>1, FixedPoint, Zenon
    <3>. QED  BY <3>2 DEF HasFixedPoint
  <2>. QED  BY <2>1, <2>3, Zenon
<1>12. PICK f \in V: F[f] = f
  BY <1>11, Zenon
<1>13. f = [p \in P |-> Body(styled, tr, f, p)]
  BY <1>12
<1>. QED  BY <1>13 DEF P, D

LEMMA TextIs ==
  ASSUME NEW m, NEW tr, WellFormed(m, tr), NEW styled \in BOOLEAN,
         NEW text, text = [p \in DOMAIN Dense(tr) |-> Body(styled, tr, text, p)]
  PROVE  \E kids, after: Texts(m, Dense(tr), kids, after, text)
<1>. DEFINE D == Dense(tr)
            P == DOMAIN D
            A == TokensOf(D)
            S == Seq(A)
            Y == {p \in P: text[p] \in S}
<1>1. PICK N \in Nat: \A p \in P: Len(p) \in 0..N
  BY DenseBound
<1>. DEFINE rank == [p \in P |-> N - Len(p)]
<1>2. rank \in [P -> 0..N]
  <2>1. \A p \in P: N - Len(p) \in 0..N
    BY <1>1
  <2>. HIDE DEF P
  <2>. QED  BY <2>1
<1>3. Whole(D)
  BY DenseIs, Zenon
<1>4. \A p \in P: text[p] = Body(styled, tr, text, p)
  BY Zenon
<1>5. ASSUME NEW p \in P, \A q \in P: rank[q] < rank[p] => q \in Y PROVE p \in Y
  <2>1. ASSUME NEW q \in Kids(P, p) PROVE text[q] \in S
    <3>1. q \in P /\ Len(q) \in Nat /\ Len(p) = Len(q) - 1
      BY <1>3, KidsDeeper
    <3>2. rank[q] < rank[p]
      <4>. HIDE DEF P
      <4>. QED  BY <3>1
    <3>. HIDE DEF rank
    <3>. QED  BY <1>5, <3>1, <3>2
  <2>2. Body(styled, tr, text, p) \in S
    <3>1. BodyFits(m, styled, tr, text, p)
      BY <2>1, BodyIs
    <3>. QED  BY <3>1 DEF BodyFits
  <2>3. text[p] \in S
    BY <1>4, <2>2, Zenon
  <2>. HIDE DEF P
  <2>. QED  BY <2>3
<1>6. \A p \in P: text[p] \in S
  <2>1. P \subseteq Y
    <3>. HIDE DEF P, Y, rank
    <3>. QED  BY <1>2, <1>5, RankInduction
  <2>. QED  BY <2>1
<1>. DEFINE kids == [p \in P |-> KidsOf(tr, p)]
<1>7. \A p \in P: /\ KidsOf(tr, p) \in Seq(P)
                  /\ D[p] \in {Array, Object} => Listed(D, p, KidsOf(tr, p))
  BY KidsOfAre
<1>8. \A p \in P: \A q \in Kids(P, p): text[q] \in S
  <2>1. \A p: \A q \in Kids(P, p): q \in P
    BY DEF Kids
  <2>. QED  BY <1>6, <2>1
<1>. DEFINE Fit(p, a) ==
              /\ Table(m, A, Parts(D, text, KidsOf(tr, p)), T("arraySeparator"), Ended(D[p]), a)
              /\ text[p] = <<Begun(D[p])>> \o a[0]
<1>9. ASSUME NEW p \in P, D[p] \in {Array, Object} PROVE \E a: Fit(p, a)
  <2>1. /\ D[p] \in {Array, Object} =>
                 \E after:
                   /\ Table(m, A, Parts(D, text, KidsOf(tr, p)), T("arraySeparator"), Ended(D[p]), after)
                   /\ Body(styled, tr, text, p) = <<Begun(D[p])>> \o after[0]
    <3>1. BodyFits(m, styled, tr, text, p)
      BY <1>8, BodyIs
    <3>. QED  BY <3>1, Zenon DEF BodyFits
  <2>2. text[p] = Body(styled, tr, text, p)
    BY <1>4, Zenon
  <2>. HIDE DEF D, P, A
  <2>. QED  BY <1>9, <2>1, <2>2, Zenon
<1>10. ASSUME NEW p \in P, D[p] \notin {Array, Object} PROVE text[p] = <<ScalarText(D[p])>>
  <2>1. D[p] \notin {Array, Object} => Body(styled, tr, text, p) = <<ScalarText(D[p])>>
    <3>1. BodyFits(m, styled, tr, text, p)
      BY <1>8, BodyIs
    <3>. QED  BY <3>1, Zenon DEF BodyFits
  <2>. QED  BY <1>4, <1>10, <2>1, Zenon
<1>. HIDE DEF Fit
<1>. DEFINE after == [p \in P |-> CHOOSE a: Fit(p, a)]
<1>11. \A p \in P: D[p] \in {Array, Object} => Fit(p, after[p])
  <2>. SUFFICES ASSUME NEW p \in P, D[p] \in {Array, Object} PROVE Fit(p, after[p])
    OBVIOUS
  <2>1. after[p] = CHOOSE a: Fit(p, a)
    BY Zenon
  <2>2. \E a: Fit(p, a)
    BY <1>9
  <2>3. Fit(p, CHOOSE a: Fit(p, a))
    BY <2>2, Zenon
  <2>. QED  BY <2>1, <2>3, Zenon
<1>12. text \in [P -> S]
  <2>1. text = [p \in P |-> text[p]]
    BY <1>4
  <2>. HIDE DEF P, S
  <2>. QED  BY <1>6, <2>1
<1>. HIDE DEF after
<1>13. kids \in [P -> Seq(P)] /\ \A p \in P: kids[p] = KidsOf(tr, p)
  <2>. HIDE DEF P
  <2>. QED  BY <1>7
<1>. HIDE DEF kids
<1>14. ASSUME NEW p \in P
       PROVE  IF D[p] \in {Array, Object}
              THEN /\ Listed(D, p, kids[p])
                   /\ Table(m, A, Parts(D, text, kids[p]), T("arraySeparator"), Ended(D[p]), after[p])
                   /\ text[p] = <<Begun(D[p])>> \o after[p][0]
              ELSE text[p] = <<ScalarText(D[p])>>
  <2>1. kids[p] = KidsOf(tr, p)
    BY <1>13
  <2>2. CASE D[p] \in {Array, Object}
    <3>1. Fit(p, after[p]) /\ Listed(D, p, KidsOf(tr, p))
      BY <1>7, <1>11, <2>2
    <3>. HIDE DEF D, P, A
    <3>. QED  BY <2>1, <2>2, <3>1, Zenon DEF Fit
  <2>3. CASE D[p] \notin {Array, Object}
    BY <1>10, <2>3, Zenon
  <2>. QED  BY <2>2, <2>3
<1>15. Texts(m, D, kids, after, text)
  <2>. HIDE DEF D
  <2>. QED  BY <1>12, <1>13, <1>14, Zenon DEF Texts
<1>. QED  BY <1>15, Zenon

\* Each of the writers writes such texts.
LEMMA WriterTexts ==
  ASSUME NEW m, NEW tr, WellFormed(m, tr)
  PROVE  /\ \E kids, after, text:
              Texts(m, Dense(tr), kids, after, text) /\ FastValue(tr, ROOT) = text[ROOT]
         /\ \E kids, after, text:
              Texts(m, Dense(tr), kids, after, text) /\ StyledValue(tr, ROOT) = text[ROOT]
<1>. DEFINE P == DOMAIN tr \cup Gaps(tr)
<1>1. DOMAIN Dense(tr) = P
  BY DenseIs, Zenon
<1>2. \E kids, after, text:
        Texts(m, Dense(tr), kids, after, text) /\ FastValue(tr, ROOT) = text[ROOT]
  <2>. DEFINE text == CHOOSE text: text = [p \in P |-> FastBody(tr, text, p)]
  <2>1. FastValue(tr, ROOT) = text[ROOT]
    BY DEF FastValue, FastBody
  <2>2. PICK f: f = [p \in P |-> Body(FALSE, tr, f, p)]
    BY <1>1, TextExists, ZenonT(60)
  <2>3. \A g: [p \in P |-> Body(FALSE, tr, g, p)] = [p \in P |-> FastBody(tr, g, p)]
    BY DEF Body
  <2>4. \E g: g = [p \in P |-> FastBody(tr, g, p)]
    BY <2>2, <2>3, ZenonT(60)
  <2>5. text = [p \in P |-> FastBody(tr, text, p)]
    BY <2>4
  <2>. HIDE DEF text
  <2>6. text = [p \in P |-> Body(FALSE, tr, text, p)]
    BY <2>3, <2>5, Zenon
  <2>7. \E kids, after: Texts(m, Dense(tr), kids, after, text)
    BY <1>1, <2>6, TextIs, Zenon
  <2>. QED  BY <2>1, <2>7
<1>3. \E kids, after, text:
        Texts(m, Dense(tr), kids, after, text) /\ StyledValue(tr, ROOT) = text[ROOT]
  <2>. DEFINE text == CHOOSE text: text = [p \in P |-> StyledBody(tr, text, p)]
  <2>1. StyledValue(tr, ROOT) = text[ROOT]
    BY DEF StyledValue, StyledBody
  <2>2. PICK f: f = [p \in P |-> Body(TRUE, tr, f, p)]
    BY <1>1, TextExists, ZenonT(60)
  <2>3. \A g: [p \in P |-> Body(TRUE, tr, g, p)] = [p \in P |-> StyledBody(tr, g, p)]
    BY DEF Body
  <2>4. \E g: g = [p \in P |-> StyledBody(tr, g, p)]
    BY <2>2, <2>3, ZenonT(60)
  <2>5. text = [p \in P |-> StyledBody(tr, text, p)]
    BY <2>4
  <2>. HIDE DEF text
  <2>6. text = [p \in P |-> Body(TRUE, tr, text, p)]
    BY <2>3, <2>5, Zenon
  <2>7. \E kids, after: Texts(m, Dense(tr), kids, after, text)
    BY <1>1, <2>6, TextIs, Zenon
  <2>. QED  BY <2>1, <2>7
<1>. QED  BY <1>2, <1>3

-----------------------------------------------------------------------------
(* What they wrote, as the reader meets it *)

Spliced(c, l, t, a, e) == (c \o ((l \o t) \o a)) \o e = c \o (l \o (t \o (a \o e)))

LEMMA Splice ==
  ASSUME NEW A, NEW c \in Seq(A), NEW l \in Seq(A), NEW t \in Seq(A), NEW a \in Seq(A),
         NEW e \in Seq(A)
  PROVE  Spliced(c, l, t, a, e)
<1>1. (l \o t) \o a \in Seq(A) /\ a \o e \in Seq(A)
  BY ConcatFour, ConcatProperties
<1>6. ((l \o t) \o a) \o e = l \o (t \o (a \o e)) /\ (l \o t) \o a \in Seq(A)
  BY ConcatFour, Zenon
<1>. DEFINE x == (l \o t) \o a
<1>2. x \o e = l \o (t \o (a \o e))
  BY <1>6, Zenon
<1>5. x \in Seq(A)
  BY <1>1
<1>. HIDE DEF x
<1>3. (c \o x) \o e = c \o (x \o e)
  BY <1>5, ConcatAssociative, SMTT(60)
<1>4. (c \o x) \o e = c \o (l \o (t \o (a \o e)))
  BY <1>2, <1>3, Zenon
<1>. QED  BY <1>4, Zenon DEF Spliced, x

\* What may follow when j of the Values right below p have been read, and a comma
\* if there is one more: w.at tells which of them a Value is, w.count how many there
\* are, w.begin what is written from a Value on, w.end what is written after it.
Comes(m, D, w, p, j, s) ==
  \/ w.count[p] = 0 /\ s = <<Ended(D[p])>> \o w.end[p]
  \/ \E q \in Kids(DOMAIN D, p), c \in Remarks(m):
       w.at[q] = j + 1 /\ s = c \o (Label(D, q) \o w.begin[q])

Goes(m, D, w, p, j, s) ==
  \/ \E c \in Remarks(m): j = w.count[p] /\ s = c \o (<<Ended(D[p])>> \o w.end[p])
  \/ \E q \in Kids(DOMAIN D, p), c \in Remarks(m):
       w.at[q] = j + 1 /\ s = <<T("arraySeparator")>> \o (c \o (Label(D, q) \o w.begin[q]))

Written(m, D, w) ==
  /\ w.at \in [DOMAIN D -> Nat] /\ w.count \in [DOMAIN D -> Nat]
  /\ w.begin \in [DOMAIN D -> Seq(TokensOf(D))] /\ w.end \in [DOMAIN D -> Seq(TokensOf(D))]
  /\ w.end[ROOT] \in Remarks(m)
  /\ \A p \in DOMAIN D:
       IF D[p] \in {Array, Object}
       THEN \E s \in Seq(TokensOf(D)): w.begin[p] = <<Begun(D[p])>> \o s /\ Comes(m, D, w, p, 0, s)
       ELSE w.begin[p] = <<ScalarText(D[p])>> \o w.end[p]
  /\ \A q \in DOMAIN D:
       q # ROOT => /\ w.at[q] \in 1..w.count[Front(q)]
                   /\ Goes(m, D, w, Front(q), w.at[q], w.end[q])
                   /\ D[Front(q)] = Array => q[Len(q)] = Index(w.at[q] - 1)
  /\ \A q, r \in DOMAIN D:
       q # ROOT /\ r # ROOT /\ Front(q) = Front(r) /\ w.at[q] = w.at[r] => q = r

\* What the text of a container is made of.
PartsFit(m, D, kids, after, text, p) ==
  LET n == Len(kids[p])
      S == Seq(TokensOf(D))
  IN /\ n \in Nat /\ after[p] \in [0..n -> S]
     /\ \A i \in 1..n: kids[p][i] \in Kids(DOMAIN D, p)
     /\ n = 0 => after[p][0] = <<Ended(D[p])>>
     /\ n # 0 => \E c \in Remarks(m):
          after[p][0] = c \o ((Label(D, kids[p][1]) \o text[kids[p][1]]) \o after[p][1])
     /\ n # 0 => \E c \in Remarks(m): after[p][n] = c \o <<Ended(D[p])>>
     /\ \A i \in 1..n - 1: \E c \in Remarks(m):
          after[p][i] = <<T("arraySeparator")>>
            \o (c \o ((Label(D, kids[p][i + 1]) \o text[kids[p][i + 1]]) \o after[p][i + 1]))

LEMMA PartsAre ==
  ASSUME NEW m, NEW D, Whole(D), NEW kids, NEW after, NEW text, Texts(m, D, kids, after, text),
         NEW p \in DOMAIN D, D[p] \in {Array, Object}
  PROVE  PartsFit(m, D, kids, after, text, p)
<1>. DEFINE k == kids[p]
            n == Len(k)
            a == after[p]
            parts == Parts(D, text, k)
<1>1. /\ kids \in [DOMAIN D -> Seq(DOMAIN D)]
      /\ Listed(D, p, k)
      /\ Table(m, TokensOf(D), parts, T("arraySeparator"), Ended(D[p]), a)
  <2>1. D[p] \in {Array, Object}
    OBVIOUS
  <2>. QED  BY <2>1, Zenon DEF Texts
<1>. HIDE DEF k, a
<1>2. n \in Nat /\ \A i \in 1..n: k[i] \in Kids(DOMAIN D, p)
  <2>1. k \in Seq(DOMAIN D) /\ \A i \in 1..Len(k): k[i] \in Kids(DOMAIN D, p)
    BY <1>1 DEF Listed
  <2>. QED  BY <2>1
<1>3. Len(parts) = n /\ \A i \in 1..n: parts[i] = Label(D, k[i]) \o text[k[i]]
  <2>. DEFINE V == {Label(D, k[i]) \o text[k[i]]: i \in 1..n}
  <2>1. parts = [i \in 1..n |-> Label(D, k[i]) \o text[k[i]]]
    BY DEF Parts
  <2>. HIDE DEF n
  <2>2. parts \in [1..n -> V]
    BY <2>1, Zenon
  <2>. HIDE DEF parts, V
  <2>3. Len(parts) = n
    BY <1>2, <2>2
  <2>. QED  BY <2>1, <2>3, Zenon
<1>. HIDE DEF parts, n
<1>4. /\ a \in [0..n -> Seq(TokensOf(D))]
      /\ n = 0 => a[0] = <<Ended(D[p])>>
      /\ n # 0 => \E c \in Remarks(m): a[0] = c \o (parts[1] \o a[1])
      /\ n # 0 => \E c \in Remarks(m): a[n] = c \o <<Ended(D[p])>>
      /\ \A i \in 1..n - 1: \E c \in Remarks(m):
           a[i] = <<T("arraySeparator")>> \o (c \o (parts[i + 1] \o a[i + 1]))
  BY <1>1, <1>3, Zenon DEF Table
<1>5. n # 0 => parts[1] = Label(D, k[1]) \o text[k[1]]
  <2>1. n # 0 => 1 \in 1..n
    BY <1>2
  <2>. QED  BY <1>3, <2>1, Zenon
<1>6. \A i \in 1..n - 1: parts[i + 1] = Label(D, k[i + 1]) \o text[k[i + 1]]
  <2>1. \A i \in 1..n - 1: i + 1 \in 1..n
    BY <1>2
  <2>. QED  BY <1>3, <2>1, Zenon
<1>7. \A i \in 1..n - 1: \E c \in Remarks(m):
        a[i] = <<T("arraySeparator")>> \o (c \o ((Label(D, k[i + 1]) \o text[k[i + 1]]) \o a[i + 1]))
  <2>. SUFFICES ASSUME NEW i \in 1..n - 1
                PROVE  \E c \in Remarks(m):
                         a[i] = <<T("arraySeparator")>>
                           \o (c \o ((Label(D, k[i + 1]) \o text[k[i + 1]]) \o a[i + 1]))
    BY Zenon
  <2>1. PICK c \in Remarks(m): a[i] = <<T("arraySeparator")>> \o (c \o (parts[i + 1] \o a[i + 1]))
    BY <1>4, Zenon
  <2>2. parts[i + 1] = Label(D, k[i + 1]) \o text[k[i + 1]]
    BY <1>6, Zenon
  <2>. QED  BY <2>1, <2>2, Zenon
<1>8. n # 0 => \E c \in Remarks(m): a[0] = c \o ((Label(D, k[1]) \o text[k[1]]) \o a[1])
  <2>. SUFFICES ASSUME n # 0
                PROVE  \E c \in Remarks(m): a[0] = c \o ((Label(D, k[1]) \o text[k[1]]) \o a[1])
    BY Zenon
  <2>1. PICK c \in Remarks(m): a[0] = c \o (parts[1] \o a[1])
    BY <1>4, Zenon
  <2>. QED  BY <1>5, <2>1, Zenon
<1>. QED  BY <1>2, <1>4, <1>7, <1>8, Zenon DEF PartsFit, n, k, a

\* Which Value of its container each one is.
PlacesFit(D, kids, at) ==
  /\ \A q \in DOMAIN D:
       q # ROOT => /\ Front(q) \in DOMAIN D /\ D[Front(q)] \in {Array, Object}
                   /\ at[q] \in 1..Len(kids[Front(q)]) /\ kids[Front(q)][at[q]] = q
                   /\ D[Front(q)] = Array => q[Len(q)] = Index(at[q] - 1)
  /\ \A p \in DOMAIN D: D[p] \in {Array, Object} =>
       \A i \in 1..Len(kids[p]): at[kids[p][i]] = i

LEMMA PlacesExist ==
  ASSUME NEW m, NEW D, Whole(D), NEW kids, NEW after, NEW text, Texts(m, D, kids, after, text)
  PROVE  \E at \in [DOMAIN D -> Nat]: PlacesFit(D, kids, at)
<1>. DEFINE P == DOMAIN D
<1>1. \A q \in P: q # ROOT => Front(q) \in P /\ D[Front(q)] \in {Array, Object}
  BY DEF Whole, Fits, ROOT
<1>2. \A p \in P: D[p] \in {Array, Object} => Listed(D, p, kids[p])
  BY Zenon DEF Texts
<1>3. \A q \in P: q # ROOT => \E i \in 1..Len(kids[Front(q)]): kids[Front(q)][i] = q
  <2>. SUFFICES ASSUME NEW q \in P, q # ROOT
                PROVE  \E i \in 1..Len(kids[Front(q)]): kids[Front(q)][i] = q
    OBVIOUS
  <2>1. q \in Kids(P, Front(q))
    BY DEF Kids, ROOT
  <2>. QED  BY <1>1, <1>2, <2>1 DEF Listed
<1>. DEFINE at == [q \in P |-> IF q = ROOT THEN 0
                               ELSE CHOOSE i \in 1..Len(kids[Front(q)]): kids[Front(q)][i] = q]
<1>4. \A q \in P: q # ROOT => at[q] \in 1..Len(kids[Front(q)]) /\ kids[Front(q)][at[q]] = q
  BY <1>3
<1>5. \A q \in P: at[q] \in Nat
  <2>1. at[ROOT] = 0
    BY DEF Whole
  <2>2. \A q \in P: q # ROOT => at[q] \in Nat
    <3>. HIDE DEF at
    <3>. QED  BY <1>4
  <2>. QED  BY <2>1, <2>2, Zenon
<1>6. at \in [P -> Nat]
  BY <1>5, Zenon
<1>. HIDE DEF at
<1>7. ASSUME NEW q \in P, q # ROOT, D[Front(q)] = Array PROVE q[Len(q)] = Index(at[q] - 1)
  <2>. DEFINE p == Front(q)
  <2>1. p \in P /\ Listed(D, p, kids[p]) /\ p \in Seq(KeySet)
    BY <1>1, <1>2, <1>7 DEF Whole
  <2>2. at[q] \in 1..Len(kids[p]) /\ kids[p][at[q]] = q
    BY <1>4, <1>7
  <2>3. q = Append(p, Index(at[q] - 1))
    <3>1. D[p] = Array
      BY <1>7
    <3>. HIDE DEF p
    <3>. QED  BY <2>1, <2>2, <3>1, Zenon DEF Listed
  <2>4. at[q] - 1 \in Nat
    <3>. HIDE DEF p
    <3>. QED  BY <2>2
  <2>5. Index(at[q] - 1) \in KeySet
    BY <2>4, IndexKey
  <2>6. Last(Append(p, Index(at[q] - 1))) = Index(at[q] - 1)
    <3>. HIDE DEF p
    <3>. QED  BY <2>1, <2>5, FrontAppend
  <2>. QED  BY <2>3, <2>6 DEF Last
<1>8. ASSUME NEW p \in P, D[p] \in {Array, Object}, NEW i \in 1..Len(kids[p])
      PROVE  at[kids[p][i]] = i
  <2>. DEFINE q == kids[p][i]
  <2>1. Listed(D, p, kids[p])
    BY <1>2, <1>8
  <2>2. q \in P /\ q # ROOT /\ Front(q) = p
    BY <2>1 DEF Listed, Kids, ROOT
  <2>3. at[q] \in 1..Len(kids[p]) /\ kids[p][at[q]] = q
    BY <1>4, <2>2
  <2>. QED  BY <2>1, <2>3, Zenon DEF Listed
<1>. QED  BY <1>1, <1>4, <1>6, <1>7, <1>8 DEF PlacesFit

EndsFit(D, kids, after, at, final, end) ==
  /\ end[ROOT] = final
  /\ \A q \in DOMAIN D: q # ROOT => end[q] = after[Front(q)][at[q]] \o end[Front(q)]

Associated(x, y, z) == (x \o y) \o z = x \o (y \o z)

LEMMA AssociatedIs ==
  ASSUME NEW A, NEW x \in Seq(A), NEW y \in Seq(A), NEW z \in Seq(A)
  PROVE  Associated(x, y, z)
BY ConcatAssociative DEF Associated

LEMMA EndsExist ==
  ASSUME NEW m, NEW D, Whole(D), NEW N \in Nat, \A p \in DOMAIN D: Len(p) \in 0..N,
         NEW kids, NEW after, NEW text, Texts(m, D, kids, after, text),
         NEW at \in [DOMAIN D -> Nat],
         \A q \in DOMAIN D: q # ROOT => at[q] \in 1..Len(kids[Front(q)]),
         NEW final \in Seq(TokensOf(D))
  PROVE  \E end \in [DOMAIN D -> Seq(TokensOf(D))]: EndsFit(D, kids, after, at, final, end)
<1>. DEFINE P == DOMAIN D
            S == Seq(TokensOf(D))
            V == [P -> S]
            rank == [p \in P |-> Len(p)]
            F == [f \in V |-> [q \in P |-> IF q = ROOT THEN final
                                           ELSE after[Front(q)][at[q]] \o f[Front(q)]]]
<1>1. rank \in [P -> 0..N]
  <2>. HIDE DEF P
  <2>. QED  BY DEF P
<1>2. ASSUME NEW q \in P, q # ROOT
      PROVE  Front(q) \in P /\ rank[Front(q)] < rank[q] /\ after[Front(q)][at[q]] \in S
  <2>. DEFINE p == Front(q)
  <2>1. q \in Seq(KeySet) /\ p \in P /\ D[p] \in {Array, Object}
    BY <1>2 DEF Whole, Fits, ROOT
  <2>2. Len(p) = Len(q) - 1 /\ Len(q) \in Nat
    BY <1>2, <2>1, FrontFacts DEF ROOT
  <2>3. at[q] \in 1..Len(kids[p])
    BY <1>2
  <2>4. Len(kids[p]) \in Nat /\ after[p] \in [0..Len(kids[p]) -> S]
    BY <2>1, PartsAre, Zenon DEF PartsFit
  <2>. HIDE DEF P, S, p
  <2>5. at[q] \in 0..Len(kids[p])
    BY <2>3, <2>4
  <2>6. after[p][at[q]] \in S
    BY <2>4, <2>5
  <2>7. rank[p] < rank[q]
    BY <2>1, <2>2
  <2>. QED  BY <2>1, <2>6, <2>7 DEF p
<1>3. \A a, b \in S: a \o b \in S
  BY ConcatProperties
<1>4. final \in S /\ ROOT \in P
  BY DEF Whole
<1>. HIDE DEF P, S, rank
<1>5. F \in [V -> V]
  <2>1. ASSUME NEW f \in V, NEW q \in P
        PROVE  (IF q = ROOT THEN final ELSE after[Front(q)][at[q]] \o f[Front(q)]) \in S
    BY <1>2, <1>3, <1>4
  <2>. QED  BY <2>1
<1>6. Inductive(F, P, S, rank)
  <2>. SUFFICES ASSUME NEW f \in V, NEW g \in V, NEW p \in P,
                       \A q \in P: rank[q] < rank[p] => f[q] = g[q]
                PROVE  F[f][p] = F[g][p]
    BY Zenon DEF Inductive
  <2>1. p # ROOT => f[Front(p)] = g[Front(p)]
    BY <1>2
  <2>. QED  BY <2>1
<1>7. HasFixedPoint(F, P, S)
  <2>. HIDE DEF F
  <2>1. F \in [[P -> S] -> [P -> S]]
    BY <1>5
  <2>. HIDE DEF V
  <2>. QED  BY <1>1, <1>4, <1>6, <2>1, FixedPoint, Zenon
<1>8. PICK f \in V: F[f] = f
  BY <1>7, Zenon DEF HasFixedPoint
<1>9. \A q \in P: f[q] = IF q = ROOT THEN final ELSE after[Front(q)][at[q]] \o f[Front(q)]
  BY <1>8, Zenon
<1>10. /\ f \in [P -> S] /\ f[ROOT] = final
       /\ \A q \in P: q # ROOT => f[q] = after[Front(q)][at[q]] \o f[Front(q)]
  BY <1>4, <1>9, Zenon
<1>11. EndsFit(D, kids, after, at, final, f)
  BY <1>10, Zenon DEF EndsFit, P
<1>. QED  BY <1>8, <1>11, Zenon DEF P, S, V

Four(at, count, begin, end) == [at |-> at, count |-> count, begin |-> begin, end |-> end]

LEMMA WrittenIs ==
  ASSUME NEW m, NEW D, Whole(D), NEW N \in Nat, \A p \in DOMAIN D: Len(p) \in 0..N,
         NEW kids, NEW after, NEW text, Texts(m, D, kids, after, text), NEW final \in Remarks(m)
  PROVE  \E w: Written(m, D, w) /\ w.begin[ROOT] = text[ROOT] \o final
<1>. DEFINE P == DOMAIN D
            A == TokensOf(D)
            S == Seq(A)
            comma == <<T("arraySeparator")>>
<1>0. PICK at \in [DOMAIN D -> Nat]: PlacesFit(D, kids, at)
  BY PlacesExist
<1>1. /\ at \in [P -> Nat]
      /\ \A q \in P:
           q # ROOT => /\ Front(q) \in P /\ D[Front(q)] \in {Array, Object}
                       /\ at[q] \in 1..Len(kids[Front(q)]) /\ kids[Front(q)][at[q]] = q
                       /\ D[Front(q)] = Array => q[Len(q)] = Index(at[q] - 1)
      /\ \A p \in P: D[p] \in {Array, Object} => \A i \in 1..Len(kids[p]): at[kids[p][i]] = i
  BY <1>0, Zenon DEF PlacesFit
<1>2. WrittenComment \in A
  BY TokensOfIs
<1>3. Remarks(m) \subseteq S /\ final \in S
  BY <1>2, RemarksAre
<1>4a. PICK end \in [DOMAIN D -> Seq(TokensOf(D))]: EndsFit(D, kids, after, at, final, end)
  <2>1. \A q \in DOMAIN D: q # ROOT => at[q] \in 1..Len(kids[Front(q)])
    BY <1>1
  <2>2. at \in [DOMAIN D -> Nat] /\ final \in Seq(TokensOf(D))
    BY <1>1, <1>3
  <2>. QED  BY <2>1, <2>2, EndsExist, Zenon
<1>4. /\ end \in [P -> S] /\ end[ROOT] = final
      /\ \A q \in P: q # ROOT => end[q] = after[Front(q)][at[q]] \o end[Front(q)]
  BY <1>4a, Zenon DEF EndsFit
<1>5. /\ kids \in [P -> Seq(P)] /\ text \in [P -> S]
      /\ \A p \in P: D[p] \notin {Array, Object} => text[p] = <<ScalarText(D[p])>>
      /\ \A p \in P: D[p] \in {Array, Object} => text[p] = <<Begun(D[p])>> \o after[p][0]
  BY Zenon DEF Texts
<1>6. \A v: <<Begun(v)>> \in S /\ <<Ended(v)>> \in S
  BY TokensOfIs
<1>7. comma \in S /\ \A q \in P: Label(D, q) \in S
  BY TokensOfIs
<1>8. ROOT \in P
  BY DEF Whole
<1>9. ASSUME NEW p \in P, D[p] \in {Array, Object}
      PROVE  PartsFit(m, D, kids, after, text, p)
  <2>1. D[p] \in {Array, Object} /\ p \in DOMAIN D
    BY <1>9
  <2>. QED  BY <2>1, PartsAre
<1>10. \A p: \A q \in Kids(P, p): q \in P /\ q # ROOT /\ Front(q) = p
  BY DEF Kids, ROOT
<1>. DEFINE count == [p \in P |-> Len(kids[p])]
            begin == [p \in P |-> text[p] \o end[p]]
            w == Four(at, count, begin, end)
<1>11. \A a, b \in S: a \o b \in S
  BY ConcatProperties
<1>. HIDE DEF P, S, comma
<1>14. count \in [P -> Nat] /\ \A p \in P: count[p] = Len(kids[p])
  BY <1>5
<1>15. begin \in [P -> S] /\ \A p \in P: begin[p] = text[p] \o end[p]
  BY <1>4, <1>5, <1>11
<1>. HIDE DEF count, begin
<1>16. w.at = at /\ w.count = count /\ w.begin = begin /\ w.end = end
  BY DEF Four
<1>. HIDE DEF w
\* The i-th Value of a container.
<1>17. ASSUME NEW p \in P, D[p] \in {Array, Object}, NEW i \in 1..count[p]
       PROVE  LET q == kids[p][i]
              IN /\ q \in Kids(P, p) /\ q \in P /\ at[q] = i
                 /\ after[p][i] \in S /\ text[q] \in S /\ Label(D, q) \in S /\ end[p] \in S
                 /\ end[q] = after[p][i] \o end[p]
                 /\ begin[q] = text[q] \o (after[p][i] \o end[p])
  <2>. DEFINE q == kids[p][i]
  <2>1. count[p] = Len(kids[p]) /\ count[p] \in Nat /\ after[p] \in [0..count[p] -> S]
    BY <1>9, <1>14, <1>17, Zenon DEF PartsFit, S
  <2>2. q \in Kids(P, p)
    BY <1>9, <1>14, <1>17, <2>1, Zenon DEF PartsFit, P
  <2>3. q \in P /\ q # ROOT /\ Front(q) = p
    BY <1>10, <2>2
  <2>4. at[q] = i
    BY <1>1, <1>17, <2>1
  <2>. HIDE DEF q
  <2>5. i \in 0..count[p] /\ after[p][i] \in S
    BY <2>1
  <2>6. end[q] = after[p][i] \o end[p]
    BY <1>4, <2>3, <2>4, Zenon
  <2>7. begin[q] = text[q] \o end[q]
    BY <1>15, <2>3, Zenon
  <2>8. text[q] \in S /\ Label(D, q) \in S /\ end[p] \in S
    BY <1>4, <1>5, <1>7, <2>3
  <2>. QED  BY <2>2, <2>3, <2>4, <2>5, <2>6, <2>7, <2>8 DEF q
<1>18. ASSUME NEW p \in P, D[p] \in {Array, Object}
       PROVE  \E s \in S: begin[p] = <<Begun(D[p])>> \o s /\ Comes(m, D, w, p, 0, s)
  <2>. DEFINE s == after[p][0] \o end[p]
  <2>1. after[p] \in [0..count[p] -> S] /\ count[p] \in Nat
    BY <1>9, <1>14, <1>18, Zenon DEF PartsFit, S
  <2>2. after[p][0] \in S /\ end[p] \in S
    <3>1. 0 \in 0..count[p]
      BY <2>1
    <3>. QED  BY <1>4, <1>18, <2>1, <3>1
  <2>3. begin[p] = (<<Begun(D[p])>> \o after[p][0]) \o end[p]
    BY <1>5, <1>15, <1>18, Zenon
  <2>4. begin[p] = <<Begun(D[p])>> \o s
    <3>1. <<Begun(D[p])>> \in S
      BY <1>6, Zenon
    <3>2. (<<Begun(D[p])>> \o after[p][0]) \o end[p] = <<Begun(D[p])>> \o (after[p][0] \o end[p])
      <4>1. /\ <<Begun(D[p])>> \in Seq(A) /\ after[p][0] \in Seq(A) /\ end[p] \in Seq(A)
        BY <2>2, <3>1 DEF S
      <4>2. Associated(<<Begun(D[p])>>, after[p][0], end[p])
        BY <4>1, AssociatedIs, Zenon
      <4>. QED  BY <4>2, Zenon DEF Associated
    <3>. QED  BY <2>3, <3>2, Zenon
  <2>5. s \in S
    BY <1>11, <2>2
  <2>6. CASE count[p] = 0
    <3>1. after[p][0] = <<Ended(D[p])>>
      BY <1>9, <1>14, <1>18, <2>6, Zenon DEF PartsFit
    <3>2. w.count[p] = 0 /\ s = <<Ended(D[p])>> \o w.end[p]
      BY <1>16, <2>6, <3>1
    <3>. HIDE DEF s
    <3>. QED  BY <2>4, <2>5, <3>2, Zenon DEF Comes
  <2>7. CASE count[p] # 0
    <3>. DEFINE q == kids[p][1]
    <3>1. 1 \in 1..count[p]
      BY <2>1, <2>7
    <3>2. /\ q \in Kids(P, p) /\ q \in P /\ at[q] = 1
          /\ after[p][1] \in S /\ text[q] \in S /\ Label(D, q) \in S /\ end[p] \in S
          /\ begin[q] = text[q] \o (after[p][1] \o end[p])
      BY <1>17, <1>18, <3>1, Zenon
    <3>3. PICK c \in Remarks(m): after[p][0] = c \o ((Label(D, q) \o text[q]) \o after[p][1])
      BY <1>9, <1>14, <1>18, <2>7, Zenon DEF PartsFit, q
    <3>4. c \in S
      BY <1>3
    <3>. HIDE DEF q
    <3>5. s = c \o (Label(D, q) \o begin[q])
      <4>1. (c \o ((Label(D, q) \o text[q]) \o after[p][1])) \o end[p]
            = c \o (Label(D, q) \o (text[q] \o (after[p][1] \o end[p])))
        <5>1. /\ c \in Seq(A) /\ Label(D, q) \in Seq(A) /\ text[q] \in Seq(A)
              /\ after[p][1] \in Seq(A) /\ end[p] \in Seq(A)
          BY <3>2, <3>4 DEF S
        <5>2. Spliced(c, Label(D, q), text[q], after[p][1], end[p])
          BY <5>1, Splice, Zenon
        <5>. QED  BY <5>2, Zenon DEF Spliced
      <4>. QED  BY <3>2, <3>3, <4>1, Zenon
    <3>. HIDE DEF s
    <3>6. w.at[q] = 0 + 1 /\ s = c \o (Label(D, q) \o w.begin[q])
      BY <1>16, <3>2, <3>5
    <3>. QED  BY <2>4, <2>5, <3>2, <3>6, Zenon DEF Comes, P
  <2>. QED  BY <2>6, <2>7, Zenon
<1>19. ASSUME NEW q \in P, q # ROOT
       PROVE  /\ at[q] \in 1..count[Front(q)]
              /\ Goes(m, D, w, Front(q), at[q], end[q])
  <2>1. PICK p \in P: p = Front(q) /\ D[p] \in {Array, Object}
    BY <1>1, <1>19
  <2>2. PICK i \in 1..count[p]: i = at[q] /\ kids[p][i] = q
    BY <1>1, <1>14, <1>19, <2>1
  <2>3. /\ after[p][i] \in S /\ end[p] \in S /\ end[q] = after[p][i] \o end[p] /\ count[p] \in Nat
        /\ q \in Kids(P, p)
    <3>1. /\ kids[p][i] \in Kids(P, p) /\ after[p][i] \in S /\ end[p] \in S
          /\ end[kids[p][i]] = after[p][i] \o end[p]
      BY <1>17, <2>1, <2>2, Zenon
    <3>2. count[p] \in Nat
      BY <1>14, <2>1
    <3>. QED  BY <2>2, <3>1, <3>2, Zenon
  <2>4. CASE i = count[p]
    <3>1. PICK c \in Remarks(m): after[p][i] = c \o <<Ended(D[p])>>
      <4>1. PartsFit(m, D, kids, after, text, p) /\ i = Len(kids[p])
        BY <1>9, <1>14, <2>1, <2>4
      <4>2. Len(kids[p]) # 0
        BY <2>1, <2>2, <2>4, <1>14
      <4>3. \E c \in Remarks(m): after[p][Len(kids[p])] = c \o <<Ended(D[p])>>
        BY <4>1, <4>2, Zenon DEF PartsFit
      <4>. QED  BY <4>1, <4>3, Zenon
    <3>2. c \in S /\ <<Ended(D[p])>> \in S
      BY <1>3, <1>6, Zenon
    <3>3. (c \o <<Ended(D[p])>>) \o end[p] = c \o (<<Ended(D[p])>> \o end[p])
      <4>1. c \in Seq(A) /\ <<Ended(D[p])>> \in Seq(A) /\ end[p] \in Seq(A)
        BY <2>3, <3>2 DEF S
      <4>2. Associated(c, <<Ended(D[p])>>, end[p])
        BY <4>1, AssociatedIs, Zenon
      <4>. QED  BY <4>2, Zenon DEF Associated
    <3>4. end[q] = c \o (<<Ended(D[p])>> \o w.end[p]) /\ i = w.count[p]
      BY <1>16, <2>3, <2>4, <3>1, <3>3, Zenon
    <3>. QED  BY <2>1, <2>2, <3>4, Zenon DEF Goes
  <2>5. CASE i # count[p]
    <3>. DEFINE r == kids[p][i + 1]
    <3>1. i \in 1..count[p] - 1 /\ i + 1 \in 1..count[p]
      BY <2>2, <2>3, <2>5
    <3>2. /\ r \in Kids(P, p) /\ r \in P /\ at[r] = i + 1
          /\ after[p][i + 1] \in S /\ text[r] \in S /\ Label(D, r) \in S /\ end[p] \in S
          /\ begin[r] = text[r] \o (after[p][i + 1] \o end[p])
      BY <1>17, <2>1, <3>1, Zenon
    <3>3. PICK c \in Remarks(m):
            after[p][i] = comma \o (c \o ((Label(D, r) \o text[r]) \o after[p][i + 1]))
      BY <1>9, <1>14, <2>1, <3>1, Zenon DEF PartsFit, r, comma
    <3>4. c \in S
      BY <1>3
    <3>. HIDE DEF r
    <3>. DEFINE x == c \o ((Label(D, r) \o text[r]) \o after[p][i + 1])
    <3>5. x \in S
      <4>1. Label(D, r) \o text[r] \in S
        BY <1>11, <3>2
      <4>2. (Label(D, r) \o text[r]) \o after[p][i + 1] \in S
        BY <1>11, <3>2, <4>1
      <4>. QED  BY <1>11, <3>4, <4>2
    <3>6. x \o end[p] = c \o (Label(D, r) \o begin[r])
      <4>1. (c \o ((Label(D, r) \o text[r]) \o after[p][i + 1])) \o end[p]
            = c \o (Label(D, r) \o (text[r] \o (after[p][i + 1] \o end[p])))
        <5>1. /\ c \in Seq(A) /\ Label(D, r) \in Seq(A) /\ text[r] \in Seq(A)
              /\ after[p][i + 1] \in Seq(A) /\ end[p] \in Seq(A)
          BY <3>2, <3>4 DEF S
        <5>2. Spliced(c, Label(D, r), text[r], after[p][i + 1], end[p])
          BY <5>1, Splice, Zenon
        <5>. QED  BY <5>2, Zenon DEF Spliced
      <4>. QED  BY <3>2, <4>1, Zenon
    <3>7. end[q] = (comma \o x) \o end[p]
      BY <2>3, <3>3, Zenon
    <3>. HIDE DEF x
    <3>8. (comma \o x) \o end[p] = comma \o (x \o end[p])
      <4>1. comma \in Seq(A) /\ x \in Seq(A) /\ end[p] \in Seq(A)
        BY <1>7, <2>3, <3>5 DEF S
      <4>2. Associated(comma, x, end[p])
        BY <4>1, AssociatedIs, ZenonT(60)
      <4>. QED  BY <4>2, Zenon DEF Associated
    <3>9. end[q] = comma \o (c \o (Label(D, r) \o w.begin[r])) /\ w.at[r] = i + 1
      BY <1>16, <3>2, <3>6, <3>7, <3>8
    <3>. QED  BY <2>1, <2>2, <3>2, <3>9, Zenon DEF Goes, P, comma
  <2>. QED  BY <2>1, <2>2, <2>4, <2>5
<1>20. ASSUME NEW q \in P, NEW r \in P, q # ROOT, r # ROOT, Front(q) = Front(r), at[q] = at[r]
       PROVE  q = r
  <2>1. kids[Front(q)][at[q]] = q /\ kids[Front(r)][at[r]] = r
    BY <1>1, <1>20, Zenon
  <2>. QED  BY <1>20, <2>1, Zenon
<1>21. Written(m, D, w)
  <2>1. \A p \in P: IF D[p] \in {Array, Object}
                    THEN \E s \in S: w.begin[p] = <<Begun(D[p])>> \o s /\ Comes(m, D, w, p, 0, s)
                    ELSE w.begin[p] = <<ScalarText(D[p])>> \o w.end[p]
    BY <1>5, <1>15, <1>16, <1>18, Zenon
  <2>2. \A q \in P:
          q # ROOT => /\ w.at[q] \in 1..w.count[Front(q)]
                      /\ Goes(m, D, w, Front(q), w.at[q], w.end[q])
                      /\ D[Front(q)] = Array => q[Len(q)] = Index(w.at[q] - 1)
    BY <1>1, <1>16, <1>19
  <2>3. \A q, r \in P: q # ROOT /\ r # ROOT /\ Front(q) = Front(r) /\ w.at[q] = w.at[r] => q = r
    BY <1>16, <1>20
  <2>4. /\ w.at \in [P -> Nat] /\ w.count \in [P -> Nat]
        /\ w.begin \in [P -> S] /\ w.end \in [P -> S] /\ w.end[ROOT] \in Remarks(m)
    BY <1>4, <1>14, <1>15, <1>16
  <2>. QED  BY <2>1, <2>2, <2>3, <2>4, Zenon DEF Written, P, S
<1>22. w.begin[ROOT] = text[ROOT] \o final
  BY <1>4, <1>8, <1>15, <1>16, Zenon
<1>. QED  BY <1>21, <1>22, Zenon

\* Below a place there is one right below it, on the way.
Stepwise(P) ==
  \A q, x \in P: IsPrefix(q, x) /\ q # x => \E r \in Kids(P, q): IsPrefix(r, x)

LEMMA KidsOnTheWay ==
  ASSUME NEW D, Whole(D), NEW N \in Nat, \A p \in DOMAIN D: Len(p) \in 0..N
  PROVE  Stepwise(DOMAIN D)
<1>. DEFINE P == DOMAIN D
            rank == [p \in P |-> Len(p)]
            Y == {x \in P: \A q \in P: IsPrefix(q, x) /\ q # x => \E r \in Kids(P, q): IsPrefix(r, x)}
<1>1. rank \in [P -> 0..N]
  <2>. HIDE DEF P
  <2>. QED  BY DEF P
<1>2. P \subseteq Seq(KeySet) /\ \A x \in P: x # <<>> => Front(x) \in P
  BY DEF Whole
<1>3. \A x \in P: rank[x] = Len(x)
  OBVIOUS
<1>. HIDE DEF P, rank
<1>4. ASSUME NEW x \in P, \A y \in P: rank[y] < rank[x] => y \in Y
      PROVE  x \in Y
  <2>. SUFFICES ASSUME NEW q \in P, IsPrefix(q, x), q # x
                PROVE  \E r \in Kids(P, q): IsPrefix(r, x)
    OBVIOUS
  <2>1. x \in Seq(KeySet) /\ q \in Seq(KeySet)
    BY <1>2
  <2>2. x # <<>>
    <3>. SUFFICES ASSUME x = <<>> PROVE FALSE
      OBVIOUS
    <3>1. Len(q) <= 0
      <4>1. Len(q) <= Len(x)
        BY <2>1, PrefixFacts, Zenon
      <4>. QED  BY <4>1
    <3>2. q = <<>>
      BY <2>1, <3>1, EmptySeq
    <3>. QED  BY <3>2
  <2>3. Front(x) \in P
    BY <1>2, <2>2
  <2>4. IsPrefix(q, Front(x))
    BY <2>1, <2>2, PrefixFront
  <2>5. CASE q = Front(x)
    <3>1. x \in Kids(P, q)
      BY <2>2, <2>5 DEF Kids
    <3>2. IsPrefix(x, x)
      BY <2>1, PrefixFacts
    <3>. QED  BY <3>1, <3>2
  <2>6. CASE q # Front(x)
    <3>1. rank[Front(x)] < rank[x]
      <4>1. Len(Front(x)) = Len(x) - 1 /\ Len(x) \in Nat
        BY <2>1, <2>2, FrontFacts
      <4>. QED  BY <1>3, <2>3, <4>1
    <3>2. Front(x) \in Y
      BY <1>4, <2>3, <3>1
    <3>3. PICK r \in Kids(P, q): IsPrefix(r, Front(x))
      BY <2>4, <2>6, <3>2
    <3>4. r \in Seq(KeySet)
      BY <1>2, <3>3 DEF Kids
    <3>5. IsPrefix(r, x)
      BY <2>1, <2>2, <3>3, <3>4, PrefixFront
    <3>. QED  BY <3>3, <3>5
  <2>. QED  BY <2>5, <2>6
<1>5. P \subseteq Y
  <2>. HIDE DEF Y
  <2>. QED  BY <1>1, <1>4, RankInduction
<1>. QED  BY <1>5 DEF Stepwise, P

\* The tokens s are what a writer makes of the values D.
Writes(m, D, s) ==
  \E w: Written(m, D, w) /\ \E c \in Remarks(m): s = c \o w.begin[ROOT]

LEMMA TextWrites ==
  ASSUME NEW m, NEW tr, WellFormed(m, tr), NEW before0 \in Remarks(m), NEW final \in Remarks(m),
         NEW body,
         \E kids, after, text: Texts(m, Dense(tr), kids, after, text) /\ body = text[ROOT]
  PROVE  Writes(m, Dense(tr), (before0 \o body) \o final)
<1>. DEFINE D == Dense(tr)
            A == TokensOf(D)
<1>1. PICK kids, after, text: Texts(m, D, kids, after, text) /\ body = text[ROOT]
  OBVIOUS
<1>2. Whole(D)
  BY DenseIs, Zenon
<1>3. PICK N \in Nat: \A p \in DOMAIN D: Len(p) \in 0..N
  BY DenseBound
<1>. HIDE DEF D
<1>4. PICK w: Written(m, D, w) /\ w.begin[ROOT] = text[ROOT] \o final
  BY <1>1, <1>2, <1>3, WrittenIs, SMTT(60)
<1>5. WrittenComment \in A
  BY TokensOfIs
<1>6. before0 \in Seq(A) /\ final \in Seq(A)
  BY <1>5, RemarksAre
<1>7. body \in Seq(A)
  BY <1>1, <1>2 DEF Texts, Whole
<1>8. Associated(before0, body, final)
  BY <1>6, <1>7, AssociatedIs
<1>9. (before0 \o body) \o final = before0 \o w.begin[ROOT]
  BY <1>1, <1>4, <1>8, Zenon DEF Associated
<1>10. Writes(m, D, (before0 \o body) \o final)
  BY <1>4, <1>9, Zenon DEF Writes
<1>. QED  BY <1>10 DEF D

LEMMA WritersWrite ==
  ASSUME NEW m, NEW tr, WellFormed(m, tr), NEW s \in {Fast(tr), Styled(tr), StyledStream(tr)}
  PROVE  Writes(m, Dense(tr), s)
<1>. DEFINE D == Dense(tr)
            A == TokensOf(D)
<1>1. ROOT \in DOMAIN D
  BY DenseIs, Zenon DEF Whole
<1>2. CommentBefore(tr, ROOT) \in Remarks(m) /\ CommentAfter(tr, ROOT) \in Remarks(m)
  BY <1>1, CommentsAre
<1>. HIDE DEF D
<1>3. WrittenComment \in A
  BY TokensOfIs
<1>4. <<>> \in Remarks(m)
  BY <1>3, RemarksAre
<1>5. CASE s = Fast(tr)
  <2>1. \E kids, after, text:
          Texts(m, Dense(tr), kids, after, text) /\ FastValue(tr, ROOT) = text[ROOT]
    BY WriterTexts
  <2>2. Writes(m, Dense(tr), (<<>> \o FastValue(tr, ROOT)) \o <<>>)
    BY <1>4, <2>1, TextWrites, Zenon
  <2>3. FastValue(tr, ROOT) \in Seq(A)
    BY <1>1, <2>1 DEF Texts, D
  <2>4. (<<>> \o FastValue(tr, ROOT)) \o <<>> = FastValue(tr, ROOT)
    BY <2>3, ConcatEmptySeq
  <2>. QED  BY <1>5, <2>2, <2>4, Zenon DEF Fast
<1>6. CASE s = Styled(tr)
  <2>1. \E kids, after, text:
          Texts(m, Dense(tr), kids, after, text) /\ StyledValue(tr, ROOT) = text[ROOT]
    BY WriterTexts
  <2>2. Writes(m, Dense(tr),
               (CommentBefore(tr, ROOT) \o StyledValue(tr, ROOT)) \o CommentAfter(tr, ROOT))
    BY <1>2, <2>1, TextWrites
  <2>. QED  BY <1>6, <2>2, Zenon DEF Styled
<1>. QED  BY <1>5, <1>6 DEF StyledStream

-----------------------------------------------------------------------------
(* What the reader has read of it *)

\* What a Value is read as that was written as d.
Same(v, d) == Integral(v) = Integral(d) /\ (d \in Unpacked => v = d)

\* Each Value has its place among those of its container, and no other has it.
Ordered(D, w) ==
  /\ w.at \in [DOMAIN D -> Nat] /\ w.count \in [DOMAIN D -> Nat]
  /\ \A q \in DOMAIN D: q # ROOT => w.at[q] \in 1..w.count[Front(q)]
  /\ \A q, r \in DOMAIN D:
       q # ROOT /\ r # ROOT /\ Front(q) = Front(r) /\ w.at[q] = w.at[r] => q = r

\* The text of q has been read, when the reader has read j of the Values below nd.
Passed(D, w, nd, j, q) ==
  /\ q # ROOT
  /\ \/ Front(q) = nd /\ w.at[q] <= j
     \/ \E a \in DOMAIN D: /\ a # ROOT /\ IsPrefix(a, nd)
                           /\ Front(a) = Front(q) /\ w.at[q] < w.at[a]

\* Everything from q on is in the tree.
Covered(D, tr, q) == \A x \in DOMAIN D: IsPrefix(q, x) => x \in DOMAIN tr

Filled(D, w, tr, nd, j) ==
  /\ DOMAIN tr \subseteq DOMAIN D
  /\ \A p \in DOMAIN tr: Same(tr[p].value, D[p])
  /\ \A q \in DOMAIN D: Passed(D, w, nd, j, q) => Covered(D, tr, q)

\* The Value at nd is to be read.
Opened(D, w, tr, nd) ==
  nd # ROOT =>
    /\ DOMAIN tr \subseteq DOMAIN D
    /\ \A p \in DOMAIN tr: p # nd => Same(tr[p].value, D[p])
    /\ \A q \in DOMAIN D: Passed(D, w, nd, 0, q) => Covered(D, tr, q)

LEMMA IsOrdered == ASSUME NEW m, NEW D, NEW w, Written(m, D, w) PROVE Ordered(D, w)
BY DEF Written, Ordered

\* What was read before the next Value is what was read before.
LEMMA PassedDown ==
  ASSUME NEW D, NEW w, Whole(D), Ordered(D, w), NEW nd, NEW j \in Nat,
         NEW q \in Kids(DOMAIN D, nd), w.at[q] = j + 1,
         NEW r \in DOMAIN D, Passed(D, w, q, 0, r)
  PROVE  Passed(D, w, nd, j, r)
<1>1. /\ q \in DOMAIN D /\ q # <<>> /\ Front(q) = nd
      /\ DOMAIN D \subseteq Seq(KeySet)
  BY DEF Whole, Kids
<1>2. r # ROOT /\ w.at[r] \in Nat /\ w.at[r] >= 1
  <2>1. r # ROOT
    BY DEF Passed
  <2>2. w.at[r] \in 1..w.count[Front(r)] /\ w.at[r] \in Nat
    BY <2>1 DEF Ordered
  <2>. QED  BY <2>1, <2>2
<1>3. PICK a \in DOMAIN D: /\ a # ROOT /\ IsPrefix(a, q)
                           /\ Front(a) = Front(r) /\ w.at[r] < w.at[a]
  BY <1>2 DEF Passed
<1>4. a = q \/ IsPrefix(a, nd)
  BY <1>1, <1>3, PrefixFront
<1>5. CASE a = q
  <2>1. Front(r) = nd /\ w.at[r] <= j
    BY <1>1, <1>2, <1>3, <1>5
  <2>. QED  BY <1>2, <2>1 DEF Passed
<1>6. CASE IsPrefix(a, nd)
  BY <1>2, <1>3, <1>6 DEF Passed
<1>. QED  BY <1>4, <1>5, <1>6

\* What has been read when a Value is done: that Value, and what had been before.
LEMMA PassedUp ==
  ASSUME NEW D, NEW w, Whole(D), Ordered(D, w), NEW q \in DOMAIN D, q # ROOT,
         NEW j \in Nat, NEW r \in DOMAIN D, Passed(D, w, Front(q), w.at[q], r)
  PROVE  r = q \/ Passed(D, w, q, j, r)
<1>1. q # <<>> /\ DOMAIN D \subseteq Seq(KeySet)
  BY DEF Whole, ROOT
<1>2. IsPrefix(q, q)
  BY <1>1, PrefixFacts
<1>3. r # ROOT /\ w.at[r] \in Nat /\ w.at[q] \in Nat
  BY DEF Passed, Ordered
<1>4. CASE Front(r) = Front(q) /\ w.at[r] <= w.at[q]
  <2>1. CASE w.at[r] = w.at[q]
    BY <1>3, <1>4, <2>1 DEF Ordered
  <2>2. CASE w.at[r] < w.at[q]
    BY <1>2, <1>3, <1>4, <2>2 DEF Passed
  <2>. QED  BY <1>3, <1>4, <2>1, <2>2
<1>5. ASSUME NEW a \in DOMAIN D, a # ROOT, IsPrefix(a, Front(q)),
             Front(a) = Front(r), w.at[r] < w.at[a]
      PROVE  Passed(D, w, q, j, r)
  <2>1. IsPrefix(a, q)
    BY <1>1, <1>5, PrefixFront
  <2>. QED  BY <1>3, <1>5, <2>1 DEF Passed
<1>. QED  BY <1>4, <1>5 DEF Passed

LEMMA EmptyIsPrefix ==
  ASSUME NEW K, NEW e \in Seq(K), Len(e) = 0, NEW p \in Seq(K)
  PROVE  IsPrefix(e, p)
<1>1. Len(e) <= Len(p) /\ \A i \in 1..Len(e): e[i] = p[i]
  OBVIOUS
<1>. QED  BY <1>1, PrefixIs, Zenon

LEMMA EmptyPrefix ==
  ASSUME NEW K, NEW p \in Seq(K)
  PROVE  IsPrefix(<<>>, p)
<1>1. <<>> \in Seq(K) /\ Len(<<>>) = 0
  BY EmptySeq
<1>. QED  BY <1>1, EmptyIsPrefix, Zenon

\* Of two Values of a container only one is on the way to a place.
LEMMA OneOnTheWay ==
  ASSUME NEW K, NEW a \in Seq(K), NEW b \in Seq(K), NEW x \in Seq(K), a # <<>>, b # <<>>,
         Front(a) = Front(b), IsPrefix(a, x), IsPrefix(b, x)
  PROVE  a = b
<1>1. Len(a) = Len(b) /\ Len(a) \in Nat
  <2>1. Len(Front(a)) = Len(a) - 1 /\ Len(Front(b)) = Len(b) - 1 /\ Len(a) \in Nat /\ Len(b) \in Nat
    BY FrontFacts
  <2>. QED  BY <2>1
<1>2. \A i \in 1..Len(a): a[i] = x[i]
  BY PrefixIs
<1>3. \A i \in 1..Len(b): b[i] = x[i]
  BY PrefixIs
<1>. QED  BY <1>1, <1>2, <1>3, SeqEqual

LEMMA PrefixThrough ==
  ASSUME NEW K, NEW a \in Seq(K), NEW b \in Seq(K), NEW x \in Seq(K),
         IsPrefix(a, b), IsPrefix(b, x)
  PROVE  IsPrefix(a, x)
<1>1. Len(a) <= Len(b) /\ Len(b) <= Len(x) /\ Len(a) \in Nat /\ Len(b) \in Nat /\ Len(x) \in Nat
  BY PrefixFacts
<1>2. \A i \in 1..Len(a): a[i] = b[i]
  BY PrefixIs
<1>3. \A i \in 1..Len(b): b[i] = x[i]
  BY PrefixIs
<1>4. \A i \in 1..Len(a): a[i] = x[i]
  BY <1>1, <1>2, <1>3
<1>. QED  BY <1>1, <1>4, PrefixIs

\* The next Value of a container is begun.
LEMMA NextOpened ==
  ASSUME NEW D, NEW w, Whole(D), Ordered(D, w), NEW tr, NEW nd, NEW j \in Nat,
         Filled(D, w, tr, nd, j), ~Is(tr, nd, "null"),
         NEW q \in Kids(DOMAIN D, nd), w.at[q] = j + 1
  PROVE  /\ q = Append(nd, q[Len(q)]) /\ q[Len(q)] \in KeySet /\ q # ROOT
         /\ q \in DOMAIN Child(tr, nd, q[Len(q)])
         /\ Opened(D, w, Child(tr, nd, q[Len(q)]), q)
<1>. DEFINE key == q[Len(q)]
            new == Child(tr, nd, key)
<1>1. q \in DOMAIN D /\ q \in Seq(KeySet) /\ q # <<>> /\ Front(q) = nd
  BY DEF Kids, Whole
<1>2. q = Append(nd, key) /\ key \in KeySet
  BY <1>1, FrontFacts
<1>. HIDE DEF key
<1>3. new = IF q \in DOMAIN tr THEN tr
            ELSE [p \in DOMAIN tr \cup {q} |-> IF p = q THEN Leaf(Null) ELSE tr[p]]
  BY <1>2, Zenon DEF Child
<1>. HIDE DEF new
<1>4. DOMAIN new = DOMAIN tr \cup {q} /\ \A p \in DOMAIN tr: p # q => new[p] = tr[p]
  BY <1>3
<1>5. DOMAIN new \subseteq DOMAIN D /\ \A p \in DOMAIN new: p # q => Same(new[p].value, D[p])
  <2>1. DOMAIN tr \subseteq DOMAIN D /\ \A p \in DOMAIN tr: Same(tr[p].value, D[p])
    BY DEF Filled
  <2>. QED  BY <1>1, <1>4, <2>1
<1>6. ASSUME NEW r \in DOMAIN D, Passed(D, w, q, 0, r) PROVE Covered(D, new, r)
  <2>1. Passed(D, w, nd, j, r)
    BY <1>6, PassedDown
  <2>2. Covered(D, tr, r)
    BY <2>1 DEF Filled
  <2>. QED  BY <1>4, <2>2 DEF Covered
<1>7. Opened(D, w, new, q)
  BY <1>5, <1>6 DEF Opened
<1>. QED  BY <1>1, <1>2, <1>4, <1>7 DEF key, new, ROOT

\* The Value is assigned; nothing that was read before is destroyed.
LEMMA OpenedAssigned ==
  ASSUME NEW D, NEW w, Whole(D), Ordered(D, w), NEW K, NEW tr, DOMAIN tr \subseteq Seq(K),
         Nodes(tr), NEW q \in DOMAIN tr, q \in DOMAIN D, Opened(D, w, tr, q),
         NEW v, Same(v, D[q])
  PROVE  Filled(D, w, Assign(tr, q, v), q, 0)
<1>. DEFINE new == Assign(tr, q, v)
<1>1. Assigned(new, tr, q, v)
  BY AssignIs
<1>. HIDE DEF new
<1>2. /\ DOMAIN new = DOMAIN tr \ Below(tr, q) /\ q \in DOMAIN new
      /\ \A p \in DOMAIN new: new[p].value = IF p = q THEN v ELSE tr[p].value
  BY <1>1 DEF Assigned
<1>3. DOMAIN D \subseteq Seq(KeySet)
  BY DEF Whole
<1>4. CASE q = ROOT
  <2>1. \A p \in DOMAIN tr: IsPrefix(<<>>, p)
    <3>. SUFFICES ASSUME NEW p \in DOMAIN tr PROVE IsPrefix(<<>>, p)
      OBVIOUS
    <3>. QED  BY EmptyPrefix
  <2>2. \A p \in DOMAIN new: p = q
    BY <1>2, <1>4, <2>1 DEF Below, ROOT
  <2>3. DOMAIN new \subseteq DOMAIN D /\ \A p \in DOMAIN new: Same(new[p].value, D[p])
    BY <1>2, <2>2
  <2>4. ASSUME NEW r \in DOMAIN D, Passed(D, w, q, 0, r) PROVE FALSE
    <3>1. r # ROOT
      BY <2>4 DEF Passed
    <3>2. w.at[r] \in 1..w.count[Front(r)] /\ w.at[r] \in Nat
      BY <3>1 DEF Ordered
    <3>3. ~(w.at[r] <= 0)
      BY <3>2
    <3>4. PICK a \in DOMAIN D: a # ROOT /\ IsPrefix(a, ROOT)
      BY <1>4, <2>4, <3>3 DEF Passed
    <3>. QED  BY <1>3, <3>4, NotTheRoot DEF ROOT
  <2>5. Filled(D, w, new, q, 0)
    BY <2>3, <2>4 DEF Filled
  <2>. QED  BY <2>5 DEF new
<1>5. CASE q # ROOT
  <2>1. /\ DOMAIN tr \subseteq DOMAIN D
        /\ \A p \in DOMAIN tr: p # q => Same(tr[p].value, D[p])
        /\ \A r \in DOMAIN D: Passed(D, w, q, 0, r) => Covered(D, tr, r)
    BY <1>5 DEF Opened
  <2>2. DOMAIN new \subseteq DOMAIN D /\ \A p \in DOMAIN new: Same(new[p].value, D[p])
    BY <1>2, <2>1
  <2>3. ASSUME NEW r \in DOMAIN D, Passed(D, w, q, 0, r) PROVE Covered(D, new, r)
    <3>. SUFFICES ASSUME NEW x \in DOMAIN D, IsPrefix(r, x) PROVE x \in DOMAIN new
      BY DEF Covered
    <3>1. x \in DOMAIN tr
      BY <2>1, <2>3 DEF Covered
    <3>2. ASSUME x \in Below(tr, q) PROVE FALSE
      <4>1. IsPrefix(q, x)
        BY <3>2 DEF Below
      <4>2. r # ROOT
        BY <2>3 DEF Passed
      <4>3. w.at[r] \in 1..w.count[Front(r)] /\ w.at[r] \in Nat
        BY <4>2 DEF Ordered
      <4>4. ~(w.at[r] <= 0)
        BY <4>3
      <4>5. PICK a \in DOMAIN D: /\ a # ROOT /\ IsPrefix(a, q)
                                 /\ Front(a) = Front(r) /\ w.at[r] < w.at[a]
        BY <2>3, <4>4 DEF Passed
      <4>6. IsPrefix(a, x)
        BY <1>3, <4>1, <4>5, PrefixThrough
      <4>7. a = r
        BY <1>3, <4>2, <4>5, <4>6, OneOnTheWay DEF ROOT
      <4>. QED  BY <4>3, <4>5, <4>7
    <3>. QED  BY <1>2, <3>1, <3>2
  <2>4. Filled(D, w, new, q, 0)
    BY <2>2, <2>3 DEF Filled
  <2>. QED  BY <2>4 DEF new
<1>. QED  BY <1>4, <1>5

\* A Value is done, and all that it holds.
LEMMA AllCovered ==
  ASSUME NEW D, NEW w, Whole(D), Ordered(D, w), Stepwise(DOMAIN D), NEW tr, NEW q \in DOMAIN tr,
         NEW j, Filled(D, w, tr, q, j), D[q] \in {Array, Object} => j = w.count[q]
  PROVE  q \in DOMAIN D /\ Covered(D, tr, q)
<1>1. q \in DOMAIN D
  BY DEF Filled
<1>2. ASSUME NEW x \in DOMAIN D, IsPrefix(q, x) PROVE x \in DOMAIN tr
  <2>1. CASE x = q
    BY <2>1
  <2>2. CASE x # q
    <3>1. PICK r \in Kids(DOMAIN D, q): IsPrefix(r, x)
      BY <1>1, <1>2, <2>2 DEF Stepwise
    <3>2. r \in DOMAIN D /\ r # ROOT /\ Front(r) = q
      BY <3>1 DEF Kids, ROOT
    <3>3. D[q] \in {Array, Object}
      BY <3>2 DEF Whole, Fits, ROOT
    <3>4. w.at[r] \in 1..w.count[q] /\ w.at[r] \in Nat /\ w.count[q] \in Nat
      BY <1>1, <3>2 DEF Ordered
    <3>5. w.at[r] <= j
      BY <3>3, <3>4
    <3>6. Passed(D, w, q, j, r)
      BY <3>2, <3>5 DEF Passed
    <3>7. Covered(D, tr, r)
      BY <3>2, <3>6 DEF Filled
    <3>. QED  BY <3>1, <3>7 DEF Covered
  <2>. QED  BY <2>1, <2>2
<1>. QED  BY <1>1, <1>2 DEF Covered

LEMMA ReturnFilled ==
  ASSUME NEW D, NEW w, Whole(D), Ordered(D, w), Stepwise(DOMAIN D), NEW tr, NEW q \in DOMAIN tr,
         NEW j \in Nat, Filled(D, w, tr, q, j), D[q] \in {Array, Object} => j = w.count[q], q # ROOT
  PROVE  Filled(D, w, tr, Front(q), w.at[q])
<1>1. q \in DOMAIN D /\ Covered(D, tr, q)
  BY AllCovered
<1>2. ASSUME NEW r \in DOMAIN D, Passed(D, w, Front(q), w.at[q], r) PROVE Covered(D, tr, r)
  <2>1. r = q \/ Passed(D, w, q, j, r)
    BY <1>1, <1>2, PassedUp
  <2>. QED  BY <1>1, <2>1 DEF Filled
<1>. QED  BY <1>2 DEF Filled

\* Comments do not count.
Alike(new, tr) == DOMAIN new = DOMAIN tr /\ \A p \in DOMAIN tr: new[p].value = tr[p].value

LEMMA AlikeFilled ==
  ASSUME NEW D, NEW w, NEW tr, NEW new, Alike(new, tr), NEW nd, NEW j
  PROVE  /\ Filled(D, w, tr, nd, j) => Filled(D, w, new, nd, j)
         /\ Opened(D, w, tr, nd) => Opened(D, w, new, nd)
<1>1. DOMAIN new = DOMAIN tr /\ \A p \in DOMAIN tr: new[p].value = tr[p].value
  BY DEF Alike
<1>2. \A q: Covered(D, tr, q) => Covered(D, new, q)
  BY <1>1 DEF Covered
<1>. QED  BY <1>1, <1>2 DEF Filled, Opened

LEMMA HeadAndTail ==
  ASSUME NEW A, NEW x \in A, NEW r \in Seq(A)
  PROVE  /\ <<x>> \o r \in Seq(A) /\ <<x>> \o r # <<>>
         /\ Head(<<x>> \o r) = x /\ Tail(<<x>> \o r) = r
<1>. DEFINE s == <<x>> \o r
            one == <<x>>
<1>1. one \in Seq(A) /\ Len(one) = 1 /\ one[1] = x
  OBVIOUS
<1>2. Len(r) \in Nat
  OBVIOUS
<1>. HIDE DEF one
<1>3. /\ s \in Seq(A) /\ Len(s) = Len(r) + 1
      /\ \A i \in 1..Len(one): s[i] = one[i]
      /\ \A i \in 1..Len(r): s[1 + i] = r[i]
  <2>. DEFINE z == one \o r
  <2>1. /\ one \o r \in Seq(A) /\ Len(one \o r) = Len(one) + Len(r)
        /\ \A i \in 1..Len(one) + Len(r): (one \o r)[i] = IF i <= Len(one) THEN one[i] ELSE r[i - Len(one)]
    BY <1>1, ConcatProperties, Zenon
  <2>2. s = z
    BY DEF one
  <2>3. /\ z \in Seq(A) /\ Len(z) = 1 + Len(r)
        /\ \A i \in 1..1 + Len(r): z[i] = IF i <= 1 THEN one[i] ELSE r[i - 1]
    BY <1>1, <2>1
  <2>. HIDE DEF z, s
  <2>. QED  BY <1>1, <1>2, <2>2, <2>3
<1>. HIDE DEF s
<1>4. s # <<>> /\ s[1] = x
  <2>1. s[1] = x
    BY <1>1, <1>3
  <2>2. Len(s) # 0
    BY <1>2, <1>3
  <2>. QED  BY <1>3, <2>1, <2>2, EmptySeq
<1>5. Head(s) = x
  BY <1>3, <1>4, HeadTailProperties
<1>6. /\ Tail(s) \in Seq(A) /\ Len(Tail(s)) = Len(s) - 1
      /\ \A i \in 1..Len(s) - 1: Tail(s)[i] = s[i + 1]
  BY <1>3, <1>4, HeadTailProperties
<1>7. Tail(s) = r
  <2>1. Len(Tail(s)) = Len(r) /\ \A i \in 1..Len(r): Tail(s)[i] = r[i]
    BY <1>2, <1>3, <1>6
  <2>. QED  BY <1>6, <2>1, SeqEqual
<1>. QED  BY <1>3, <1>4, <1>5, <1>7 DEF s

\* The next token is the first of the script.
LEMMA HeadIsRead ==
  ASSUME NEW A, NEW x \in A, NEW r \in Seq(A), given, script = <<x>> \o r, NEW t \in Offered, Read(t)
  PROVE  t = x /\ script' = r
<1>1. script # <<>> /\ Head(script) = x /\ Tail(script) = r
  BY HeadAndTail
<1>. QED  BY <1>1 DEF Offered, Read

\* Before the token x there may be comments.
Proceeds(m, t, s, x, r) ==
  \/ t = WrittenComment /\ m # "strict" /\ \E c \in Remarks(m): s = c \o (<<x>> \o r)
  \/ t = x /\ s = r

LEMMA NextToken ==
  ASSUME NEW m, NEW A, WrittenComment \in A, NEW c \in Remarks(m), NEW x \in A, NEW r \in Seq(A),
         given, script = c \o (<<x>> \o r), NEW t \in Offered, Read(t)
  PROVE  Proceeds(m, t, script', x, r)
<1>. DEFINE rest == <<x>> \o r
<1>1. rest \in Seq(A)
  BY HeadAndTail
<1>2. CASE c = <<>>
  <2>1. script = <<x>> \o r
    BY <1>1, <1>2, ConcatEmptySeq
  <2>. QED  BY <2>1, HeadIsRead, Zenon DEF Proceeds
<1>3. CASE c # <<>>
  <2>1. m # "strict" /\ c \in Seq({WrittenComment})
    BY <1>3 DEF Remarks
  <2>2. PICK d \in Seq({WrittenComment}): c = <<WrittenComment>> \o d
    <3>1. /\ Head(c) \in {WrittenComment} /\ Tail(c) \in Seq({WrittenComment})
          /\ <<Head(c)>> \o Tail(c) = c
      BY <1>3, <2>1, HeadTailProperties
    <3>2. Head(c) = WrittenComment
      BY <3>1
    <3>. QED  BY <3>1, <3>2, Zenon
  <2>3. d \in Remarks(m)
    BY <2>1 DEF Remarks
  <2>4. d \in Seq(A) /\ <<WrittenComment>> \in Seq(A)
    BY <2>3, RemarksAre
  <2>. HIDE DEF rest
  <2>5. Associated(<<WrittenComment>>, d, rest)
    BY <1>1, <2>4, AssociatedIs, Zenon
  <2>6. script = <<WrittenComment>> \o (d \o rest)
    BY <2>2, <2>5, Zenon DEF Associated, rest
  <2>7. d \o rest \in Seq(A)
    BY <1>1, <2>4, ConcatProperties
  <2>8. t = WrittenComment /\ script' = d \o rest
    BY <2>6, <2>7, HeadIsRead, Zenon
  <2>. QED  BY <2>1, <2>3, <2>8, Zenon DEF Proceeds, rest
<1>. QED  BY <1>2, <1>3

\* After the last token there may be comments.
LEMMA LastTokens ==
  ASSUME NEW m, script \in Remarks(m), given, NEW t \in Offered, Read(t)
  PROVE  \/ t = WrittenComment /\ m # "strict" /\ script' \in Remarks(m)
         \/ t = EOS
<1>1. CASE script = <<>>
  BY <1>1 DEF Offered
<1>2. CASE script # <<>>
  <2>1. m # "strict" /\ script \in Seq({WrittenComment})
    BY <1>2 DEF Remarks
  <2>2. Head(script) \in {WrittenComment} /\ Tail(script) \in Seq({WrittenComment})
    BY <1>2, <2>1, HeadTailProperties
  <2>. QED  BY <1>2, <2>1, <2>2 DEF Offered, Read, Remarks
<1>. QED  BY <1>1, <1>2

\* A comment that a writer writes changes no value.
LEMMA CommentAlike ==
  ASSUME NEW tr, AddComment(WrittenComment, tr)
  PROVE  tree' = tr
BY DEF AddComment, WrittenComment

\* A scalar is read as it was written.
LEMMA ScalarSame ==
  ASSUME NEW v, Storable(v), v \notin {Array, Object, Infinity}
  PROVE  LET t == ScalarText(v)
         IN t.type \in ScalarTypes /\ Scalar(t) # Failed /\ Same(Scalar(t), v)
<1>1. /\ ScalarText(v).type \in ScalarTypes /\ Scalar(ScalarText(v)) # Failed
      /\ Integral(Scalar(ScalarText(v))) = Integral(v)
  BY ReadBack
<1>2. v = Null => Scalar(ScalarText(v)) = v
  BY DEF Null, ScalarText, Scalar
<1>3. v \in Unpacked => v = Null
  BY DEF Unpacked
<1>. QED  BY <1>1, <1>2, <1>3 DEF Same

\* The containers that were written are those that were read.
LEMMA SameKind ==
  ASSUME NEW v, NEW d, Storable(d), Same(v, d)
  PROVE  /\ v.type = "array" => d = Array
         /\ v.type = "object" => d = Object
<1>1. CASE d \in Unpacked
  BY <1>1 DEF Same, Unpacked, Null, Array, Object
<1>2. CASE d \notin Unpacked
  <2>1. SUFFICES ASSUME v.type \in {"array", "object"} PROVE FALSE
    OBVIOUS
  <2>2. Integral(v) = v
    BY <2>1 DEF Integral
  <2>3. Integral(d) = v
    BY <2>2 DEF Same
  <2>4. d.type # "array" /\ d.type # "object"
    BY <1>2, ContainerIs DEF Unpacked
  <2>5. CASE d.type # "uint"
    BY <2>1, <2>3, <2>4, <2>5 DEF Integral
  <2>6. CASE d.type = "uint"
    <3>1. d = [type |-> "uint", num |-> d.num]
      BY <2>6 DEF Storable, Null, Array, Object, Bool, Infinity
    <3>2. Integral(d) = [type |-> "int", num |-> d.num]
      <4>1. Integral(d) = [d EXCEPT !.type = "int"]
        BY <2>6 DEF Integral
      <4>. QED  BY <3>1, <4>1
    <3>3. Integral(d).type = "int"
      BY <3>2
    <3>. QED  BY <2>1, <2>3, <3>3
  <2>. QED  BY <2>5, <2>6
<1>. QED  BY <1>1, <1>2

-----------------------------------------------------------------------------
(* The reader reads what was written *)

\* Where the reader is in a text of D: s is what is left of it.
AtValue(m, D, w, s, nd, tr) ==
  Opened(D, w, tr, nd) /\ \E c \in Remarks(m): s = c \o w.begin[nd]

AtFirst(m, D, w, s, nd, tr) == Filled(D, w, tr, nd, 0) /\ Comes(m, D, w, nd, 0, s)

AtName(m, D, w, s, nd, tr, top) ==
  \E j \in Nat: /\ Filled(D, w, tr, nd, j) /\ Comes(m, D, w, nd, j, s)
                /\ w.count[nd] = 0 => j = 0 /\ top.name = <<>>

AtColon(D, w, s, nd, tr, top) ==
  \E q \in Kids(DOMAIN D, nd):
    /\ Filled(D, w, tr, nd, w.at[q] - 1)
    /\ Name(top.name) = q[Len(q)]
    /\ s = <<T("memberSeparator")>> \o w.begin[q]

AtItem(m, D, w, s, nd, tr) ==
  \E q \in Kids(DOMAIN D, nd): Filled(D, w, tr, nd, w.at[q]) /\ Goes(m, D, w, nd, w.at[q], s)

AtElement(m, D, w, s, nd, tr, top) ==
  \E q \in Kids(DOMAIN D, nd): /\ Filled(D, w, tr, nd, w.at[q]) /\ Goes(m, D, w, nd, w.at[q], s)
                               /\ q[Len(q)] = Index(top.index)

AtEnd(m, D, w, s, nd, tr) ==
  /\ Filled(D, w, tr, nd, w.count[nd])
  /\ \E c \in Remarks(m): s = c \o (<<Ended(D[nd])>> \o w.end[nd])

AtTail(m, D, s, tr) ==
  /\ s \in Remarks(m)
  /\ DOMAIN tr = DOMAIN D /\ \A p \in DOMAIN D: Same(tr[p].value, D[p])

Stands(m, D, w, s, at, fs, nd, tr) ==
  \/ at = "value" /\ AtValue(m, D, w, s, nd, tr)
  \/ at = "first" /\ AtFirst(m, D, w, s, nd, tr)
  \/ at = "name" /\ AtName(m, D, w, s, nd, tr, fs[Len(fs)])
  \/ at = "colon" /\ AtColon(D, w, s, nd, tr, fs[Len(fs)])
  \/ at = "comma" /\ AtItem(m, D, w, s, nd, tr)
  \/ at = "separator" /\ AtElement(m, D, w, s, nd, tr, fs[Len(fs)])
  \/ at = "commented" /\ AtEnd(m, D, w, s, nd, tr)
  \/ at = "tail" /\ AtTail(m, D, s, tr)

\* The elements that are being read are those that the functions count.
Linked(nd, fs) == \A i \in 1..Len(nd): fs[i].kind = "array" => nd[i] = Index(fs[i].index)

OnTrack(m, D, w, s, at, fs, nd, tr) ==
  nd \in DOMAIN D /\ Linked(nd, fs) /\ Stands(m, D, w, s, at, fs, nd, tr)

\* What is to be written and how: no double of it is infinite.
Plan(m, D, w) ==
  /\ Whole(D) /\ Stepwise(DOMAIN D) /\ Written(m, D, w) /\ \A p \in DOMAIN D: D[p] # Infinity

LEMMA Leaves ==
  ASSUME NEW D, NEW w, Plan(mode, D, w), NEW N, NEW fs \in Seq(Frame(N)),
         NEW q, q \in DOMAIN tree', Len(q) = Len(fs), Linked(q, fs),
         NEW j \in Nat, Filled(D, w, tree', q, j), D[q] \in {Array, Object} => j = w.count[q],
         Return(q, fs, TRUE), script' = w.end[q]
  PROVE  OnTrack(mode, D, w, script', pc', frames', node', tree') /\ ok' = TRUE
<1>0. Whole(D) /\ Ordered(D, w) /\ Stepwise(DOMAIN D) /\ Written(mode, D, w)
  BY IsOrdered DEF Plan
<1>1. q \in DOMAIN D /\ q \in Seq(KeySet) /\ Covered(D, tree', q)
  BY <1>0, AllCovered, Zenon DEF Whole
<1>2. /\ frames' = fs /\ node' = Pop(q) /\ ok' = TRUE
      /\ pc' = IF fs = <<>> THEN "tail"
               ELSE IF fs[Len(fs)].kind = "object" THEN "comma" ELSE "separator"
  BY DEF Return
<1>3. CASE fs = <<>>
  <2>1. q = <<>>
    BY <1>1, <1>3, EmptySeq
  <2>2. node' = <<>> /\ pc' = "tail"
    BY <1>2, <1>3, <2>1 DEF Pop
  <2>3. node' \in DOMAIN D /\ Linked(node', frames')
    BY <1>1, <2>1, <2>2 DEF Linked
  <2>4. script' \in Remarks(mode)
    BY <1>0, <2>1 DEF Written, ROOT
  <2>5. DOMAIN tree' = DOMAIN D
    <3>1. ASSUME NEW x \in DOMAIN D PROVE x \in DOMAIN tree'
      <4>1. IsPrefix(<<>>, x)
        <5>1. x \in Seq(KeySet)
          BY <1>0 DEF Whole
        <5>. QED  BY <5>1, EmptyPrefix
      <4>. QED  BY <1>1, <2>1, <4>1 DEF Covered
    <3>. QED  BY <3>1, Zenon DEF Filled
  <2>6. AtTail(mode, D, script', tree')
    BY <2>4, <2>5 DEF AtTail, Filled
  <2>. QED  BY <1>2, <2>2, <2>3, <2>6 DEF OnTrack, Stands
<1>4. CASE fs # <<>>
  <2>1. Len(fs) >= 1 /\ q # <<>> /\ q # ROOT
    <3>1. Len(fs) >= 1
      BY <1>4, EmptySeq
    <3>2. Len(q) # 0
      BY <3>1
    <3>. QED  BY <1>1, <3>1, <3>2, EmptySeq DEF ROOT
  <2>2. node' = Front(q)
    BY <1>2, <2>1 DEF Pop, Front
  <2>3. Front(q) \in DOMAIN D /\ q \in Kids(DOMAIN D, Front(q))
    BY <1>0, <1>1, <2>1 DEF Whole, Kids
  <2>4. Filled(D, w, tree', Front(q), w.at[q])
    BY <1>0, <2>1, ReturnFilled
  <2>5. Goes(mode, D, w, Front(q), w.at[q], script')
    BY <1>0, <1>1, <2>1 DEF Written
  <2>6. Linked(node', frames')
    <3>1. /\ Len(Front(q)) = Len(q) - 1 /\ Len(q) \in Nat
          /\ \A i \in 1..Len(q) - 1: Front(q)[i] = q[i]
      BY <1>1, <2>1, FrontFacts
    <3>. QED  BY <1>2, <2>2, <3>1 DEF Linked
  <2>7. fs[Len(fs)].kind \in {"object", "array"}
    <3>1. fs[Len(fs)] \in Frame(N)
      BY <2>1
    <3>. QED  BY <3>1, FrameKinds
  <2>8. CASE fs[Len(fs)].kind = "object"
    <3>1. pc' = "comma"
      BY <1>2, <1>4, <2>8
    <3>2. AtItem(mode, D, w, script', Front(q), tree')
      BY <2>3, <2>4, <2>5 DEF AtItem
    <3>. QED  BY <1>2, <2>2, <2>3, <2>6, <3>1, <3>2 DEF OnTrack, Stands
  <2>9. CASE fs[Len(fs)].kind = "array"
    <3>1. pc' = "separator"
      BY <1>2, <1>4, <2>9
    <3>2. q[Len(q)] = Index(fs[Len(fs)].index)
      BY <2>1, <2>9 DEF Linked
    <3>3. AtElement(mode, D, w, script', Front(q), tree', fs[Len(fs)])
      BY <2>3, <2>4, <2>5, <3>2 DEF AtElement
    <3>. QED  BY <1>2, <2>2, <2>3, <2>6, <3>1, <3>3 DEF OnTrack, Stands
  <2>. QED  BY <2>7, <2>8, <2>9, Zenon
<1>. QED  BY <1>3, <1>4, Zenon

\* The first token of the Value at p, and what follows it.
Enters(m, D, w, p, x, r) ==
  IF D[p] \in {Array, Object} THEN x = Begun(D[p]) /\ Comes(m, D, w, p, 0, r)
  ELSE x = ScalarText(D[p]) /\ r = w.end[p]

LEMMA FirstToken ==
  ASSUME NEW m, NEW D, NEW w, Written(m, D, w), NEW p \in DOMAIN D
  PROVE  \E x \in TokensOf(D), r \in Seq(TokensOf(D)):
           w.begin[p] = <<x>> \o r /\ Enters(m, D, w, p, x, r)
<1>1. CASE D[p] \in {Array, Object}
  <2>1. PICK s \in Seq(TokensOf(D)): w.begin[p] = <<Begun(D[p])>> \o s /\ Comes(m, D, w, p, 0, s)
    BY <1>1, Zenon DEF Written
  <2>2. Begun(D[p]) \in TokensOf(D)
    BY TokensOfIs
  <2>. QED  BY <1>1, <2>1, <2>2, Zenon DEF Enters
<1>2. CASE D[p] \notin {Array, Object}
  <2>1. w.begin[p] = <<ScalarText(D[p])>> \o w.end[p] /\ w.end[p] \in Seq(TokensOf(D))
    BY <1>2, Zenon DEF Written
  <2>2. ScalarText(D[p]) \in TokensOf(D)
    BY TokensOfIs
  <2>. QED  BY <1>2, <2>1, <2>2 DEF Enters
<1>. QED  BY <1>1, <1>2, Zenon

\* A Value is read.
LEMMA ValueEntered ==
  ASSUME NEW D, NEW w, Plan(mode, D, w), NEW N, NEW fs \in Seq(Frame(N)), NEW tr, NEW K,
         DOMAIN tr \subseteq Seq(K), Nodes(tr), NEW path \in DOMAIN tr, path \in DOMAIN D,
         Len(path) = Len(fs), Linked(path, fs), Opened(D, w, tr, path),
         NEW t, Enters(mode, D, w, path, t, script'), ReadValue(t, path, tr, fs), ok = TRUE
  PROVE  OnTrack(mode, D, w, script', pc', frames', node', tree') /\ ok' = TRUE
<1>0. Whole(D) /\ Ordered(D, w) /\ Stepwise(DOMAIN D) /\ Written(mode, D, w) /\ D[path] # Infinity
  BY IsOrdered DEF Plan
<1>. DEFINE commented == IF collect /\ before THEN With(tr, path, "before") ELSE tr
<1>1. Alike(commented, tr) /\ Nodes(commented)
  <2>1. CASE collect /\ before
    <3>1. /\ DOMAIN With(tr, path, "before") = DOMAIN tr
          /\ \A p \in DOMAIN tr: With(tr, path, "before")[p].value = tr[p].value
          /\ Nodes(With(tr, path, "before"))
      BY WithValue
    <3>. QED  BY <2>1, <3>1 DEF Alike
  <2>2. CASE ~(collect /\ before)
    BY <2>2 DEF Alike
  <2>. QED  BY <2>1, <2>2
<1>2. /\ t.type \in {"objectBegin", "arrayBegin"} =>
           /\ tree' = Assign(commented, path, IF t.type = "objectBegin" THEN Object ELSE Array)
           /\ frames' = Append(fs, IF t.type = "objectBegin" THEN [kind |-> "object", name |-> <<>>]
                                   ELSE [kind |-> "array", index |-> 0])
           /\ pc' = IF t.type = "objectBegin" THEN "name" ELSE "first"
           /\ node' = path /\ ok' = ok
      /\ t.type \in ScalarTypes /\ Scalar(t) # Failed =>
           tree' = Assign(commented, path, Scalar(t)) /\ Return(path, fs, TRUE)
  BY Zenon DEF ReadValue, ScalarTypes
<1>. HIDE DEF commented
<1>3. DOMAIN commented = DOMAIN tr /\ Opened(D, w, commented, path)
  BY <1>1, AlikeFilled, Zenon DEF Alike
<1>4. \A v: Same(v, D[path]) => Filled(D, w, Assign(commented, path, v), path, 0)
  <2>. SUFFICES ASSUME NEW v, Same(v, D[path])
                PROVE  Filled(D, w, Assign(commented, path, v), path, 0)
    OBVIOUS
  <2>. QED  BY <1>0, <1>1, <1>3, OpenedAssigned
<1>5. CASE D[path] \in {Array, Object}
  <2>1. t = Begun(D[path]) /\ Comes(mode, D, w, path, 0, script')
    BY <1>5 DEF Enters
  <2>2. \/ D[path] = Array /\ t.type = "arrayBegin"
        \/ D[path] = Object /\ t.type = "objectBegin"
    <3>1. Array # Object
      BY DEF Array, Object
    <3>2. T("arrayBegin").type = "arrayBegin" /\ T("objectBegin").type = "objectBegin"
      BY DEF T
    <3>. QED  BY <1>5, <2>1, <3>1, <3>2 DEF Begun
  <2>3. tree' = Assign(commented, path, D[path]) /\ node' = path /\ ok' = TRUE
    BY <1>2, <2>2, Zenon
  <2>4. Filled(D, w, tree', path, 0)
    BY <1>4, <2>3 DEF Same
  <2>. DEFINE frame == IF D[path] = Array THEN [kind |-> "array", index |-> 0]
                       ELSE [kind |-> "object", name |-> <<>>]
  <2>5. frames' = Append(fs, frame) /\ pc' = IF D[path] = Array THEN "first" ELSE "name"
    <3>1. Array # Object /\ "arrayBegin" # "objectBegin"
      BY DEF Array, Object
    <3>2. CASE D[path] = Array
      BY <1>2, <2>2, <3>1, <3>2, Zenon
    <3>3. CASE D[path] # Array
      BY <1>2, <2>2, <3>1, <3>3, Zenon
    <3>. QED  BY <3>2, <3>3
  <2>6. D[path] # Array => frame.name = <<>>
    OBVIOUS
  <2>. HIDE DEF frame
  <2>7. /\ Len(frames') = Len(fs) + 1 /\ frames'[Len(frames')] = frame
        /\ \A i \in 1..Len(fs): frames'[i] = fs[i]
    BY <2>5, AppendProperties
  <2>8. Linked(path, frames')
    BY <2>7 DEF Linked
  <2>9. CASE D[path] = Array
    <3>1. AtFirst(mode, D, w, script', path, tree')
      BY <2>1, <2>4 DEF AtFirst
    <3>. QED  BY <2>3, <2>5, <2>8, <2>9, <3>1 DEF OnTrack, Stands
  <2>10. CASE D[path] # Array
    <3>1. AtName(mode, D, w, script', path, tree', frames'[Len(frames')])
      BY <2>1, <2>4, <2>6, <2>7, <2>10 DEF AtName
    <3>. QED  BY <2>3, <2>5, <2>8, <2>10, <3>1 DEF OnTrack, Stands
  <2>. QED  BY <2>9, <2>10, Zenon
<1>6. CASE D[path] \notin {Array, Object}
  <2>1. t = ScalarText(D[path]) /\ script' = w.end[path]
    BY <1>6 DEF Enters
  <2>2. t.type \in ScalarTypes /\ Scalar(t) # Failed /\ Same(Scalar(t), D[path])
    <3>1. Storable(D[path]) /\ D[path] \notin {Array, Object, Infinity}
      BY <1>0, <1>6 DEF Whole
    <3>. QED  BY <2>1, <3>1, ScalarSame
  <2>3. tree' = Assign(commented, path, Scalar(t)) /\ Return(path, fs, TRUE)
    BY <1>2, <2>2, Zenon
  <2>4. Filled(D, w, tree', path, 0)
    BY <1>4, <2>2, <2>3
  <2>5. path \in DOMAIN tree'
    <3>1. path \in DOMAIN commented
      BY <1>3
    <3>2. Assigned(Assign(commented, path, Scalar(t)), commented, path, Scalar(t))
      BY <1>1, <3>1, AssignIs
    <3>. QED  BY <2>3, <3>2 DEF Assigned
  <2>. QED  BY <1>6, <2>1, <2>3, <2>4, <2>5, Leaves, Zenon
<1>. QED  BY <1>5, <1>6, Zenon

\* The reader reads what was written as D.
Tracked(D, w) ==
  given = TRUE /\ ok = TRUE /\ Plan(mode, D, w) /\ OnTrack(mode, D, w, script, pc, frames, node, tree)

Onward(D, w) == OnTrack(mode, D, w, script', pc', frames', node', tree') /\ ok' = TRUE

Inner(N, K) == Position(N) /\ Good(K, tree, node, frames, last)

LEMMA TrackedFacts ==
  ASSUME NEW D, NEW w, Tracked(D, w), NEW N, NEW K, Inner(N, K)
  PROVE  /\ given /\ ok = TRUE /\ Whole(D) /\ Ordered(D, w) /\ Written(mode, D, w) /\ Plan(mode, D, w)
         /\ WrittenComment \in TokensOf(D)
         /\ node \in DOMAIN D /\ node \in DOMAIN tree /\ Nodes(tree) /\ DOMAIN tree \subseteq Seq(K)
         /\ frames \in Seq(Frame(N)) /\ Linked(node, frames) /\ node \in Seq(KeySet)
         /\ w.begin \in [DOMAIN D -> Seq(TokensOf(D))] /\ w.end \in [DOMAIN D -> Seq(TokensOf(D))]
<1>1. given /\ ok = TRUE /\ Plan(mode, D, w) /\ node \in DOMAIN D /\ Linked(node, frames)
  BY DEF Tracked, OnTrack
<1>2. Whole(D) /\ Written(mode, D, w) /\ Ordered(D, w)
  BY <1>1, IsOrdered DEF Plan
<1>3. node \in DOMAIN tree /\ Nodes(tree) /\ frames \in Seq(Frame(N)) /\ DOMAIN tree \subseteq Seq(K)
  BY DEF Inner, Good, Position, Nodes
<1>4. w.begin \in [DOMAIN D -> Seq(TokensOf(D))] /\ w.end \in [DOMAIN D -> Seq(TokensOf(D))]
  BY <1>2 DEF Written
<1>5. node \in Seq(KeySet)
  BY <1>1, <1>2 DEF Whole
<1>. QED  BY <1>1, <1>2, <1>3, <1>4, <1>5, TokensOfIs

\* The Value that is being filled is one of those that were written as containers.
LEMMA FilledKind ==
  ASSUME NEW D, NEW w, Tracked(D, w), NEW N, NEW K, Inner(N, K),
         pc \notin {"value", "tail", "done"}, NEW j, Filled(D, w, tree, node, j)
  PROVE  /\ Len(frames) \in Nat /\ Len(frames) >= 1 /\ Len(node) = Len(frames) - 1
         /\ frames # <<>> /\ Top \in Frame(N)
         /\ ~Is(tree, node, "null")
         /\ Top.kind = "array" => D[node] = Array
         /\ Top.kind = "object" => D[node] = Object
<1>1. Len(frames) >= 1 /\ Len(node) = Len(frames) - 1 /\ frames \in Seq(Frame(N)) /\ node \in Seq(K)
  BY DEF Inner, Position, Good
<1>2. frames # <<>> /\ Len(frames) \in Nat /\ Len(frames) \in 1..Len(frames)
  BY <1>1, EmptySeq
<1>3. Top \in Frame(N) /\ Top.kind \in {"object", "array"}
  <2>1. Top \in Frame(N)
    BY <1>1, <1>2 DEF Top
  <2>. QED  BY <2>1, FrameKinds
<1>4. SubSeq(node, 1, Len(frames) - 1) = node
  BY <1>1, SubSeqFull
<1>5. tree[node].value.type = Top.kind
  BY <1>2, <1>4, Zenon DEF Inner, Good, Top
<1>6. node \in DOMAIN tree /\ node \in DOMAIN D /\ Storable(D[node])
  BY TrackedFacts, Zenon DEF Whole
<1>7. Same(tree[node].value, D[node])
  BY <1>6 DEF Filled
<1>8. /\ Top.kind = "array" => D[node] = Array
      /\ Top.kind = "object" => D[node] = Object
  BY <1>5, <1>6, <1>7, SameKind
<1>9. ~Is(tree, node, "null")
  BY <1>3, <1>5 DEF Is
<1>. QED  BY <1>1, <1>2, <1>3, <1>8, <1>9

\* The container ends.
LEMMA ContainerLeft ==
  ASSUME NEW D, NEW w, Tracked(D, w), NEW N, NEW K, Inner(N, K),
         pc \notin {"value", "tail", "done"}, Filled(D, w, tree, node, w.count[node]),
         ReturnContainer(TRUE), UNCHANGED tree, script' = w.end[node]
  PROVE  Onward(D, w)
<1>1. /\ Plan(mode, D, w) /\ frames \in Seq(Frame(N)) /\ node \in DOMAIN tree' /\ Linked(node, frames)
      /\ w.count[node] \in Nat
  <2>1. /\ Plan(mode, D, w) /\ Ordered(D, w) /\ frames \in Seq(Frame(N)) /\ node \in DOMAIN tree
        /\ Linked(node, frames) /\ node \in DOMAIN D
    BY TrackedFacts, Zenon
  <2>2. w.count[node] \in Nat
    BY <2>1 DEF Ordered
  <2>. QED  BY <2>1, <2>2
<1>2. Len(frames) \in Nat /\ Len(frames) >= 1 /\ Len(node) = Len(frames) - 1 /\ frames # <<>>
  BY FilledKind
<1>3. /\ Pop(frames) \in Seq(Frame(N)) /\ Len(Pop(frames)) = Len(frames) - 1
      /\ \A i \in 1..Len(frames) - 1: Pop(frames)[i] = frames[i]
  <2>1. /\ Pop(frames) \in Seq(Frame(N)) /\ Len(Pop(frames)) = Len(frames) - 1
        /\ \A i \in 1..Len(frames) - 1: Pop(frames)[i] = frames[i]
    BY <1>1, <1>2, Popped
  <2>. QED  BY <2>1
<1>4. Linked(node, Pop(frames)) /\ Len(node) = Len(Pop(frames))
  BY <1>1, <1>2, <1>3 DEF Linked
<1>5. Return(node, Pop(frames), TRUE)
  BY Zenon DEF ReturnContainer
<1>6. Filled(D, w, tree', node, w.count[node])
  OBVIOUS
<1>. QED  BY <1>1, <1>3, <1>4, <1>5, <1>6, Leaves, Zenon DEF Onward

LEMMA EnteredType ==
  ASSUME NEW m, NEW D, NEW w, Plan(m, D, w), NEW p \in DOMAIN D, NEW x, NEW r,
         Enters(m, D, w, p, x, r)
  PROVE  x.type \in {"objectBegin", "arrayBegin"} \cup ScalarTypes
<1>1. CASE D[p] \in {Array, Object}
  BY <1>1 DEF Enters, Begun, T
<1>2. CASE D[p] \notin {Array, Object}
  <2>1. Storable(D[p]) /\ D[p] # Infinity
    BY DEF Plan, Whole
  <2>2. ScalarText(D[p]).type \in ScalarTypes
    BY <1>2, <2>1, ScalarSame
  <2>. QED  BY <1>2, <2>2 DEF Enters
<1>. QED  BY <1>1, <1>2

LEMMA ValueTracked ==
  ASSUME NEW D, NEW w, Tracked(D, w), NEW N, NEW K, Inner(N, K), Value
  PROVE  Onward(D, w)
<1>1. /\ given /\ ok = TRUE /\ Whole(D) /\ Ordered(D, w) /\ Written(mode, D, w) /\ Plan(mode, D, w)
      /\ WrittenComment \in TokensOf(D)
      /\ node \in DOMAIN D /\ node \in DOMAIN tree /\ Nodes(tree) /\ DOMAIN tree \subseteq Seq(K)
      /\ frames \in Seq(Frame(N)) /\ Linked(node, frames)
  BY TrackedFacts, Zenon
<1>2. pc = "value" /\ Len(node) = Len(frames)
  BY DEF Value, Inner, Position
<1>3. AtValue(mode, D, w, script, node, tree)
  BY <1>2 DEF Tracked, OnTrack, Stands
<1>4. PICK c \in Remarks(mode): script = c \o w.begin[node]
  BY <1>3, Zenon DEF AtValue
<1>5. PICK x \in TokensOf(D), r \in Seq(TokensOf(D)):
        w.begin[node] = <<x>> \o r /\ Enters(mode, D, w, node, x, r)
  BY <1>1, FirstToken, Zenon
<1>6. PICK t \in Offered: /\ Read(t)
                          /\ IF t.type = "comment" /\ allowComments THEN Skip(t)
                             ELSE ReadValue(t, node, tree, frames)
  BY DEF Value
<1>7. script = c \o (<<x>> \o r)
  BY <1>4, <1>5
<1>8. Proceeds(mode, t, script', x, r)
  BY <1>1, <1>6, <1>7, NextToken, Zenon
<1>9. ASSUME t = WrittenComment, mode # "strict", NEW d \in Remarks(mode), script' = d \o (<<x>> \o r)
      PROVE  Onward(D, w)
  <2>1. Skip(t)
    BY <1>6, <1>9 DEF WrittenComment, allowComments
  <2>2. UNCHANGED <<pc, frames, node, ok, tree>>
    BY <1>9, <2>1, CommentAlike DEF Skip
  <2>3. AtValue(mode, D, w, script', node, tree)
    <3>1. script' = d \o w.begin[node]
      BY <1>5, <1>9, Zenon
    <3>. QED  BY <1>3, <1>9, <3>1, Zenon DEF AtValue
  <2>. QED  BY <1>1, <1>2, <2>2, <2>3 DEF Onward, OnTrack, Stands
<1>10. ASSUME t = x, script' = r PROVE Onward(D, w)
  <2>1. Enters(mode, D, w, node, t, script')
    BY <1>5, <1>10, Zenon
  <2>2. t.type # "comment"
    BY <1>1, <2>1, EnteredType DEF ScalarTypes
  <2>3. ReadValue(t, node, tree, frames)
    BY <1>6, <2>2
  <2>4. Opened(D, w, tree, node)
    BY <1>3 DEF AtValue
  <2>. QED  BY <1>1, <1>2, <2>1, <2>3, <2>4, ValueEntered, Zenon DEF Onward
<1>. QED  BY <1>8, <1>9, <1>10, Zenon DEF Proceeds

LEMMA PairIs ==
  ASSUME NEW A, NEW x \in A, NEW y \in A
  PROVE  <<x, y>> = <<x>> \o <<y>>
<1>. DEFINE u == <<x>>
            v == <<y>>
            both == <<x, y>>
<1>1. /\ u \in Seq(A) /\ Len(u) = 1 /\ u[1] = x
      /\ v \in Seq(A) /\ Len(v) = 1 /\ v[1] = y
      /\ both \in Seq(A) /\ Len(both) = 2 /\ both[1] = x /\ both[2] = y
  OBVIOUS
<1>. HIDE DEF u, v, both
<1>2. /\ u \o v \in Seq(A) /\ Len(u \o v) = Len(u) + Len(v)
      /\ \A i \in 1..Len(u) + Len(v): (u \o v)[i] = IF i <= Len(u) THEN u[i] ELSE v[i - Len(u)]
  BY <1>1, ConcatProperties
<1>. DEFINE z == u \o v
<1>3. z \in Seq(A) /\ Len(z) = 2 /\ \A i \in 1..2: z[i] = IF i <= 1 THEN u[i] ELSE v[i - 1]
  BY <1>1, <1>2
<1>. HIDE DEF z
<1>4. z[1] = u[1] /\ z[2] = v[1]
  BY <1>3
<1>5. \A i \in 1..2: z[i] = both[i]
  BY <1>1, <1>4
<1>6. z = both
  BY <1>1, <1>3, <1>5, SeqEqual
<1>. QED  BY <1>6, Zenon DEF z, u, v, both

\* The label of a member.
LabelFits(D, q, b) ==
  /\ q[Len(q)] = [name |-> q[Len(q)].name] /\ q[Len(q)].name \in Seq(Int \ {0})
  /\ StringText(q[Len(q)].name) \in TokensOf(D)
  /\ <<T("memberSeparator")>> \o b \in Seq(TokensOf(D))
  /\ Label(D, q) \o b = <<StringText(q[Len(q)].name)>> \o (<<T("memberSeparator")>> \o b)

LEMMA LabelIs ==
  ASSUME NEW D, Whole(D), NEW nd, D[nd] = Object, NEW q \in Kids(DOMAIN D, nd),
         NEW b \in Seq(TokensOf(D))
  PROVE  LabelFits(D, q, b)
<1>. DEFINE x == StringText(q[Len(q)].name)
            y == T("memberSeparator")
            A == TokensOf(D)
<1>1. q \in DOMAIN D /\ Front(q) = nd /\ q # <<>>
  BY DEF Kids
<1>2. Fits(Object, q[Len(q)])
  BY <1>1 DEF Whole
<1>3. q[Len(q)] = [name |-> q[Len(q)].name] /\ q[Len(q)].name \in Seq(Int \ {0})
  <2>1. Array # Object
    BY DEF Array, Object
  <2>. QED  BY <1>2, <2>1 DEF Fits
<1>4. x \in A /\ y \in A
  <2>1. x \in {StringText(p[Len(p)].name): p \in DOMAIN D}
    BY <1>1
  <2>. HIDE DEF x
  <2>2. x \in A
    BY <2>1, Zenon DEF TokensOf
  <2>3. y \in A
    BY Zenon DEF TokensOf
  <2>. QED  BY <2>2, <2>3
<1>5. Label(D, q) = <<x, y>>
  BY <1>1 DEF Label
<1>. HIDE DEF x, y, A
<1>6. <<x, y>> = <<x>> \o <<y>> /\ <<x>> \in Seq(A) /\ <<y>> \in Seq(A)
  <2>1. <<x>> \in Seq(A) /\ <<y>> \in Seq(A)
    BY <1>4
  <2>2. <<x, y>> = <<x>> \o <<y>>
    BY <1>4, PairIs
  <2>. QED  BY <2>1, <2>2
<1>7. Associated(<<x>>, <<y>>, b)
  <2>1. b \in Seq(A)
    BY DEF A
  <2>. QED  BY <1>6, <2>1, AssociatedIs, Zenon
<1>8. Label(D, q) \o b = <<x>> \o (<<y>> \o b)
  BY <1>5, <1>6, <1>7, Zenon DEF Associated
<1>9. <<y>> \o b \in Seq(A)
  BY <1>6, ConcatProperties DEF A
<1>. QED  BY <1>3, <1>4, <1>8, <1>9, Zenon DEF LabelFits, x, y, A

LEMMA SkipOn ==
  ASSUME NEW D, NEW w, Tracked(D, w), Skip(WrittenComment),
         Stands(mode, D, w, script', pc, frames, node, tree)
  PROVE  Onward(D, w)
<1>1. UNCHANGED <<pc, frames, node, ok, tree>>
  BY CommentAlike DEF Skip
<1>. QED  BY <1>1 DEF Tracked, Onward, OnTrack

LEMMA NameTracked ==
  ASSUME NEW D, NEW w, Tracked(D, w), NEW N, NEW K, Inner(N, K), NameOrEnd
  PROVE  Onward(D, w)
<1>1. /\ given /\ ok = TRUE /\ Whole(D) /\ Ordered(D, w) /\ Written(mode, D, w) /\ Plan(mode, D, w)
      /\ WrittenComment \in TokensOf(D)
      /\ node \in DOMAIN D /\ node \in DOMAIN tree /\ Nodes(tree) /\ DOMAIN tree \subseteq Seq(K)
      /\ frames \in Seq(Frame(N)) /\ Linked(node, frames) /\ node \in Seq(KeySet)
      /\ w.begin \in [DOMAIN D -> Seq(TokensOf(D))] /\ w.end \in [DOMAIN D -> Seq(TokensOf(D))]
  BY TrackedFacts, Zenon
<1>2. pc = "name" /\ Top.kind = "object"
  BY DEF NameOrEnd, Inner, Position
<1>3. AtName(mode, D, w, script, node, tree, Top)
  BY <1>2 DEF Tracked, OnTrack, Stands, Top
<1>4. PICK j \in Nat: /\ Filled(D, w, tree, node, j) /\ Comes(mode, D, w, node, j, script)
                      /\ w.count[node] = 0 => j = 0 /\ Top.name = <<>>
  BY <1>3 DEF AtName
<1>5. /\ Len(frames) \in Nat /\ Len(frames) >= 1 /\ Len(node) = Len(frames) - 1 /\ frames # <<>>
      /\ Top \in Frame(N) /\ D[node] = Object
  BY <1>2, <1>4, FilledKind
<1>6. PICK t \in Offered:
        /\ Read(t)
        /\ IF t.type = "comment" THEN Skip(t)
           ELSE IF t.type = "objectEnd" /\ Top.name = <<>>
           THEN ReturnContainer(TRUE) /\ UNCHANGED <<tree, before, errors>>
           ELSE IF t.type = "string" /\ DecodeString(t) # Failed
           THEN /\ frames' = [frames EXCEPT ![Len(frames)].name = DecodeString(t).text]
                /\ pc' = "colon"
                /\ UNCHANGED <<node, tree, before, last, errors, ok>>
           ELSE AddErrorAndRecover
  BY Zenon DEF NameOrEnd
<1>7. CASE w.count[node] = 0 /\ script = <<Ended(D[node])>> \o w.end[node]
  <2>1. Ended(D[node]) \in TokensOf(D) /\ w.end[node] \in Seq(TokensOf(D))
    BY <1>1, TokensOfIs
  <2>2. t = Ended(D[node]) /\ script' = w.end[node]
    <3>1. given /\ Read(t) /\ script = <<Ended(D[node])>> \o w.end[node]
      BY <1>1, <1>6, <1>7, Zenon
    <3>. QED  BY <2>1, <3>1, HeadIsRead
  <2>3. t.type = "objectEnd"
    <3>1. Array # Object
      BY DEF Array, Object
    <3>. QED  BY <1>5, <2>2, <3>1 DEF Ended, T
  <2>4. ReturnContainer(TRUE) /\ UNCHANGED tree
    BY <1>4, <1>6, <1>7, <2>3, Zenon
  <2>5. Filled(D, w, tree, node, w.count[node])
    BY <1>4, <1>7
  <2>. QED  BY <1>2, <2>2, <2>4, <2>5, ContainerLeft, Zenon
<1>8. ASSUME NEW q \in Kids(DOMAIN D, node), NEW c \in Remarks(mode), w.at[q] = j + 1,
             script = c \o (Label(D, q) \o w.begin[q])
      PROVE  Onward(D, w)
  <2>. DEFINE x == StringText(q[Len(q)].name)
              r == <<T("memberSeparator")>> \o w.begin[q]
  <2>1. q \in DOMAIN D /\ w.begin[q] \in Seq(TokensOf(D))
    BY <1>1 DEF Kids
  <2>2. /\ q[Len(q)] = [name |-> q[Len(q)].name] /\ q[Len(q)].name \in Seq(Int \ {0})
        /\ x \in TokensOf(D) /\ r \in Seq(TokensOf(D))
        /\ Label(D, q) \o w.begin[q] = <<x>> \o r
    <3>1. LabelFits(D, q, w.begin[q])
      BY <1>1, <1>5, <2>1, LabelIs
    <3>. QED  BY <3>1, Zenon DEF LabelFits
  <2>3. x.type = "string" /\ DecodeString(x) = [type |-> "string", text |-> q[Len(q)].name]
    <3>1. q[Len(q)].name \in Seq(Int)
      BY <2>2
    <3>. QED  BY <3>1, StringBack DEF StringText
  <2>. HIDE DEF x, r
  <2>4. script = c \o (<<x>> \o r)
    BY <1>8, <2>2, Zenon
  <2>5. Proceeds(mode, t, script', x, r)
    BY <1>1, <1>6, <2>2, <2>4, NextToken, Zenon
  <2>6. ASSUME t = WrittenComment, NEW d \in Remarks(mode), script' = d \o (<<x>> \o r)
        PROVE  Onward(D, w)
    <3>1. Skip(WrittenComment)
      BY <1>6, <2>6 DEF WrittenComment
    <3>2. script' = d \o (Label(D, q) \o w.begin[q])
      BY <2>2, <2>6, Zenon
    <3>3. Comes(mode, D, w, node, j, script')
      BY <1>8, <2>6, <3>2, Zenon DEF Comes
    <3>4. AtName(mode, D, w, script', node, tree, Top)
      BY <1>4, <3>3, Zenon DEF AtName
    <3>. QED  BY <1>2, <3>1, <3>4, SkipOn DEF Stands, Top
  <2>7. ASSUME t = x, script' = r PROVE Onward(D, w)
    <3>. DEFINE n == q[Len(q)].name
                frame == [kind |-> "object", name |-> n]
                M == N \cup {n}
    <3>1. DecodeString(t) # Failed /\ DecodeString(t).text = n /\ t.type = "string"
      BY <2>3, <2>7 DEF Failed
    <3>2. /\ frames' = [frames EXCEPT ![Len(frames)].name = n]
          /\ pc' = "colon" /\ UNCHANGED <<node, tree, ok>>
      BY <1>6, <3>1
    <3>3. Top = [kind |-> "object", name |-> Top.name]
      BY <1>2, <1>5 DEF Frame
    <3>. HIDE DEF n
    <3>4. frames' = [frames EXCEPT ![Len(frames)] = frame]
      <4>1. [Top EXCEPT !.name = n] = frame
        BY <3>3
      <4>. HIDE DEF frame
      <4>. QED  BY <3>2, <4>1, Zenon DEF Top
    <3>5. frame \in Frame(M) /\ frame.name = n
      BY DEF Frame
    <3>6. frames \in Seq(Frame(M))
      BY <1>1, MoreNames, Zenon
    <3>. HIDE DEF frame, M
    <3>7. Len(frames) \in 1..Len(frames)
      BY <1>5
    <3>8. /\ Len(frames') = Len(frames)
          /\ \A i \in 1..Len(frames): frames'[i] = IF i = Len(frames) THEN frame ELSE frames[i]
      BY <3>4, <3>5, <3>6, <3>7, ExceptSeq
    <3>9. Linked(node, frames')
      BY <1>1, <1>5, <3>8 DEF Linked
    <3>10. Name(n) = q[Len(q)]
      <4>1. n \in Seq(Int) /\ n \in Seq(Int \ {0}) /\ q[Len(q)] = [name |-> n]
        BY <2>2 DEF n
      <4>2. CStr(n) = n
        BY <4>1, CStrIs
      <4>. QED  BY <4>1, <4>2 DEF Name
    <3>11. frames'[Len(frames')].name = n
      BY <3>5, <3>7, <3>8
    <3>12. Filled(D, w, tree, node, w.at[q] - 1)
      <4>1. w.at[q] - 1 = j
        BY <1>8
      <4>. QED  BY <1>4, <4>1
    <3>13. AtColon(D, w, script', node, tree, frames'[Len(frames')])
      BY <2>7, <3>10, <3>11, <3>12 DEF AtColon, r
    <3>. QED  BY <1>1, <3>2, <3>9, <3>13 DEF Onward, OnTrack, Stands
  <2>. QED  BY <2>5, <2>6, <2>7, Zenon DEF Proceeds
<1>. QED  BY <1>4, <1>7, <1>8, Zenon DEF Comes

LEMMA ColonTracked ==
  ASSUME NEW D, NEW w, Tracked(D, w), NEW N, NEW K, Inner(N, K), Colon
  PROVE  Onward(D, w)
<1>1. /\ given /\ ok = TRUE /\ Whole(D) /\ Ordered(D, w) /\ Written(mode, D, w) /\ Plan(mode, D, w)
      /\ WrittenComment \in TokensOf(D)
      /\ node \in DOMAIN D /\ node \in DOMAIN tree /\ Nodes(tree) /\ DOMAIN tree \subseteq Seq(K)
      /\ frames \in Seq(Frame(N)) /\ Linked(node, frames) /\ node \in Seq(KeySet)
      /\ w.begin \in [DOMAIN D -> Seq(TokensOf(D))] /\ w.end \in [DOMAIN D -> Seq(TokensOf(D))]
  BY TrackedFacts, Zenon
<1>2. pc = "colon" /\ Top.kind = "object"
  BY DEF Colon, Inner, Position
<1>3. AtColon(D, w, script, node, tree, Top)
  BY <1>2 DEF Tracked, OnTrack, Stands, Top
<1>4. PICK q \in Kids(DOMAIN D, node):
        /\ Filled(D, w, tree, node, w.at[q] - 1)
        /\ Name(Top.name) = q[Len(q)]
        /\ script = <<T("memberSeparator")>> \o w.begin[q]
  BY <1>3 DEF AtColon
<1>5. /\ Len(frames) \in Nat /\ Len(frames) >= 1 /\ Len(node) = Len(frames) - 1 /\ frames # <<>>
      /\ ~Is(tree, node, "null")
  BY <1>2, <1>4, FilledKind
<1>6. PICK t \in Offered:
       /\ Read(t)
       /\ t.type = "memberSeparator" =>
            /\ tree' = Child(tree, node, Name(Top.name))
            /\ node' = Append(node, Name(Top.name))
            /\ pc' = "value"
            /\ UNCHANGED <<frames, before, last, errors, ok>>
  BY DEF Colon
<1>7. q \in DOMAIN D /\ q # ROOT /\ Front(q) = node /\ w.begin[q] \in Seq(TokensOf(D))
  BY <1>1, <1>4 DEF Kids, ROOT
<1>8. T("memberSeparator") \in TokensOf(D)
  BY Zenon DEF TokensOf
<1>9. t = T("memberSeparator") /\ script' = w.begin[q]
  <2>. DEFINE y == T("memberSeparator")
              r == w.begin[q]
  <2>1. y \in TokensOf(D) /\ r \in Seq(TokensOf(D)) /\ script = <<y>> \o r
    BY <1>4, <1>7, <1>8
  <2>. HIDE DEF y, r
  <2>2. given /\ t \in Offered /\ Read(t)
    BY <1>1, <1>6
  <2>3. t = y /\ script' = r
    BY <2>1, <2>2, HeadIsRead, Zenon
  <2>. QED  BY <2>3 DEF y, r
<1>10. /\ tree' = Child(tree, node, q[Len(q)]) /\ node' = Append(node, q[Len(q)])
       /\ pc' = "value" /\ UNCHANGED <<frames, ok>>
  <2>1. t.type = "memberSeparator"
    BY <1>9 DEF T
  <2>. QED  BY <1>4, <1>6, <2>1
<1>11. w.at[q] - 1 \in Nat /\ w.at[q] = (w.at[q] - 1) + 1
  <2>1. w.at[q] \in 1..w.count[node] /\ w.at[q] \in Nat /\ w.count[node] \in Nat
    BY <1>1, <1>7 DEF Ordered
  <2>. QED  BY <2>1
<1>12. /\ q = Append(node, q[Len(q)]) /\ q[Len(q)] \in KeySet
       /\ Opened(D, w, Child(tree, node, q[Len(q)]), q)
  BY <1>1, <1>4, <1>5, <1>11, NextOpened
<1>13. node' = q /\ Opened(D, w, tree', node')
  BY <1>10, <1>12, Zenon
<1>14. Linked(node', frames')
  <2>1. /\ Len(Append(node, q[Len(q)])) = Len(node) + 1
        /\ \A i \in 1..Len(node): Append(node, q[Len(q)])[i] = node[i]
    BY <1>1, <1>12, AppendProperties
  <2>2. Len(q) = Len(frames) /\ \A i \in 1..Len(node): q[i] = node[i]
    BY <1>5, <1>12, <2>1
  <2>3. frames[Len(frames)].kind # "array"
    BY <1>2 DEF Top
  <2>4. \A i \in 1..Len(frames): i = Len(frames) \/ i \in 1..Len(node)
    BY <1>5
  <2>. QED  BY <1>1, <1>10, <1>13, <2>2, <2>3, <2>4 DEF Linked
<1>15. AtValue(mode, D, w, script', node', tree')
  <2>1. <<>> \in Remarks(mode)
    BY <1>1, RemarksAre
  <2>2. script' = <<>> \o w.begin[node']
    BY <1>7, <1>9, <1>13, ConcatEmptySeq
  <2>. QED  BY <1>13, <2>1, <2>2, Zenon DEF AtValue
<1>. QED  BY <1>1, <1>7, <1>10, <1>13, <1>14, <1>15 DEF Onward, OnTrack, Stands

\* What closes the container comes next, perhaps after comments.
LEMMA ClosingToken ==
  ASSUME NEW D, NEW w, Tracked(D, w), NEW N, NEW K, Inner(N, K), NEW c \in Remarks(mode),
         script = c \o (<<Ended(D[node])>> \o w.end[node]), NEW t \in Offered, Read(t)
  PROVE  Proceeds(mode, t, script', Ended(D[node]), w.end[node])
<1>. DEFINE x == Ended(D[node])
            r == w.end[node]
<1>1. x \in TokensOf(D) /\ WrittenComment \in TokensOf(D)
  BY TokensOfIs
<1>2. r \in Seq(TokensOf(D)) /\ given
  <2>1. given /\ node \in DOMAIN D /\ w.end \in [DOMAIN D -> Seq(TokensOf(D))]
    BY TrackedFacts, Zenon
  <2>. QED  BY <2>1
<1>3. script = c \o (<<x>> \o r)
  OBVIOUS
<1>. HIDE DEF x, r
<1>4. Proceeds(mode, t, script', x, r)
  BY <1>1, <1>2, <1>3, NextToken, Zenon
<1>. QED  BY <1>4 DEF x, r

\* A comma comes next.
LEMMA CommaToken ==
  ASSUME NEW D, NEW w, Tracked(D, w), NEW N, NEW K, Inner(N, K), NEW c \in Remarks(mode),
         NEW q \in DOMAIN D,
         script = <<T("arraySeparator")>> \o (c \o (Label(D, q) \o w.begin[q])),
         NEW t \in Offered, Read(t)
  PROVE  t.type = "arraySeparator" /\ script' = c \o (Label(D, q) \o w.begin[q])
<1>. DEFINE x == T("arraySeparator")
            l == Label(D, q)
            b == w.begin[q]
            A == TokensOf(D)
<1>1. x \in A /\ l \in Seq(A) /\ WrittenComment \in A
  BY TokensOfIs
<1>2. given /\ b \in Seq(A)
  <2>1. given /\ w.begin \in [DOMAIN D -> Seq(TokensOf(D))]
    BY TrackedFacts, Zenon
  <2>. QED  BY <2>1
<1>3. c \in Seq(A)
  BY <1>1, RemarksAre
<1>4. script = <<x>> \o (c \o (l \o b))
  OBVIOUS
<1>5. x.type = "arraySeparator"
  BY DEF T
<1>. HIDE DEF x, l, b, A
<1>6. l \o b \in Seq(A)
  BY <1>1, <1>2, ConcatProperties
<1>. DEFINE r == c \o (l \o b)
<1>7. r \in Seq(A)
  BY <1>3, <1>6, ConcatProperties
<1>8. script = <<x>> \o r
  BY <1>4, Zenon
<1>. HIDE DEF r
<1>9. t = x /\ script' = r
  BY <1>1, <1>2, <1>7, <1>8, HeadIsRead, Zenon
<1>. QED  BY <1>5, <1>9 DEF r, l, b

LEMMA EndedType == Ended(Array).type = "arrayEnd" /\ Ended(Object).type = "objectEnd"
<1>1. Array # Object
  BY DEF Array, Object
<1>. QED  BY <1>1 DEF Ended, T

LEMMA CommaTracked ==
  ASSUME NEW D, NEW w, Tracked(D, w), NEW N, NEW K, Inner(N, K), Comma
  PROVE  Onward(D, w)
<1>1. Ordered(D, w) /\ node \in DOMAIN D /\ ok = TRUE /\ Linked(node, frames)
  BY TrackedFacts, Zenon
<1>2. pc = "comma" /\ Top.kind = "object"
  BY DEF Comma, Inner, Position
<1>3. PICK q \in Kids(DOMAIN D, node):
        Filled(D, w, tree, node, w.at[q]) /\ Goes(mode, D, w, node, w.at[q], script)
  BY <1>2 DEF Tracked, OnTrack, Stands, AtItem
<1>4. D[node] = Object
  BY <1>2, <1>3, FilledKind
<1>5. PICK t \in Offered:
        /\ Read(t)
        /\ IF t.type = "comment"
           THEN /\ AddComment(t, tree) /\ pc' = "commented"
                /\ UNCHANGED <<frames, node, last, errors, ok>>
           ELSE AfterMember(t)
  BY DEF Comma
<1>6. ASSUME NEW c \in Remarks(mode), w.at[q] = w.count[node],
             script = c \o (<<Ended(D[node])>> \o w.end[node])
      PROVE  Onward(D, w)
  <2>1. Proceeds(mode, t, script', Ended(D[node]), w.end[node])
    BY <1>5, <1>6, ClosingToken, Zenon
  <2>2. ASSUME t = WrittenComment, NEW d \in Remarks(mode),
               script' = d \o (<<Ended(D[node])>> \o w.end[node])
        PROVE  Onward(D, w)
    <3>1. AddComment(WrittenComment, tree) /\ pc' = "commented" /\ UNCHANGED <<frames, node, ok>>
      BY <1>5, <2>2 DEF WrittenComment
    <3>2. tree' = tree
      BY <3>1, CommentAlike
    <3>3. AtEnd(mode, D, w, script', node, tree)
      BY <1>3, <1>6, <2>2, Zenon DEF AtEnd
    <3>. QED  BY <1>1, <3>1, <3>2, <3>3 DEF Onward, OnTrack, Stands
  <2>3. ASSUME t = Ended(D[node]), script' = w.end[node] PROVE Onward(D, w)
    <3>1. t.type = "objectEnd"
      BY <1>4, <2>3, EndedType
    <3>2. ReturnContainer(TRUE) /\ UNCHANGED tree
      BY <1>5, <3>1, Zenon DEF AfterMember
    <3>3. Filled(D, w, tree, node, w.count[node])
      BY <1>3, <1>6
    <3>. QED  BY <1>2, <2>3, <3>2, <3>3, ContainerLeft, Zenon
  <2>. QED  BY <2>1, <2>2, <2>3, Zenon DEF Proceeds
<1>7. ASSUME NEW r \in Kids(DOMAIN D, node), NEW c \in Remarks(mode), w.at[r] = w.at[q] + 1,
             script = <<T("arraySeparator")>> \o (c \o (Label(D, r) \o w.begin[r]))
      PROVE  Onward(D, w)
  <2>0. r \in DOMAIN D /\ q \in DOMAIN D /\ r # ROOT /\ Front(r) = node
    BY DEF Kids, ROOT
  <2>1. t.type = "arraySeparator" /\ script' = c \o (Label(D, r) \o w.begin[r])
    BY <1>5, <1>7, <2>0, CommaToken, Zenon
  <2>2. pc' = "name" /\ UNCHANGED <<frames, node, tree, ok>>
    BY <1>5, <2>1 DEF AfterMember
  <2>3. w.count[node] # 0 /\ w.at[q] \in Nat
    <3>1. w.at[r] \in 1..w.count[node] /\ w.count[node] \in Nat /\ w.at[q] \in Nat
      BY <1>1, <2>0 DEF Ordered
    <3>. QED  BY <3>1
  <2>4. Comes(mode, D, w, node, w.at[q], script')
    BY <1>7, <2>1, Zenon DEF Comes
  <2>5. AtName(mode, D, w, script', node, tree, frames[Len(frames)])
    BY <1>3, <2>3, <2>4 DEF AtName
  <2>. QED  BY <1>1, <2>2, <2>5 DEF Onward, OnTrack, Stands
<1>. QED  BY <1>3, <1>6, <1>7, Zenon DEF Goes

LEMMA CommentedTracked ==
  ASSUME NEW D, NEW w, Tracked(D, w), NEW N, NEW K, Inner(N, K), CommaAfterComment
  PROVE  Onward(D, w)
<1>2. pc = "commented" /\ Top.kind = "object"
  BY DEF CommaAfterComment, Inner, Position
<1>3. /\ Filled(D, w, tree, node, w.count[node])
      /\ \E c \in Remarks(mode): script = c \o (<<Ended(D[node])>> \o w.end[node])
  BY <1>2, Zenon DEF Tracked, OnTrack, Stands, AtEnd
<1>4. PICK c \in Remarks(mode): script = c \o (<<Ended(D[node])>> \o w.end[node])
  BY <1>3, Zenon
<1>5. D[node] = Object
  BY <1>2, <1>3, FilledKind
<1>6. PICK t \in Offered:
        /\ Read(t)
        /\ t.type = "comment" => Skip(t)
        /\ t.type = "objectEnd" => ReturnContainer(TRUE) /\ UNCHANGED <<tree, before, errors>>
  BY Zenon DEF CommaAfterComment
<1>7. Proceeds(mode, t, script', Ended(D[node]), w.end[node])
  BY <1>4, <1>6, ClosingToken, Zenon
<1>8. ASSUME t = WrittenComment, NEW d \in Remarks(mode),
             script' = d \o (<<Ended(D[node])>> \o w.end[node])
      PROVE  Onward(D, w)
  <2>1. Skip(WrittenComment)
    BY <1>6, <1>8 DEF WrittenComment
  <2>2. AtEnd(mode, D, w, script', node, tree)
    BY <1>3, <1>8, Zenon DEF AtEnd
  <2>. QED  BY <1>2, <2>1, <2>2, SkipOn DEF Stands
<1>9. ASSUME t = Ended(D[node]), script' = w.end[node] PROVE Onward(D, w)
  <2>1. t.type = "objectEnd"
    BY <1>5, <1>9, EndedType
  <2>2. ReturnContainer(TRUE) /\ UNCHANGED tree
    BY <1>6, <2>1, Zenon
  <2>. QED  BY <1>2, <1>3, <1>9, <2>2, ContainerLeft, Zenon
<1>. QED  BY <1>7, <1>8, <1>9, Zenon DEF Proceeds

\* A new element is at the end of the path, and nothing else changes.
LEMMA ElementLinked ==
  ASSUME NEW N, NEW fs \in Seq(Frame(N)), NEW nd \in Seq(KeySet), Len(fs) = Len(nd) + 1,
         Linked(nd, fs), NEW i \in Nat, fs[Len(fs)].kind = "array" => fs[Len(fs)].index = i
  PROVE  Linked(Append(nd, Index(i)), fs) /\ Len(Append(nd, Index(i))) = Len(fs)
<1>. DEFINE q == Append(nd, Index(i))
<1>1. Index(i) \in KeySet
  BY IndexKey
<1>2. /\ Len(q) = Len(nd) + 1 /\ q[Len(nd) + 1] = Index(i)
      /\ \A k \in 1..Len(nd): q[k] = nd[k]
  BY <1>1, AppendProperties
<1>. HIDE DEF q
<1>3. Len(nd) \in Nat /\ \A k \in 1..Len(q): k = Len(nd) + 1 \/ k \in 1..Len(nd)
  BY <1>2
<1>4. Linked(q, fs)
  BY <1>2, <1>3 DEF Linked
<1>. QED  BY <1>2, <1>4 DEF q

LEMMA ChildNodes ==
  ASSUME NEW tr, Nodes(tr), NEW nd, ~Is(tr, nd, "null"), NEW key
  PROVE  Nodes(Child(tr, nd, key))
<1>. DEFINE q == Append(nd, key)
            new == [p \in DOMAIN tr \cup {q} |-> IF p = q THEN Leaf(Null) ELSE tr[p]]
<1>1. Child(tr, nd, key) = IF q \in DOMAIN tr THEN tr ELSE new
  BY DEF Child
<1>2. Leaf(Null) = [value |-> Leaf(Null).value, comments |-> Leaf(Null).comments]
  BY DEF Leaf
<1>3. Nodes(new)
  <2>1. DOMAIN new = DOMAIN tr \cup {q} /\ \A p \in DOMAIN new: new[p] = IF p = q THEN Leaf(Null) ELSE tr[p]
    OBVIOUS
  <2>. HIDE DEF new, q
  <2>. QED  BY <1>2, <2>1 DEF Nodes
<1>. HIDE DEF new, q
<1>. QED  BY <1>1, <1>3

LEMMA IndexIs == \A i, j: Index(i) = Index(j) => i = j
<1>. TAKE i, j
<1>1. Index(i).index = i /\ Index(j).index = j
  BY DEF Index
<1>. QED  BY <1>1

LEMMA FirstTracked ==
  ASSUME NEW D, NEW w, Tracked(D, w), NEW N, NEW K, Inner(N, K), First
  PROVE  Onward(D, w)
<1>1. /\ given /\ ok = TRUE /\ Whole(D) /\ Ordered(D, w) /\ Written(mode, D, w) /\ Plan(mode, D, w)
      /\ WrittenComment \in TokensOf(D)
      /\ node \in DOMAIN D /\ node \in DOMAIN tree /\ Nodes(tree) /\ DOMAIN tree \subseteq Seq(K)
      /\ frames \in Seq(Frame(N)) /\ Linked(node, frames) /\ node \in Seq(KeySet)
      /\ w.begin \in [DOMAIN D -> Seq(TokensOf(D))] /\ w.end \in [DOMAIN D -> Seq(TokensOf(D))]
  BY TrackedFacts, Zenon
<1>2. pc = "first" /\ Top.kind = "array" /\ Top.index = 0
  BY DEF First, Inner, Position
<1>3. Filled(D, w, tree, node, 0) /\ Comes(mode, D, w, node, 0, script)
  BY <1>2 DEF Tracked, OnTrack, Stands, AtFirst
<1>4. /\ Len(frames) \in Nat /\ Len(frames) >= 1 /\ Len(node) = Len(frames) - 1
      /\ D[node] = Array /\ ~Is(tree, node, "null")
  BY <1>2, <1>3, FilledKind
<1>. DEFINE tr == Child(tree, node, Index(0))
<1>5. PICK t \in Offered:
        /\ Read(t)
        /\ IF t.type = "arrayEnd"
           THEN ReturnContainer(TRUE) /\ UNCHANGED <<tree, before, errors>>
           ELSE IF t.type = "comment" /\ allowComments
                THEN /\ AddComment(t, tr)
                     /\ node' = Element /\ pc' = "value"
                     /\ UNCHANGED <<frames, last, errors, ok>>
                ELSE /\ before' = FALSE
                     /\ ReadValue(t, Element, tr, frames)
  BY Zenon DEF First
<1>. HIDE DEF tr
<1>6. CASE w.count[node] = 0 /\ script = <<Ended(D[node])>> \o w.end[node]
  <2>1. Ended(D[node]) \in TokensOf(D) /\ w.end[node] \in Seq(TokensOf(D))
    BY <1>1, TokensOfIs
  <2>2. t = Ended(D[node]) /\ script' = w.end[node]
    <3>1. given /\ Read(t) /\ script = <<Ended(D[node])>> \o w.end[node]
      BY <1>1, <1>5, <1>6
    <3>. QED  BY <2>1, <3>1, HeadIsRead, Zenon
  <2>3. t.type = "arrayEnd"
    BY <1>4, <2>2, EndedType
  <2>4. ReturnContainer(TRUE) /\ UNCHANGED tree
    BY <1>5, <2>3, Zenon
  <2>5. Filled(D, w, tree, node, w.count[node])
    BY <1>3, <1>6
  <2>. QED  BY <1>2, <2>2, <2>4, <2>5, ContainerLeft, Zenon
<1>7. ASSUME NEW q \in Kids(DOMAIN D, node), NEW c \in Remarks(mode), w.at[q] = 0 + 1,
             script = c \o (Label(D, q) \o w.begin[q])
      PROVE  Onward(D, w)
  <2>0. q \in DOMAIN D /\ q # ROOT /\ Front(q) = node /\ w.begin[q] \in Seq(TokensOf(D))
    BY <1>1 DEF Kids, ROOT
  <2>1. q[Len(q)] = Index(0)
    <3>1. q[Len(q)] = Index(w.at[q] - 1)
      BY <1>1, <1>4, <2>0 DEF Written
    <3>. QED  BY <1>7, <3>1
  <2>2. /\ q = Append(node, q[Len(q)]) /\ q[Len(q)] \in KeySet
        /\ q \in DOMAIN Child(tree, node, q[Len(q)])
        /\ Opened(D, w, Child(tree, node, q[Len(q)]), q)
    BY <1>1, <1>3, <1>4, <1>7, NextOpened
  <2>3. Element = q /\ q \in DOMAIN tr /\ Opened(D, w, tr, q)
    BY <1>2, <2>1, <2>2 DEF Element, tr
  <2>4. DOMAIN tr \subseteq Seq(KeySet)
    BY <1>1, <2>0, <2>3 DEF Opened, Whole
  <2>5. Nodes(tr)
    BY <1>1, <1>4, ChildNodes DEF tr
  <2>6. Linked(q, frames) /\ Len(q) = Len(frames)
    <3>1. Len(frames) = Len(node) + 1
      BY <1>1, <1>4
    <3>2. frames[Len(frames)].kind = "array" => frames[Len(frames)].index = 0
      BY <1>2 DEF Top
    <3>3. Linked(Append(node, Index(0)), frames) /\ Len(Append(node, Index(0))) = Len(frames)
      BY <1>1, <3>1, <3>2, ElementLinked
    <3>. QED  BY <2>1, <2>2, <3>3, Zenon
  <2>7. script = c \o w.begin[q]
    <3>1. Label(D, q) = <<>>
      <4>1. Array # Object
        BY DEF Array, Object
      <4>. QED  BY <1>4, <2>0, <4>1 DEF Label
    <3>2. <<>> \o w.begin[q] = w.begin[q]
      BY <2>0, ConcatEmptySeq
    <3>. QED  BY <1>7, <3>1, <3>2
  <2>8. PICK x \in TokensOf(D), r \in Seq(TokensOf(D)):
          w.begin[q] = <<x>> \o r /\ Enters(mode, D, w, q, x, r)
    BY <1>1, <2>0, FirstToken, Zenon
  <2>9. script = c \o (<<x>> \o r)
    BY <2>7, <2>8
  <2>10. Proceeds(mode, t, script', x, r)
    BY <1>1, <1>5, <2>9, NextToken, Zenon
  <2>11. ASSUME t = WrittenComment, mode # "strict", NEW d \in Remarks(mode),
                script' = d \o (<<x>> \o r)
         PROVE  Onward(D, w)
    <3>1. /\ AddComment(WrittenComment, tr) /\ node' = Element /\ pc' = "value"
          /\ UNCHANGED <<frames, ok>>
      BY <1>5, <2>11 DEF WrittenComment, allowComments
    <3>2. tree' = tr
      BY <3>1, CommentAlike
    <3>3. script' = d \o w.begin[q]
      BY <2>8, <2>11, Zenon
    <3>4. AtValue(mode, D, w, script', q, tr)
      BY <2>3, <2>11, <3>3, Zenon DEF AtValue
    <3>. QED  BY <1>1, <2>0, <2>3, <2>6, <3>1, <3>2, <3>4 DEF Onward, OnTrack, Stands
  <2>12. ASSUME t = x, script' = r PROVE Onward(D, w)
    <3>1. Enters(mode, D, w, q, t, script')
      BY <2>8, <2>12, Zenon
    <3>2. t.type \notin {"comment", "arrayEnd"}
      <4>1. t.type \in {"objectBegin", "arrayBegin"} \cup ScalarTypes
        BY <1>1, <2>0, <3>1, EnteredType
      <4>. QED  BY <4>1 DEF ScalarTypes
    <3>3. ReadValue(t, q, tr, frames)
      BY <1>5, <2>3, <3>2, Zenon
    <3>. QED  BY <1>1, <2>0, <2>3, <2>4, <2>5, <2>6, <3>1, <3>3, ValueEntered, Zenon DEF Onward
  <2>. QED  BY <2>10, <2>11, <2>12, Zenon DEF Proceeds
<1>. QED  BY <1>3, <1>6, <1>7, Zenon DEF Comes

LEMMA SeparatorTracked ==
  ASSUME NEW D, NEW w, Tracked(D, w), NEW N, NEW K, Inner(N, K), Separator
  PROVE  Onward(D, w)
<1>1. /\ given /\ ok = TRUE /\ Whole(D) /\ Ordered(D, w) /\ Written(mode, D, w) /\ Plan(mode, D, w)
      /\ node \in DOMAIN D /\ node \in DOMAIN tree
      /\ frames \in Seq(Frame(N)) /\ Linked(node, frames) /\ node \in Seq(KeySet)
      /\ w.begin \in [DOMAIN D -> Seq(TokensOf(D))]
  BY TrackedFacts, Zenon
<1>2. pc = "separator" /\ Top.kind = "array"
  BY DEF Separator, Inner, Position
<1>3. PICK q \in Kids(DOMAIN D, node):
        /\ Filled(D, w, tree, node, w.at[q]) /\ Goes(mode, D, w, node, w.at[q], script)
        /\ q[Len(q)] = Index(Top.index)
  BY <1>2 DEF Tracked, OnTrack, Stands, AtElement, Top
<1>4. /\ Len(frames) \in Nat /\ Len(frames) >= 1 /\ Len(node) = Len(frames) - 1
      /\ D[node] = Array /\ ~Is(tree, node, "null") /\ Top \in Frame(N)
  BY <1>2, <1>3, FilledKind
<1>. DEFINE next == Index(Top.index + 1)
<1>5. PICK t \in Offered:
        /\ Read(t)
        /\ IF t.type = "comment" THEN Skip(t)
           ELSE IF t.type = "arrayEnd"
           THEN ReturnContainer(TRUE) /\ UNCHANGED <<tree, before, errors>>
           ELSE IF t.type = "arraySeparator"
           THEN /\ frames' = [frames EXCEPT ![Len(frames)].index = @ + 1]
                /\ tree' = Child(tree, node, next)
                /\ node' = Append(node, next)
                /\ pc' = "value"
                /\ UNCHANGED <<before, last, errors, ok>>
           ELSE AddErrorAndRecover
  BY Zenon DEF Separator
<1>6. ASSUME NEW c \in Remarks(mode), w.at[q] = w.count[node],
             script = c \o (<<Ended(D[node])>> \o w.end[node])
      PROVE  Onward(D, w)
  <2>1. Proceeds(mode, t, script', Ended(D[node]), w.end[node])
    BY <1>5, <1>6, ClosingToken, Zenon
  <2>2. ASSUME t = WrittenComment, NEW d \in Remarks(mode),
               script' = d \o (<<Ended(D[node])>> \o w.end[node])
        PROVE  Onward(D, w)
    <3>1. Skip(WrittenComment)
      BY <1>5, <2>2 DEF WrittenComment
    <3>2. Goes(mode, D, w, node, w.at[q], script')
      BY <1>6, <2>2, Zenon DEF Goes
    <3>3. AtElement(mode, D, w, script', node, tree, Top)
      BY <1>3, <3>2 DEF AtElement
    <3>. QED  BY <1>2, <3>1, <3>3, SkipOn DEF Stands, Top
  <2>3. ASSUME t = Ended(D[node]), script' = w.end[node] PROVE Onward(D, w)
    <3>1. t.type = "arrayEnd"
      BY <1>4, <2>3, EndedType
    <3>2. ReturnContainer(TRUE) /\ UNCHANGED tree
      BY <1>5, <3>1, Zenon
    <3>3. Filled(D, w, tree, node, w.count[node])
      BY <1>3, <1>6
    <3>. QED  BY <1>2, <2>3, <3>2, <3>3, ContainerLeft, Zenon
  <2>. QED  BY <2>1, <2>2, <2>3, Zenon DEF Proceeds
<1>7. ASSUME NEW r \in Kids(DOMAIN D, node), NEW c \in Remarks(mode), w.at[r] = w.at[q] + 1,
             script = <<T("arraySeparator")>> \o (c \o (Label(D, r) \o w.begin[r]))
      PROVE  Onward(D, w)
  <2>0. /\ r \in DOMAIN D /\ q \in DOMAIN D /\ r # ROOT /\ q # ROOT /\ Front(r) = node /\ Front(q) = node
        /\ w.begin[r] \in Seq(TokensOf(D))
    BY <1>1, <1>3 DEF Kids, ROOT
  <2>1. t.type = "arraySeparator" /\ script' = c \o (Label(D, r) \o w.begin[r])
    <3>1. Read(t) /\ script = <<T("arraySeparator")>> \o (c \o (Label(D, r) \o w.begin[r]))
      BY <1>5, <1>7
    <3>. QED  BY <2>0, <3>1, CommaToken, Zenon
  <2>2. /\ frames' = [frames EXCEPT ![Len(frames)].index = @ + 1]
        /\ tree' = Child(tree, node, next) /\ node' = Append(node, next)
        /\ pc' = "value" /\ ok' = ok
    BY <1>5, <2>1
  <2>3. w.at[q] \in Nat /\ q[Len(q)] = Index(w.at[q] - 1) /\ r[Len(r)] = Index(w.at[r] - 1)
    <3>1. w.at[q] \in Nat
      BY <1>1, <2>0 DEF Ordered
    <3>2. q[Len(q)] = Index(w.at[q] - 1)
      BY <1>1, <1>4, <2>0 DEF Written
    <3>3. r[Len(r)] = Index(w.at[r] - 1)
      BY <1>1, <1>4, <2>0 DEF Written
    <3>. QED  BY <3>1, <3>2, <3>3
  <2>4. Top.index \in Nat /\ Top = [kind |-> "array", index |-> Top.index]
    BY <1>2, <1>4 DEF Frame
  <2>5. Top.index = w.at[q] - 1
    BY <1>3, <2>3, IndexIs, Zenon
  <2>6. r[Len(r)] = next
    BY <1>7, <2>3, <2>4, <2>5
  <2>. HIDE DEF next
  <2>7. r = Append(node, r[Len(r)]) /\ Opened(D, w, Child(tree, node, r[Len(r)]), r)
    BY <1>1, <1>3, <1>4, <1>7, <2>3, NextOpened
  <2>8. node' = r /\ Opened(D, w, tree', r)
    BY <2>2, <2>6, <2>7
  <2>. DEFINE frame == [kind |-> "array", index |-> Top.index + 1]
  <2>9. frame \in Frame(N) /\ frame.index = Top.index + 1
    BY <2>4 DEF Frame
  <2>10. frames' = [frames EXCEPT ![Len(frames)] = frame]
    <3>1. [Top EXCEPT !.index = Top.index + 1] = frame
      BY <2>4
    <3>. HIDE DEF frame
    <3>. QED  BY <2>2, <3>1, Zenon DEF Top
  <2>. HIDE DEF frame
  <2>11. Len(frames) \in 1..Len(frames)
    BY <1>4
  <2>12. /\ frames' \in Seq(Frame(N)) /\ Len(frames') = Len(frames)
         /\ \A i \in 1..Len(frames): frames'[i] = IF i = Len(frames) THEN frame ELSE frames[i]
    BY <1>1, <2>9, <2>10, <2>11, ExceptSeq
  <2>13. Linked(node, frames') /\ Len(frames') = Len(node) + 1
    BY <1>1, <1>4, <2>12 DEF Linked
  <2>14. frames'[Len(frames')].kind = "array" => frames'[Len(frames')].index = Top.index + 1
    BY <2>9, <2>11, <2>12
  <2>15. Top.index + 1 \in Nat
    BY <2>4
  <2>16. Linked(Append(node, next), frames')
    BY <1>1, <2>12, <2>13, <2>14, <2>15, ElementLinked DEF next
  <2>17. Linked(r, frames')
    BY <2>6, <2>7, <2>16, Zenon
  <2>18. script' = c \o w.begin[r]
    <3>1. Label(D, r) = <<>>
      <4>1. Array # Object
        BY DEF Array, Object
      <4>. QED  BY <1>4, <2>0, <4>1 DEF Label
    <3>2. <<>> \o w.begin[r] = w.begin[r]
      BY <2>0, ConcatEmptySeq
    <3>. QED  BY <2>1, <3>1, <3>2
  <2>19. AtValue(mode, D, w, script', r, tree')
    BY <1>7, <2>8, <2>18, Zenon DEF AtValue
  <2>. QED  BY <1>1, <2>0, <2>2, <2>8, <2>17, <2>19 DEF Onward, OnTrack, Stands
<1>. QED  BY <1>3, <1>6, <1>7, Zenon DEF Goes

\* The tree has the values D, but for whether an integer is an int or a uint.
ReadAs(tr, D) == DOMAIN tr = DOMAIN D /\ \A p \in DOMAIN D: Same(tr[p].value, D[p])

LEMMA FinishTracked ==
  ASSUME NEW D, NEW w, Tracked(D, w), NEW N, NEW K, Inner(N, K), Finish,
         mode = "strict" => D[ROOT] \in Unpacked
  PROVE  Onward(D, w) \/ (pc' = "done" /\ ok' = TRUE /\ ReadAs(tree', D))
<1>1. /\ given /\ ok = TRUE /\ Whole(D) /\ Nodes(tree)
  BY TrackedFacts, Zenon
<1>2. pc = "tail"
  BY DEF Finish
<1>3. script \in Remarks(mode) /\ ReadAs(tree, D)
  BY <1>2 DEF Tracked, OnTrack, Stands, AtTail, ReadAs
<1>. DEFINE refused == strictRoot /\ ~IsArray(tree, ROOT) /\ ~IsObject(tree, ROOT)
<1>4. PICK t \in Offered:
        /\ Read(t)
        /\ IF t.type = "comment" /\ allowComments THEN Skip(t)
           ELSE /\ tree' = IF collect /\ before THEN With(tree, ROOT, "after") ELSE tree
                /\ ok' = (ok /\ ~refused)
                /\ pc' = "done"
  BY DEF Finish
<1>5. ~refused
  <2>. SUFFICES ASSUME mode = "strict" PROVE IsArray(tree, ROOT) \/ IsObject(tree, ROOT)
    BY DEF strictRoot
  <2>1. ROOT \in DOMAIN D
    BY <1>1 DEF Whole
  <2>2. Same(tree[ROOT].value, D[ROOT]) /\ D[ROOT] \in Unpacked
    BY <1>3, <2>1 DEF ReadAs
  <2>3. tree[ROOT].value \in {Null, Array, Object}
    BY <2>2 DEF Same, Unpacked
  <2>. QED  BY <2>3 DEF IsArray, IsObject, Is, Null, Array, Object
<1>. HIDE DEF refused
<1>6. \/ t = WrittenComment /\ mode # "strict" /\ script' \in Remarks(mode)
      \/ t = EOS
  <2>1. Read(t)
    BY <1>4
  <2>. QED  BY <1>1, <1>3, <2>1, LastTokens
<1>7. CASE t = WrittenComment /\ mode # "strict" /\ script' \in Remarks(mode)
  <2>1. Skip(WrittenComment)
    BY <1>4, <1>7 DEF WrittenComment, allowComments
  <2>2. AtTail(mode, D, script', tree)
    BY <1>3, <1>7 DEF AtTail, ReadAs
  <2>. QED  BY <1>2, <2>1, <2>2, SkipOn DEF Stands
<1>8. CASE t = EOS
  <2>1. /\ tree' = IF collect /\ before THEN With(tree, ROOT, "after") ELSE tree
        /\ ok' = (ok /\ ~refused)
        /\ pc' = "done"
    BY <1>4, <1>8 DEF EOS
  <2>2. ok' = TRUE
    BY <1>1, <1>5, <2>1, Zenon
  <2>3. ROOT \in DOMAIN tree
    BY <1>1, <1>3 DEF ReadAs, Whole
  <2>4. /\ DOMAIN With(tree, ROOT, "after") = DOMAIN tree
        /\ \A p \in DOMAIN tree: With(tree, ROOT, "after")[p].value = tree[p].value
    BY <1>1, <2>3, WithValue
  <2>5. DOMAIN tree' = DOMAIN tree /\ \A p \in DOMAIN tree: tree'[p].value = tree[p].value
    BY <2>1, <2>4
  <2>. QED  BY <1>3, <2>1, <2>2, <2>5 DEF ReadAs
<1>. QED  BY <1>6, <1>7, <1>8, Zenon

\* What parse has read of what was written, or all of it.
RoundInv ==
  phase = "reparse" /\ ~Infinite =>
    /\ mode = "strict" => saved[ROOT] \in Unpacked
    /\ IF pc = "done" THEN ok = TRUE /\ ReadAs(tree, saved) ELSE \E w: Tracked(saved, w)

LEMMA TrackedNext ==
  ASSUME NEW D, NEW w, Tracked(D, w), NEW N, NEW K, Inner(N, K), Next,
         mode = "strict" => D[ROOT] \in Unpacked
  PROVE  Onward(D, w) \/ (pc' = "done" /\ ok' = TRUE /\ ReadAs(tree', D))
<1>1. CASE Value
  BY <1>1, ValueTracked
<1>2. CASE NameOrEnd
  BY <1>2, NameTracked
<1>3. CASE Colon
  BY <1>3, ColonTracked
<1>4. CASE Comma
  BY <1>4, CommaTracked
<1>5. CASE CommaAfterComment
  BY <1>5, CommentedTracked
<1>6. CASE First
  BY <1>6, FirstTracked
<1>7. CASE Separator
  BY <1>7, SeparatorTracked
<1>8. CASE Recover
  BY <1>8 DEF Recover, Tracked, OnTrack, Stands
<1>9. CASE Finish
  BY <1>9, FinishTracked, Zenon
<1>. QED  BY <1>1, <1>2, <1>3, <1>4, <1>5, <1>6, <1>7, <1>8, <1>9, Zenon DEF Next

\* What a writer has written is about to be read.
LEMMA WriteTracked ==
  ASSUME TreeInv, Write, ~Infinite'
  PROVE  /\ mode' = "strict" => saved'[ROOT] \in Unpacked
         /\ pc' # "done" /\ \E w: Tracked(saved, w)'
<1>. DEFINE D == Dense(tree)
<1>1. WellFormed(mode, tree) /\ (mode = "strict" => tree[ROOT].value \in Unpacked)
  BY DEF TreeInv, Write
<1>2. /\ given' = TRUE /\ script' \in {Fast(tree), Styled(tree), StyledStream(tree)}
      /\ pc' = "value" /\ frames' = <<>> /\ node' = ROOT /\ ok' = TRUE
      /\ mode' = mode /\ tree' = tree /\ saved' = D
  BY DEF Write
<1>3. Writes(mode, D, script')
  BY <1>1, <1>2, WritersWrite
<1>4. /\ Whole(D)
      /\ \A p \in DOMAIN D: D[p] = At(tree, p).value
  BY <1>1, DenseIs, ZenonT(60)
<1>5. Stepwise(DOMAIN D)
  <2>1. PICK N \in Nat: \A p \in DOMAIN D: Len(p) \in 0..N
    BY <1>1, DenseBound
  <2>. HIDE DEF D
  <2>. QED  BY <1>4, <2>1, KidsOnTheWay
<1>6. mode = "strict" => D[ROOT] \in Unpacked
  <2>1. ROOT \in DOMAIN D /\ ROOT \in DOMAIN tree
    BY <1>1, <1>4, RootedTree DEF Whole, WellFormed, ROOT
  <2>2. D[ROOT] = tree[ROOT].value
    BY <1>4, <2>1 DEF At
  <2>. QED  BY <1>1, <2>2
<1>. HIDE DEF D
<1>7. \A p \in DOMAIN D: D[p] # Infinity
  BY <1>2 DEF Infinite
<1>8. PICK w: Written(mode, D, w) /\ \E c \in Remarks(mode): script' = c \o w.begin[ROOT]
  BY <1>3 DEF Writes
<1>9. Plan(mode, D, w)
  BY <1>4, <1>5, <1>7, <1>8 DEF Plan
<1>10. AtValue(mode, D, w, script', ROOT, tree)
  BY <1>8, Zenon DEF AtValue, Opened
<1>11. Linked(ROOT, <<>>)
  BY DEF Linked, ROOT
<1>12. OnTrack(mode, D, w, script', "value", <<>>, ROOT, tree)
  BY <1>4, <1>10, <1>11 DEF OnTrack, Stands, Whole
<1>13. Tracked(saved, w)'
  BY <1>2, <1>9, <1>12 DEF Tracked
<1>. QED  BY <1>2, <1>6, <1>13

LEMMA RoundStep == ProgramInv /\ TreeInv /\ RoundInv /\ [JsonNext]_allVars => RoundInv'
<1>. SUFFICES ASSUME ProgramInv, TreeInv, RoundInv, [JsonNext]_allVars, phase' = "reparse", ~Infinite'
              PROVE  /\ mode' = "strict" => saved'[ROOT] \in Unpacked
                     /\ IF pc' = "done" THEN ok' = TRUE /\ ReadAs(tree', saved')
                        ELSE \E w: Tracked(saved, w)'
  BY Zenon DEF RoundInv
<1>1. CASE Write
  BY <1>1, WriteTracked
<1>2. CASE Parse
  <2>1. phase = "reparse" /\ Next /\ saved' = saved
    BY <1>2 DEF Parse, programVars
  <2>2. mode' = mode /\ given' = given
    BY <2>1, Zenon DEF Next, Value, NameOrEnd, Colon, Comma, CommaAfterComment, First, Separator,
                Recover, Finish, Read
  <2>3. pc # "done"
    BY <2>1, Zenon DEF Next, Value, NameOrEnd, Colon, Comma, CommaAfterComment, First, Separator,
                Recover, Finish
  <2>4. ~Infinite
    BY <2>1 DEF Infinite
  <2>5. PICK w: Tracked(saved, w)
    BY <2>1, <2>3, <2>4 DEF RoundInv
  <2>6. mode = "strict" => saved[ROOT] \in Unpacked
    BY <2>1, <2>4 DEF RoundInv
  <2>7. PICK K, N: Inner(N, K)
    BY DEF ProgramInv, NodesInv, Inner
  <2>8. Onward(saved, w) \/ (pc' = "done" /\ ok' = TRUE /\ ReadAs(tree', saved))
    BY <2>1, <2>5, <2>6, <2>7, TrackedNext, Zenon
  <2>9. CASE Onward(saved, w)
    <3>1. pc' # "done"
      BY <2>9 DEF Onward, OnTrack, Stands
    <3>2. given = TRUE /\ Plan(mode, saved, w)
      BY <2>5 DEF Tracked
    <3>3. Tracked(saved, w)'
      BY <2>1, <2>2, <2>9, <3>2 DEF Tracked, Onward
    <3>. QED  BY <2>1, <2>2, <2>6, <3>1, <3>3
  <2>10. CASE pc' = "done" /\ ok' = TRUE /\ ReadAs(tree', saved)
    BY <2>1, <2>2, <2>6, <2>10
  <2>. QED  BY <2>8, <2>9, <2>10, Zenon
<1>3. CASE UNCHANGED allVars
  <2>1. UNCHANGED <<phase, saved, mode, given, script, pc, frames, node, tree, ok>>
    BY <1>3 DEF allVars, vars, inputVars, programVars
  <2>2. ~Infinite
    BY <2>1 DEF Infinite
  <2>3. CASE pc = "done"
    BY <2>1, <2>2, <2>3 DEF RoundInv
  <2>4. CASE pc # "done"
    <3>1. PICK w: Tracked(saved, w)
      BY <2>1, <2>2, <2>4 DEF RoundInv
    <3>2. Tracked(saved, w)'
      BY <2>1, <3>1 DEF Tracked
    <3>. QED  BY <2>1, <2>2, <2>4, <3>2 DEF RoundInv
  <2>. QED  BY <2>3, <2>4, Zenon
<1>. QED  BY <1>1, <1>2, <1>3, Zenon
          DEF JsonNext, Parsed, SetMember, RemoveKey, AppendValue, ResizeRoot, ClearRoot, Edit

\* Whatever the document had for comments, and whatever the program did to its
\* root, with resize's gaps in arrays, escapes in names and texts, integers at the
\* ends of their ranges: unless a double is infinite, what any of the writers writes
\* is read back, without an error, as the same values at the same places.
THEOREM WrittenIsReadBack == JsonSpec => []RoundTrip
<1>1. JsonInit => RoundInv
  BY DEF JsonInit, RoundInv
<1>2. RoundInv => RoundTrip
  <2>. SUFFICES ASSUME RoundInv, phase = "reparse", pc = "done", ~Infinite
                PROVE  ok /\ Content(Values(tree)) = Content(saved)
    BY DEF RoundTrip
  <2>1. ok = TRUE /\ DOMAIN tree = DOMAIN saved /\ \A p \in DOMAIN saved: Same(tree[p].value, saved[p])
    BY DEF RoundInv, ReadAs
  <2>2. \A p \in DOMAIN saved: Integral(tree[p].value) = Integral(saved[p])
    BY <2>1 DEF Same
  <2>. QED  BY <2>1, <2>2 DEF Content, Values
<1>. QED  BY <1>1, <1>2, TreeAlways, RoundStep, ProgramAlways, PTL DEF JsonSpec

=============================================================================
