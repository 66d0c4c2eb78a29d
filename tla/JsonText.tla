------------------------------- MODULE JsonText -------------------------------
(***************************************************************************)
(* Numbers and strings between their text and their value: decodeNumber,   *)
(* decodeDouble, decodeString of Json::Reader, valueToString and           *)
(* valueToQuotedString of the writers (src/sockman/jsoncpp.cpp).           *)
(*                                                                         *)
(* The text of a number is [neg, digits, form]: a sign, decimal digits,    *)
(* and what else the token has in it: "digits" nothing, "real" a point or  *)
(* an exponent, "inf" an exponent beyond a double, "junk" nothing that     *)
(* sscanf understands.  The inside of a quoted string is a sequence of     *)
(* [esc |-> FALSE, code |-> a byte] and [esc |-> TRUE, ...]: an escape,    *)
(* its letter, and the code of \uXXXX.                                     *)
(***************************************************************************)
EXTENDS Integers, SequencesExt

CONSTANTS
  MaxInt,         \* Value::maxInt
  LargestInt      \* 2^63, where LargestInt ends: its values are -2^63..2^63 - 1

ASSUME WidthAssumption ==
  /\ LargestInt \in Nat /\ LargestInt % 2 = 0 /\ LargestInt > 9
  /\ MaxInt \in 0..LargestInt - 1

Word == 2 * LargestInt

OVERFLOW == -1    \* the loop gives up: the number is decoded as a double

Failed == [type |-> "failed"]
Infinity == [type |-> "infinite"]   \* a realValue that is an infinite double

-----------------------------------------------------------------------------
(* Numbers *)

\* Mutant: the last digit of the largest number is not let through.
DigitsStrict(digits, max) ==
  LET read[i \in 0..Len(digits)] ==
        IF i = 0 THEN 0
        ELSE IF read[i - 1] = OVERFLOW \/ read[i - 1] >= max \div 10 THEN OVERFLOW
        ELSE (read[i - 1] * 10 + digits[i]) % Word
  IN read[Len(digits)]

\* decodeNumber's loop: a LargestUInt, tested before each digit is added.
Digits(digits, max) ==
  LET read[i \in 0..Len(digits)] ==
        IF i = 0 THEN 0
        ELSE IF \/ read[i - 1] = OVERFLOW
                \/ /\ read[i - 1] >= max \div 10
                   /\ i # Len(digits) \/ digits[i] > max % 10
             THEN OVERFLOW
        ELSE (read[i - 1] * 10 + digits[i]) % Word
  IN read[Len(digits)]

\* -LargestInt(value)
Negated(value) == LET v == (Word - value) % Word IN IF v >= LargestInt THEN v - Word ELSE v

\* What the digits stand for.
Number(t) ==
  LET value[i \in 0..Len(t.digits)] == IF i = 0 THEN 0 ELSE value[i - 1] * 10 + t.digits[i]
      n == value[Len(t.digits)]
  IN IF t.neg THEN -n ELSE n

\* sscanf, of a double wide enough for the numbers in use: what it holds is exact,
\* and valueToString has digits enough for it.
DecodeDouble(t) ==
  CASE t.form = "junk" -> Failed
    [] t.form = "inf"  -> Infinity
    [] OTHER           -> [type |-> "real", num |-> Number(t)]

DecodeNumber(t) ==
  LET value == Digits(t.digits, IF t.neg THEN LargestInt ELSE Word - 1)
  IN IF t.form # "digits" \/ value = OVERFLOW THEN DecodeDouble(t)
     ELSE IF t.neg THEN [type |-> "int", num |-> Negated(value)]
     ELSE [type |-> IF value <= MaxInt THEN "int" ELSE "uint", num |-> value]

\* uintToString
DigitsOf(n) ==
  LET digits[m \in 0..n] == IF m < 10 THEN <<m>> ELSE Append(digits[m \div 10], m % 10)
  IN digits[n]

\* valueToString
NumberText(v) ==
  IF v = Infinity THEN [type |-> "error"]
  ELSE [type |-> "number", neg |-> v.num < 0,
        digits |-> DigitsOf(IF v.num < 0 THEN -v.num ELSE v.num),
        form |-> IF v.type = "real" THEN "real" ELSE "digits"]

-----------------------------------------------------------------------------
(* Strings *)

\* A piece of a string: a byte, or an escape; a \uXXXX has its four digits as a number.
Byte == {n \in Nat: n <= 255}
Code == {n \in Nat: n <= 65535}
Piece == [esc: {FALSE}, code: Byte] \cup [esc: {TRUE}, letter: STRING, code: Code]

Plain(code) == [esc |-> FALSE, code |-> code]
Escape(letter, code) == [esc |-> TRUE, letter |-> letter, code |-> code]

QUOTE == 34
BACKSLASH == 92
SLASH == 47

\* The escapes of one letter, and what they stand for.
Letters == [l \in {"quote", "backslash", "b", "f", "n", "r", "t"} |->
  CASE l = "quote" -> QUOTE [] l = "backslash" -> BACKSLASH [] l = "b" -> 8
    [] l = "f" -> 12 [] l = "n" -> 10 [] l = "r" -> 13 [] l = "t" -> 9]

\* codePointToUTF8
UTF8(cp) ==
  IF cp <= 127 THEN <<cp>>
  ELSE IF cp <= 2047 THEN <<192 + cp \div 64, 128 + (cp % 64)>>
  ELSE IF cp <= 65535
       THEN <<224 + cp \div 4096, 128 + ((cp \div 64) % 64), 128 + (cp % 64)>>
  ELSE IF cp <= 1114111
       THEN <<240 + ((cp \div 262144) % 8), 128 + ((cp \div 4096) % 64),
              128 + ((cp \div 64) % 64), 128 + (cp % 64)>>
  ELSE <<>>

IsHigh(piece) == piece.esc /\ piece.letter = "u" /\ 55296 <= piece.code /\ piece.code <= 56319

\* decodeUnicodeCodePoint: what two \u stand for.
Pair(high, low) == 65536 + (high % 1024) * 1024 + (low % 1024)

\* decodeString, piece by piece: a high surrogate waits for the next \u.
DecodePiece(s, piece) ==
  IF s.failed THEN s
  ELSE IF s.high # 0
       THEN IF piece.esc /\ piece.letter = "u"
            THEN [s EXCEPT !.high = 0,
                    !.text = @ \o UTF8(Pair(s.high, piece.code))]
            ELSE [s EXCEPT !.failed = TRUE]
  ELSE IF ~piece.esc
       THEN IF piece.code \in {QUOTE, BACKSLASH} THEN [s EXCEPT !.failed = TRUE]
            ELSE [s EXCEPT !.text = Append(@, piece.code)]
  ELSE IF IsHigh(piece) THEN [s EXCEPT !.high = piece.code]
  ELSE IF piece.letter = "u" THEN [s EXCEPT !.text = @ \o UTF8(piece.code)]
  ELSE IF piece.letter = "slash" THEN [s EXCEPT !.text = Append(@, SLASH)]
  ELSE IF piece.letter \in DOMAIN Letters THEN [s EXCEPT !.text = Append(@, Letters[piece.letter])]
  ELSE [s EXCEPT !.failed = TRUE]

DecodeString(t) ==
  LET read[i \in 0..Len(t.pieces)] ==
        IF i = 0 THEN [text |-> <<>>, high |-> 0, failed |-> FALSE]
        ELSE DecodePiece(read[i - 1], t.pieces[i])
      s == read[Len(t.pieces)]
  IN IF s.failed \/ s.high # 0 THEN Failed ELSE [type |-> "string", text |-> s.text]

\* c_str(): a text ends before its first NUL.
CStr(text) == SubSeq(text, 1, Min({i \in 1..Len(text) + 1: i > Len(text) \/ text[i] = 0}) - 1)

\* Mutant: a backslash is written as it is.
QuotePieceFew(c) ==
  IF c \in {Letters[l]: l \in DOMAIN Letters} \ {BACKSLASH}
  THEN Escape(CHOOSE l \in DOMAIN Letters: Letters[l] = c, 0)
  ELSE IF c \in 1..31 THEN Escape("u", c) ELSE Plain(c)

\* valueToQuotedString
QuotePiece(c) ==
  IF c \in {Letters[l]: l \in DOMAIN Letters}
  THEN Escape(CHOOSE l \in DOMAIN Letters: Letters[l] = c, 0)
  ELSE IF c \in 1..31 THEN Escape("u", c) ELSE Plain(c)

StringText(text) == [type |-> "string", pieces |-> [i \in DOMAIN text |-> QuotePiece(text[i])]]
=============================================================================
