------------------------------- MODULE LogText -------------------------------
(***************************************************************************)
(* The text of one LogData: Log4zStream (src/sockman/log4z/log4z.h), which *)
(* writes into what is left of the buffer, and the end of pushLog          *)
(* (log4z.cpp), which closes the line.  A character is "c", or the one of  *)
(* the control characters that it is; a buffer is a record of what is in   *)
(* the memory, where the next character goes, and which of the memory the  *)
(* stream may use.                                                         *)
(*                                                                         *)
(* A piece is what one << writes: [kind |-> "data"] for a number or a      *)
(* character (snprintf), "string" for a string (memcpy), "container" for a *)
(* container that is not empty, its name and elements taken as one string. *)
(***************************************************************************)
EXTENDS Integers, Sequences

CONSTANT BufSize      \* LOG4Z_LOG_BUF_SIZE

ASSUME BufSizeAssumption == BufSize \in Nat /\ BufSize >= 4

Char == {"?", "c", "NUL", "CR", "LF"}
Cells == 0..BufSize - 1

\* text[i] for i >= BufSize is no cell: there is none to write to.
Buffers == [text: [Cells -> Char], cur: Nat]

Put(text, i, ch) == [text EXCEPT ![i] = ch]

\* The cells from i on, n of them, hold characters.
Written(text, i, n) == [j \in Cells |-> IF j \in i..i + n - 1 THEN "c" ELSE text[j]]

\* writeData: what does not fit is cut off, and a NUL put over the last of it.
WriteData(b, n) ==
  LET count == BufSize - b.cur
  IN IF count <= 0 THEN b
     ELSE IF n < count
          THEN [text |-> Put(Written(b.text, b.cur, n), b.cur + n, "NUL"),
                cur |-> b.cur + n]
          ELSE [text |-> Put(Written(b.text, b.cur, count), BufSize - 1, "NUL"),
                cur |-> BufSize]

\* Mutant: the test whether the string fits is forgotten.
WriteStringUncut(b, n) ==
  IF b.cur >= BufSize THEN b
  ELSE [text |-> Written(b.text, b.cur, n), cur |-> b.cur + n]

\* writeString: the NUL goes behind the character that comes next.
WriteString(b, n) ==
  LET count == BufSize - b.cur
      len   == IF n > count THEN count ELSE n
      cur   == b.cur + len
  IN IF count <= 0 THEN b
     ELSE [text |-> Put(Written(b.text, b.cur, len),
                        IF cur >= BufSize - 1 THEN BufSize - 1 ELSE cur + 1, "NUL"),
           cur |-> cur]

\* After the elements of a container the last ", " is taken back, even if there
\* was no room for it, and "]" follows.
WriteContainer(b, n) ==
  LET all == WriteString(b, n)
  IN WriteString([all EXCEPT !.cur = @ - 2], 1)

\* The ", " that is taken back has been written.
Piece == [kind: {"data", "string"}, len: Nat] \cup [kind: {"container"}, len: Nat \ 0..1]

Write(b, piece) ==
  CASE piece.kind = "data" -> WriteData(b, piece.len)
    [] piece.kind = "string" -> WriteString(b, piece.len)
    [] piece.kind = "container" -> WriteContainer(b, piece.len)

\* makeLogData: the time and the level, in a block with anything in it.
Prefix(n) == [text |-> [Written([j \in Cells |-> "?"], 0, n) EXCEPT ![n] = "NUL"], cur |-> n]

\* LOG_STREAM
Stream(b, pieces) ==
  LET after[n \in 0..Len(pieces)] == IF n = 0 THEN b ELSE Write(after[n - 1], pieces[n])
  IN after[Len(pieces)]

\* pushLog: CR, LF and NUL end the line, over its last characters when there
\* is no room behind them.
EndLine(b) ==
  LET low == IF b.cur < 3 THEN 3 ELSE b.cur
      len == IF low + 3 <= BufSize THEN low + 3 ELSE low
  IN [text |-> Put(Put(Put(b.text, len - 1, "NUL"), len - 2, "LF"), len - 3, "CR"),
      cur |-> len - 1]

\* The file has text[0..cur - 1], the screen everything before the first NUL.
IsLine(b) ==
  /\ b.cur \in 2..BufSize - 1
  /\ \A i \in 0..b.cur - 1: b.text[i] # "NUL"
  /\ b.text[b.cur] = "NUL" /\ b.text[b.cur - 1] = "LF" /\ b.text[b.cur - 2] = "CR"
=============================================================================
