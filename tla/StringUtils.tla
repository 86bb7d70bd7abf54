---------------------------- MODULE StringUtils ----------------------------
(* Bytes to hexadecimal text and back.  A text is a sequence of characters. *)
EXTENDS Naturals, Sequences

CONSTANT Width \* bits of an int, 16 at least; an int is its bits taken as a number
ASSUME WidthAssumption == 2^Width \in Nat /\ 2^Width >= 65536

Hex == <<"0", "1", "2", "3", "4", "5", "6", "7",
         "8", "9", "A", "B", "C", "D", "E", "F">>
LowerHex == <<"a", "b", "c", "d", "e", "f">>

\* The text has two digits for each byte, the high one first.
BytesToString(data) ==
  [i \in 1..(2 * Len(data)) |->
     LET byte == data[(i + 1) \div 2]
     IN  Hex[1 + IF i % 2 = 1 THEN byte \div 16 ELSE byte % 16]]

HexValues(letter) ==
  {v \in 0..15 : letter = Hex[v + 1] \/ (v >= 10 /\ letter = LowerHex[v - 9])}
GetHexValue(letter) == CHOOSE v \in HexValues(letter) : TRUE

Space == " "
Tab == "\t"
Blank == {Space, Tab}

\* Blanks and "0x" come first; what is not a digit ends the number.
First(text, from, P(_)) ==
  CHOOSE i \in from..(Len(text) + 1) :
    /\ i <= Len(text) => P(text[i])
    /\ \A j \in from..(i - 1) : ~P(text[j])

IsPrefix0x(text, i) ==
  i < Len(text) /\ text[i] = "0" /\ text[i + 1] \in {"x", "X"}

NumberFrom(text, begin) ==
  LET end == First(text, begin, LAMBDA c : HexValues(c) = {})
      number[i \in begin..end] ==
        IF i = begin THEN 0
        ELSE (16 * number[i - 1] + GetHexValue(text[i - 1])) % 2^Width
  IN  number[end]

\* Bug: "0x" is not skipped.
HexStringWithoutPrefix(text) ==
  NumberFrom(text, First(text, 1, LAMBDA c : c \notin Blank))

HexStringToInteger(text) ==
  LET start == First(text, 1, LAMBDA c : c \notin Blank)
  IN  NumberFrom(text, IF IsPrefix0x(text, start) THEN start + 2 ELSE start)
=============================================================================
