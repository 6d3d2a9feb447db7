-------------------------------- MODULE Base64 --------------------------------
(***************************************************************************)
(* ac-lib/base64.c as functions on sequences of bytes and of characters    *)
(* (ASCII codes).  The terminating NUL of a string is left out of          *)
(* sequences, but counted in the lengths.                                  *)
(***************************************************************************)
EXTENDS Integers, Sequences, SequencesExt

(* The alphabet, and its inverse: 64 for what is not in the alphabet.       *)
basis_64 == [v \in 0..63 |-> CASE v < 26 -> 65 + v          \* A-Z
                               [] v \in 26..51 -> 71 + v    \* a-z
                               [] v \in 52..61 -> v - 4     \* 0-9
                               [] v = 62 -> 43              \* +
                               [] OTHER -> 47]              \* /

pr2six == [c \in 0..255 |-> CASE c \in 65..90 -> c - 65
                              [] c \in 97..122 -> c - 71
                              [] c \in 48..57 -> c + 4
                              [] c = 43 -> 62
                              [] c = 47 -> 63
                              [] OTHER -> 64]

Pad == 61    \* =

(* The size of the buffer an encoding needs.                                *)
Base64encode_len(len) == ((len + 2) \div 3) * 4 + 1

(* Four characters for three bytes; where string ends within the three,     *)
(* zero bits follow, and = stands for characters without any bit of it.     *)
Base64encode(string) ==
  LET len == Len(string)
      byte(i) == IF i < len THEN string[i + 1] ELSE 0
      char(i, j) ==
        CASE j = 0 -> basis_64[byte(i) \div 4]
          [] j = 1 -> basis_64[(byte(i) % 4) * 16 + byte(i + 1) \div 16]
          [] j = 2 -> IF i + 1 >= len THEN Pad
                      ELSE basis_64[(byte(i + 1) % 16) * 4 + byte(i + 2) \div 64]
          [] j = 3 -> IF i + 2 >= len THEN Pad ELSE basis_64[byte(i + 2) % 64]
  IN  [k \in 1..(Base64encode_len(len) - 1) |->
         char(3 * ((k - 1) \div 4), (k - 1) % 4)]

(* The characters before the first that is not in the alphabet.             *)
nprbytes(bufcoded) ==
  LET stop == SelectInSeq(bufcoded, LAMBDA c : pr2six[c] > 63)
  IN  IF stop = 0 THEN Len(bufcoded) ELSE stop - 1

Base64decode_len(bufcoded) == ((nprbytes(bufcoded) + 3) \div 4) * 3 + 1

(* The number of bytes that Base64decode returns: the last group counts     *)
(* for one byte less for each character it lacks.                           *)
nbytesdecoded(bufcoded) ==
  LET n == nprbytes(bufcoded)
  IN  ((n + 3) \div 4) * 3 - ((4 - (n % 4)) % 4)

Base64decode(bufcoded) ==
  LET six(i) == pr2six[bufcoded[i + 1]]
      byte(i, j) ==
        CASE j = 0 -> six(i) * 4 + six(i + 1) \div 16
          [] j = 1 -> (six(i + 1) % 16) * 16 + six(i + 2) \div 4
          [] j = 2 -> (six(i + 2) % 4) * 64 + six(i + 3)
  IN  [k \in 1..nbytesdecoded(bufcoded) |->
         byte(4 * ((k - 1) \div 3), (k - 1) % 3)]
===============================================================================
