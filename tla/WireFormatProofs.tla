---------------------------- MODULE WireFormatProofs --------------------------
(***************************************************************************)
(* Proofs about WireFormat and the Base64 it uses, for any text, key size  *)
(* and block size: decoding an encoding gives what was encoded, how long   *)
(* the texts are that are sent, and what strtok finds in them.             *)
(***************************************************************************)
EXTENDS WireFormat, Recursion

(* A function on the first n numbers is a sequence of length n.             *)
LEMMA Sequence ==
  ASSUME NEW n \in Nat, NEW S, NEW f \in [1..n -> S]
  PROVE  f \in Seq(S) /\ Len(f) = n
OBVIOUS

(* A sequence has a length, and its elements are of its set.                *)
LEMMA Elements ==
  ASSUME NEW S, NEW s \in Seq(S)
  PROVE  Len(s) \in Nat /\ \A k \in 1..Len(s) : s[k] \in S
OBVIOUS

(* Character 4 q + j + 1 of the encoding of s, and byte i of s.             *)
ByteOf(s, i) == IF i < Len(s) THEN s[i + 1] ELSE 0
(* Character j of group q of the encoding of s, as Base64encode computes    *)
(* it.                                                                      *)
CharOf(s, q, j) ==
  CASE j = 0 -> basis_64[ByteOf(s, 3 * q) \div 4]
    [] j = 1 -> basis_64[(ByteOf(s, 3 * q) % 4) * 16 + ByteOf(s, 3 * q + 1) \div 16]
    [] j = 2 -> IF 3 * q + 1 >= Len(s) THEN Pad
                ELSE basis_64[(ByteOf(s, 3 * q + 1) % 16) * 4 + ByteOf(s, 3 * q + 2) \div 64]
    [] j = 3 -> IF 3 * q + 2 >= Len(s) THEN Pad ELSE basis_64[ByteOf(s, 3 * q + 2) % 64]

(* How long an encoding is.                                                 *)
EncodedLength(n) == ((n + 2) \div 3) * 4

(* The encoding, character by character.                                    *)
LEMMA EncodedChars ==
  ASSUME NEW s \in Seq(0..255)
  PROVE  Base64encode(s) =
           [k \in 1..EncodedLength(Len(s)) |-> CharOf(s, (k - 1) \div 4, (k - 1) % 4)]
<1>1. Base64encode_len(Len(s)) - 1 = EncodedLength(Len(s))
  BY DEF Base64encode_len, EncodedLength
<1> QED
  BY <1>1 DEF Base64encode, CharOf, ByteOf

(* The table for decoding is the inverse of the one for encoding.           *)
LEMMA SixBits ==
  ASSUME NEW v \in 0..63
  PROVE  /\ basis_64[v] \in 0..255
         /\ pr2six[basis_64[v]] = v
<1>1. CASE v < 26
  <2>1. basis_64[v] = 65 + v
    BY <1>1 DEF basis_64
  <2>2. pr2six[65 + v] = 65 + v - 65
    BY <1>1 DEF pr2six
  <2> QED
    BY <1>1, <2>1, <2>2
<1>2. CASE v \in 26..51
  <2>1. basis_64[v] = 71 + v
    BY <1>2 DEF basis_64
  <2>2. pr2six[71 + v] = 71 + v - 71
    BY <1>2 DEF pr2six
  <2> QED
    BY <1>2, <2>1, <2>2
<1>3. CASE v \in 52..61
  <2>1. basis_64[v] = v - 4
    BY <1>3 DEF basis_64
  <2>2. pr2six[v - 4] = v - 4 + 4
    BY <1>3 DEF pr2six
  <2> QED
    BY <1>3, <2>1, <2>2
<1>4. CASE v = 62
  BY <1>4 DEF basis_64, pr2six
<1>5. CASE v = 63
  BY <1>5 DEF basis_64, pr2six
<1>6. v < 26 \/ v \in 26..51 \/ v \in 52..61 \/ v = 62 \/ v = 63
  OBVIOUS
<1> QED
  BY <1>1, <1>2, <1>3, <1>4, <1>5, <1>6, Zenon

(* Decoding stops at padding.                                               *)
LEMMA PadStops == Pad \in 0..255 /\ pr2six[Pad] = 64
BY DEF Pad, pr2six

(* What is encoded behind the end of the text is zero.                      *)
LEMMA ByteType ==
  ASSUME NEW s \in Seq(0..255), NEW i \in Nat
  PROVE  ByteOf(s, i) \in 0..255
<1>1. CASE i < Len(s)
  <2>1. i + 1 \in 1..Len(s)
    BY <1>1
  <2>2. \A k \in 1..Len(s) : s[k] \in 0..255
    BY Elements
  <2>3. ByteOf(s, i) = s[i + 1]
    BY <1>1 DEF ByteOf
  <2> QED
    BY <2>1, <2>2, <2>3
<1>2. CASE ~ (i < Len(s))
  BY <1>2 DEF ByteOf
<1> QED
  BY <1>1, <1>2

(* The parts that the code shifts and masks a byte into.                    *)
LEMMA Splits ==
  ASSUME NEW a \in 0..255
  PROVE  /\ a \div 4 \in 0..63 /\ a % 4 \in 0..3 /\ a = 4 * (a \div 4) + (a % 4)
         /\ a \div 16 \in 0..15 /\ a % 16 \in 0..15 /\ a = 16 * (a \div 16) + (a % 16)
         /\ a \div 64 \in 0..3 /\ a % 64 \in 0..63 /\ a = 64 * (a \div 64) + (a % 64)
OBVIOUS

(* The parts that the code joins by shifts can be told apart again.         *)
LEMMA Joins ==
  ASSUME NEW q \in Nat, NEW r \in Nat
  PROVE  /\ r < 4 => (q * 4 + r) \div 4 = q /\ (q * 4 + r) % 4 = r
         /\ r < 16 => (q * 16 + r) \div 16 = q /\ (q * 16 + r) % 16 = r
OBVIOUS

(* The six bits of each character, and the bytes they make together.        *)
Sixes(a, b, c) ==
  /\ a \div 4 \in 0..63 /\ (a % 4) * 16 + b \div 16 \in 0..63
  /\ (b % 16) * 4 + c \div 64 \in 0..63 /\ c % 64 \in 0..63

(* Four characters give back the three bytes they were made of.             *)
Bytes3(a, b, c) ==
  /\ (a \div 4) * 4 + ((a % 4) * 16 + b \div 16) \div 16 = a
  /\ (((a % 4) * 16 + b \div 16) % 16) * 16 + ((b % 16) * 4 + c \div 64) \div 4 = b
  /\ (((b % 16) * 4 + c \div 64) % 4) * 64 + (c % 64) = c

(* The arithmetic of a group of three bytes.                                *)
LEMMA Bits ==
  ASSUME NEW a \in 0..255, NEW b \in 0..255, NEW c \in 0..255
  PROVE  Sixes(a, b, c) /\ Bytes3(a, b, c)
<1> DEFINE a1 == a \div 4
           a2 == a % 4
           b1 == b \div 16
           b2 == b % 16
           c1 == c \div 64
           c2 == c % 64
<1>1. /\ a1 \in 0..63 /\ a2 \in 0..3 /\ a = 4 * a1 + a2
      /\ b1 \in 0..15 /\ b2 \in 0..15 /\ b = 16 * b1 + b2
      /\ c1 \in 0..3 /\ c2 \in 0..63 /\ c = 64 * c1 + c2
  BY Splits
<1> HIDE DEF a1, a2, b1, b2, c1, c2
<1>2. (a2 * 16 + b1) \div 16 = a2 /\ (a2 * 16 + b1) % 16 = b1
  <2>1. a2 \in Nat /\ b1 \in Nat /\ b1 < 16
    BY <1>1
  <2> QED
    BY <2>1, Joins
<1>3. (b2 * 4 + c1) \div 4 = b2 /\ (b2 * 4 + c1) % 4 = c1
  <2>1. b2 \in Nat /\ c1 \in Nat /\ c1 < 4
    BY <1>1
  <2> QED
    BY <2>1, Joins
<1>4. a1 * 4 + a2 = a /\ b1 * 16 + b2 = b /\ c1 * 64 + c2 = c
  BY <1>1
<1>5. a1 * 4 + (a2 * 16 + b1) \div 16 = a
  BY <1>2, <1>4
<1>6. ((a2 * 16 + b1) % 16) * 16 + (b2 * 4 + c1) \div 4 = b
  BY <1>2, <1>3, <1>4
<1>7. ((b2 * 4 + c1) % 4) * 64 + c2 = c
  BY <1>3, <1>4
<1>8. a2 * 16 + b1 \in 0..63 /\ b2 * 4 + c1 \in 0..63
  BY <1>1
<1> QED
  BY <1>1, <1>5, <1>6, <1>7, <1>8 DEF a1, a2, b1, b2, c1, c2, Sixes, Bytes3

(* The six bits that character j of group q stands for.                     *)
SixOf(s, q, j) ==
  CASE j = 0 -> ByteOf(s, 3 * q) \div 4
    [] j = 1 -> (ByteOf(s, 3 * q) % 4) * 16 + ByteOf(s, 3 * q + 1) \div 16
    [] j = 2 -> (ByteOf(s, 3 * q + 1) % 16) * 4 + ByteOf(s, 3 * q + 2) \div 64
    [] j = 3 -> ByteOf(s, 3 * q + 2) % 64

(* A character of an encoding is that of its six bits, or padding.          *)
LEMMA CharIs ==
  ASSUME NEW s \in Seq(0..255), NEW q \in Nat, NEW j \in 0..3
  PROVE  /\ SixOf(s, q, j) \in 0..63
         /\ CharOf(s, q, j) = IF j >= 2 /\ 3 * q + j - 1 >= Len(s) THEN Pad
                             ELSE basis_64[SixOf(s, q, j)]
<1> DEFINE a == ByteOf(s, 3 * q)
           b == ByteOf(s, 3 * q + 1)
           c == ByteOf(s, 3 * q + 2)
<1>1. a \in 0..255 /\ b \in 0..255 /\ c \in 0..255
  <2>1. 3 * q \in Nat /\ 3 * q + 1 \in Nat /\ 3 * q + 2 \in Nat
    OBVIOUS
  <2> QED
    BY <2>1, ByteType
<1>2. /\ a \div 4 \in 0..63 /\ (a % 4) * 16 + b \div 16 \in 0..63
      /\ (b % 16) * 4 + c \div 64 \in 0..63 /\ c % 64 \in 0..63
  <2> HIDE DEF a, b, c
  <2>1. Sixes(a, b, c)
    BY <1>1, Bits
  <2> QED
    BY <2>1 DEF Sixes
<1>3. SixOf(s, q, j) \in 0..63
  BY <1>2 DEF SixOf
<1>4. CharOf(s, q, j) = IF j >= 2 /\ 3 * q + j - 1 >= Len(s) THEN Pad
                       ELSE basis_64[SixOf(s, q, j)]
  <2>1. CASE j = 0
    BY <2>1 DEF CharOf, SixOf
  <2>2. CASE j = 1
    BY <2>2 DEF CharOf, SixOf
  <2>3. CASE j = 2
    <3>1. 3 * q + j - 1 = 3 * q + 1
      BY <2>3
    <3> QED
      BY <2>3, <3>1 DEF CharOf, SixOf
  <2>4. CASE j = 3
    <3>1. 3 * q + j - 1 = 3 * q + 2
      BY <2>4
    <3> QED
      BY <2>4, <3>1 DEF CharOf, SixOf
  <2> QED
    BY <2>1, <2>2, <2>3, <2>4
<1> QED
  BY <1>3, <1>4

(* Looking up a character gives its six bits, and 64 for padding.           *)
LEMMA CharSix ==
  ASSUME NEW s \in Seq(0..255), NEW q \in Nat, NEW j \in 0..3
  PROVE  /\ CharOf(s, q, j) \in 0..255
         /\ SixOf(s, q, j) \in 0..63
         /\ pr2six[CharOf(s, q, j)] =
              IF j >= 2 /\ 3 * q + j - 1 >= Len(s) THEN 64 ELSE SixOf(s, q, j)
<1>3. SixOf(s, q, j) \in 0..63
  BY CharIs
<1>4. CharOf(s, q, j) = IF j >= 2 /\ 3 * q + j - 1 >= Len(s) THEN Pad
                       ELSE basis_64[SixOf(s, q, j)]
  BY CharIs
<1>5. CASE j >= 2 /\ 3 * q + j - 1 >= Len(s)
  <2>1. CharOf(s, q, j) = Pad
    BY <1>4, <1>5, Zenon
  <2> QED
    BY <1>3, <1>5, <2>1, PadStops
<1>6. CASE ~ (j >= 2 /\ 3 * q + j - 1 >= Len(s))
  <2>1. CharOf(s, q, j) = basis_64[SixOf(s, q, j)]
    BY <1>4, <1>6
  <2> DEFINE v == SixOf(s, q, j)
             x == CharOf(s, q, j)
  <2>2. v \in 0..63 /\ x = basis_64[v]
    BY <1>3, <2>1
  <2> HIDE DEF v, x
  <2>3. x \in 0..255 /\ pr2six[x] = v
    BY <2>2, SixBits
  <2>4. CharOf(s, q, j) \in 0..255 /\ pr2six[CharOf(s, q, j)] = SixOf(s, q, j)
    BY <2>3, Zenon DEF v, x
  <2> QED
    BY <1>3, <1>6, <2>4
<1> QED
  BY <1>5, <1>6

(* An encoding consists of characters, four for each group of three bytes.  *)
THEOREM EncodedText ==
  ASSUME NEW s \in Seq(0..255)
  PROVE  /\ Base64encode(s) \in Seq(0..255)
         /\ Len(Base64encode(s)) = EncodedLength(Len(s))
         /\ \A q \in Nat : \A j \in 0..3 : 4 * q + j < EncodedLength(Len(s)) =>
              Base64encode(s)[4 * q + j + 1] = CharOf(s, q, j)
<1> DEFINE n == EncodedLength(Len(s))
           e == Base64encode(s)
<1>1. n \in Nat
  BY DEF EncodedLength
<1>2. e = [k \in 1..n |-> CharOf(s, (k - 1) \div 4, (k - 1) % 4)]
  BY EncodedChars
<1>3. \A k \in 1..n : (k - 1) \div 4 \in Nat /\ (k - 1) % 4 \in 0..3
  BY <1>1
<1> HIDE DEF e, n
<1>4. \A k \in 1..n : CharOf(s, (k - 1) \div 4, (k - 1) % 4) \in 0..255
  BY <1>3, CharSix
<1>5. e \in [1..n -> 0..255]
  BY <1>2, <1>4
<1>6. e \in Seq(0..255) /\ Len(e) = n
  BY <1>1, <1>5, Sequence
<1>7. ASSUME NEW q \in Nat, NEW j \in 0..3, 4 * q + j < n
      PROVE  e[4 * q + j + 1] = CharOf(s, q, j)
  <2>1. 4 * q + j + 1 \in 1..n /\ 4 * q + j + 1 - 1 = 4 * q + j
    BY <1>1, <1>7
  <2>2. (4 * q + j) \div 4 = q /\ (4 * q + j) % 4 = j
    OBVIOUS
  <2> QED
    BY <1>2, <2>1, <2>2
<1> QED
  BY <1>6, <1>7 DEF e, n

(* Where decoding stops.                                                    *)
LEMMA StopsAt ==
  ASSUME NEW b \in Seq(0..255), NEW P \in 0..Len(b),
         \A k \in 1..P : ~ (pr2six[b[k]] > 63),
         P < Len(b) => pr2six[b[P + 1]] > 63
  PROVE  nprbytes(b) = P
<1> DEFINE I == {i \in 1..Len(b) : pr2six[b[i]] > 63}
           stop == IF I # {} THEN Min(I) ELSE 0
<1>1. nprbytes(b) = IF stop = 0 THEN Len(b) ELSE stop - 1
  BY DEF nprbytes, SelectInSeq
<1>5. \A k \in 1..Len(b) : k \in 1..P \/ P + 1 <= k
  OBVIOUS
<1>2. CASE P = Len(b)
  <2>1. I = {}
    BY <1>2
  <2> QED
    BY <1>1, <1>2, <2>1
<1>3. CASE P < Len(b)
  <2>1. P + 1 \in I
    BY <1>3
  <2>2. \A i \in I : i \in Nat /\ P + 1 <= i
    BY <1>5
  <2> HIDE DEF I
  <2>3. Min(I) = P + 1
    BY <2>1, <2>2 DEF Min
  <2>4. I # {}
    BY <2>1
  <2> QED
    BY <1>1, <2>3, <2>4
<1> QED
  BY <1>2, <1>3

(* The number of characters that are not padding.                           *)
Significant(n) == 4 * (n \div 3) + (IF n % 3 = 0 THEN 0 ELSE (n % 3) + 1)

(* The characters that are not padding are the first ones, and their number *)
(* tells how many bytes there were (the arithmetic of Base64decode_len).    *)
LEMMA Significants ==
  ASSUME NEW n \in Nat
  PROVE  /\ Significant(n) \in 0..EncodedLength(n)
         /\ ((Significant(n) + 3) \div 4) * 3 - ((4 - (Significant(n) % 4)) % 4) = n
         /\ \A q \in Nat : \A j \in 0..3 :
              (4 * q + j < Significant(n)) <=>
                (4 * q + j < EncodedLength(n) /\ ~ (j >= 2 /\ 3 * q + j - 1 >= n))
<1> DEFINE d == n \div 3
           r == n % 3
<1>1. d \in Nat /\ r \in 0..2 /\ n = 3 * d + r
  OBVIOUS
<1>2. Significant(n) = 4 * d + (IF r = 0 THEN 0 ELSE r + 1)
  BY DEF Significant
<1>3. EncodedLength(n) = 4 * (IF r = 0 THEN d ELSE d + 1)
  <2>1. (n + 2) \div 3 = IF r = 0 THEN d ELSE d + 1
    <3> HIDE DEF d, r
    <3> QED
      BY <1>1
  <2> HIDE DEF d, r
  <2> QED
    BY <1>1, <2>1 DEF EncodedLength
<1> HIDE DEF d, r
<1>4. CASE r = 0
  <2>1. Significant(n) = 4 * d /\ EncodedLength(n) = 4 * d /\ n = 3 * d
    BY <1>1, <1>2, <1>3, <1>4
  <2> QED
    BY <1>1, <2>1
<1>5. CASE r = 1
  <2>1. Significant(n) = 4 * d + 2 /\ EncodedLength(n) = 4 * d + 4 /\ n = 3 * d + 1
    BY <1>1, <1>2, <1>3, <1>5
  <2>2. (4 * d + 2 + 3) \div 4 = d + 1 /\ (4 * d + 2) % 4 = 2 /\ (4 - 2) % 4 = 2
    BY <1>1
  <2>3. (d + 1) * 3 - 2 = 3 * d + 1
    BY <1>1
  <2>4. ((Significant(n) + 3) \div 4) * 3 - ((4 - (Significant(n) % 4)) % 4) = n
    BY <2>1, <2>2, <2>3
  <2>5. Significant(n) \in 0..EncodedLength(n)
    BY <1>1, <2>1
  <2>6. ASSUME NEW q \in Nat, NEW j \in 0..3
        PROVE  (4 * q + j < 4 * d + 2) <=>
                 (4 * q + j < 4 * d + 4 /\ ~ (j >= 2 /\ 3 * q + j - 1 >= 3 * d + 1))
    <3>1. CASE q < d
      BY <1>1, <3>1
    <3>2. CASE q = d
      BY <1>1, <3>2
    <3>3. CASE q > d
      BY <1>1, <3>3
    <3> QED
      BY <1>1, <3>1, <3>2, <3>3
  <2> QED
    BY <2>1, <2>4, <2>5, <2>6
<1>6. CASE r = 2
  <2>1. Significant(n) = 4 * d + 3 /\ EncodedLength(n) = 4 * d + 4 /\ n = 3 * d + 2
    BY <1>1, <1>2, <1>3, <1>6
  <2>2. (4 * d + 3 + 3) \div 4 = d + 1 /\ (4 * d + 3) % 4 = 3 /\ (4 - 3) % 4 = 1
    BY <1>1
  <2>3. (d + 1) * 3 - 1 = 3 * d + 2
    BY <1>1
  <2>4. ((Significant(n) + 3) \div 4) * 3 - ((4 - (Significant(n) % 4)) % 4) = n
    BY <2>1, <2>2, <2>3
  <2>5. Significant(n) \in 0..EncodedLength(n)
    BY <1>1, <2>1
  <2>6. ASSUME NEW q \in Nat, NEW j \in 0..3
        PROVE  (4 * q + j < 4 * d + 3) <=>
                 (4 * q + j < 4 * d + 4 /\ ~ (j >= 2 /\ 3 * q + j - 1 >= 3 * d + 2))
    <3>1. CASE q < d
      BY <1>1, <3>1
    <3>2. CASE q = d
      BY <1>1, <3>2
    <3>3. CASE q > d
      BY <1>1, <3>3
    <3> QED
      BY <1>1, <3>1, <3>2, <3>3
  <2> QED
    BY <2>1, <2>4, <2>5, <2>6
<1> QED
  BY <1>1, <1>4, <1>5, <1>6

(* Byte j of group q of what the characters e are decoded to.               *)
DecodedByte(e, q, j) ==
  CASE j = 0 -> pr2six[e[4 * q + 1]] * 4 + pr2six[e[4 * q + 1 + 1]] \div 16
    [] j = 1 -> (pr2six[e[4 * q + 1 + 1]] % 16) * 16 + pr2six[e[4 * q + 2 + 1]] \div 4
    [] j = 2 -> (pr2six[e[4 * q + 2 + 1]] % 4) * 64 + pr2six[e[4 * q + 3 + 1]]

(* What is decoded, byte by byte.                                           *)
LEMMA DecodedBytes ==
  ASSUME NEW e
  PROVE  Base64decode(e) =
           [k \in 1..nbytesdecoded(e) |-> DecodedByte(e, (k - 1) \div 3, (k - 1) % 3)]
BY Zenon DEF Base64decode, DecodedByte

(* What the table says of a character of an encoding: six bits of the text, *)
(* or 64 for the padding.                                                   *)
SixAt(s, q, j) == IF 4 * q + j < Significant(Len(s)) THEN SixOf(s, q, j) ELSE 64

(* What looking up the characters of an encoding gives.                     *)
LEMMA SixesOfEncoding ==
  ASSUME NEW s \in Seq(0..255), NEW q \in Nat, NEW j \in 0..3,
         4 * q + j < EncodedLength(Len(s))
  PROVE  pr2six[Base64encode(s)[4 * q + j + 1]] = SixAt(s, q, j)
<1>0. Len(s) \in Nat
  BY Elements
<1>1. Base64encode(s)[4 * q + j + 1] = CharOf(s, q, j)
  BY EncodedText
<1>2. pr2six[CharOf(s, q, j)] =
        IF j >= 2 /\ 3 * q + j - 1 >= Len(s) THEN 64 ELSE SixOf(s, q, j)
  BY CharSix
<1>3. (4 * q + j < Significant(Len(s))) <=> ~ (j >= 2 /\ 3 * q + j - 1 >= Len(s))
  BY <1>0, Significants
<1> QED
  BY <1>1, <1>2, <1>3, Zenon DEF SixAt

(* Base64decode_len stops an encoding where its padding begins.             *)
LEMMA EncodingStops ==
  ASSUME NEW s \in Seq(0..255)
  PROVE  nprbytes(Base64encode(s)) = Significant(Len(s))
<1> DEFINE e == Base64encode(s)
           L == Len(s)
           P == Significant(L)
           n == EncodedLength(L)
<1>1. L \in Nat
  BY Elements
<1>2. e \in Seq(0..255) /\ Len(e) = n
  BY EncodedText
<1>3. P \in 0..n /\ n \in Nat
  BY <1>1, Significants DEF EncodedLength
<1>4. ASSUME NEW k \in 1..n
      PROVE  (pr2six[e[k]] > 63) <=> ~ (k <= P)
  <2> DEFINE q == (k - 1) \div 4
             j == (k - 1) % 4
  <2>0. k \in Nat /\ k > 0 /\ k <= n
    BY <1>3
  <2>1. q \in Nat /\ j \in 0..3 /\ k = 4 * q + j + 1
    <3> HIDE DEF n
    <3> QED
      BY <2>0
  <2> HIDE DEF q, j
  <2>2. 4 * q + j < n
    BY <1>3, <2>1
  <2>3. pr2six[e[4 * q + j + 1]] = IF 4 * q + j < P THEN SixOf(s, q, j) ELSE 64
    <3>1. pr2six[e[4 * q + j + 1]] = SixAt(s, q, j)
      BY <2>1, <2>2, SixesOfEncoding
    <3> QED
      BY <3>1, Zenon DEF SixAt
  <2>4. SixOf(s, q, j) \in 0..63
    BY <2>1, CharSix
  <2>5. (4 * q + j < P) <=> (k <= P)
    BY <1>3, <2>1
  <2> DEFINE v == pr2six[e[k]]
  <2>6. v = IF k <= P THEN SixOf(s, q, j) ELSE 64
    BY <2>1, <2>3, <2>5, Zenon
  <2> HIDE DEF v
  <2>7. (v > 63) <=> ~ (k <= P)
    <3>1. CASE k <= P
      <4>1. v \in 0..63
        BY <2>4, <2>6, <3>1
      <4> QED
        BY <3>1, <4>1
    <3>2. CASE ~ (k <= P)
      <4>1. v = 64
        BY <2>6, <3>2
      <4> QED
        BY <3>2, <4>1
    <3> QED
      BY <3>1, <3>2
  <2> QED
    BY <2>7 DEF v
<1> HIDE DEF e, L, P, n
<1>5. \A k \in 1..P : k \in 1..n /\ k <= P
  BY <1>3
<1>6. P < n => P + 1 \in 1..n /\ ~ (P + 1 <= P)
  BY <1>3
<1>7. \A k \in 1..P : ~ (pr2six[e[k]] > 63)
  BY <1>4, <1>5
<1>8. P < Len(e) => pr2six[e[P + 1]] > 63
  BY <1>2, <1>4, <1>6
<1>9. P \in 0..Len(e)
  BY <1>2, <1>3
<1> QED
  BY <1>2, <1>7, <1>8, <1>9, StopsAt DEF e, P, L

(* Base64decode gives back what Base64encode was given, whatever its length *)
(* and its bytes (ac-lib/base64.c): the words of a message, which are bytes *)
(* of any value, survive being sent as text.                                *)
THEOREM RoundTrip ==
  ASSUME NEW s \in Seq(0..255)
  PROVE  Base64decode(Base64encode(s)) = s
<1> DEFINE e == Base64encode(s)
           L == Len(s)
           P == Significant(L)
           n == EncodedLength(L)
<1>1. L \in Nat
  BY Elements
<1>2. n \in Nat /\ P \in 0..n
  BY <1>1, Significants DEF EncodedLength
<1>3. nbytesdecoded(e) = L
  <2>1. nprbytes(e) = P
    BY EncodingStops
  <2>2. ((P + 3) \div 4) * 3 - ((4 - (P % 4)) % 4) = L
    BY <1>1, Significants
  <2> QED
    BY <2>1, <2>2 DEF nbytesdecoded
<1>4. ASSUME NEW q \in Nat, NEW j \in 0..2, 3 * q + j < L
      PROVE  DecodedByte(e, q, j) = s[3 * q + j + 1]
  <2> DEFINE a == ByteOf(s, 3 * q)
             b == ByteOf(s, 3 * q + 1)
             c == ByteOf(s, 3 * q + 2)
  <2>1. ASSUME NEW i \in 0..3, i <= j + 1
        PROVE  pr2six[e[4 * q + i + 1]] = SixOf(s, q, i)
    <3>1. ~ (i >= 2 /\ 3 * q + i - 1 >= L)
      BY <1>1, <1>4, <2>1
    <3>2. 4 * q + i < n
      <4>1. q < (L + 2) \div 3
        BY <1>1, <1>4
      <4>2. n = ((L + 2) \div 3) * 4 /\ (L + 2) \div 3 \in Nat
        BY <1>1 DEF EncodedLength
      <4> DEFINE g == (L + 2) \div 3
      <4> HIDE DEF g, n
      <4> QED
        BY <4>1, <4>2 DEF g
    <3>3. 4 * q + i < P
      BY <1>1, <3>1, <3>2, Significants
    <3>4. pr2six[e[4 * q + i + 1]] = SixAt(s, q, i)
      BY <3>2, SixesOfEncoding
    <3> QED
      BY <3>3, <3>4, Zenon DEF SixAt
  <2>2. a \in 0..255 /\ b \in 0..255 /\ c \in 0..255
    <3>1. 3 * q \in Nat /\ 3 * q + 1 \in Nat /\ 3 * q + 2 \in Nat
      OBVIOUS
    <3> QED
      BY <3>1, ByteType
  <2>3. ByteOf(s, 3 * q + j) = s[3 * q + j + 1]
    BY <1>4 DEF ByteOf
  <2>4. /\ SixOf(s, q, 0) = a \div 4
        /\ SixOf(s, q, 1) = (a % 4) * 16 + b \div 16
        /\ SixOf(s, q, 2) = (b % 16) * 4 + c \div 64
        /\ SixOf(s, q, 3) = c % 64
    BY DEF SixOf
  <2>5. e[4 * q + 0 + 1] = e[4 * q + 1]
    OBVIOUS
  <2> HIDE DEF a, b, c, e
  <2>6. Bytes3(a, b, c)
    BY <2>2, Bits
  <2>7. CASE j = 0
    <3>1. pr2six[e[4 * q + 1]] = SixOf(s, q, 0) /\ pr2six[e[4 * q + 1 + 1]] = SixOf(s, q, 1)
      BY <2>1, <2>5, <2>7
    <3>2. DecodedByte(e, q, j) = a
      BY <2>4, <2>6, <2>7, <3>1 DEF DecodedByte, Bytes3
    <3>3. 3 * q + j = 3 * q
      BY <2>7
    <3> QED
      BY <2>3, <3>2, <3>3 DEF a
  <2>8. CASE j = 1
    <3>1. pr2six[e[4 * q + 1 + 1]] = SixOf(s, q, 1) /\ pr2six[e[4 * q + 2 + 1]] = SixOf(s, q, 2)
      BY <2>1, <2>8
    <3>2. DecodedByte(e, q, j) = b
      BY <2>4, <2>6, <2>8, <3>1 DEF DecodedByte, Bytes3
    <3> QED
      BY <2>3, <2>8, <3>2 DEF b
  <2>9. CASE j = 2
    <3>1. pr2six[e[4 * q + 2 + 1]] = SixOf(s, q, 2) /\ pr2six[e[4 * q + 3 + 1]] = SixOf(s, q, 3)
      BY <2>1, <2>9
    <3>2. DecodedByte(e, q, j) = c
      BY <2>4, <2>6, <2>9, <3>1 DEF DecodedByte, Bytes3
    <3> QED
      BY <2>3, <2>9, <3>2 DEF c
  <2> QED
    BY <2>7, <2>8, <2>9
<1>5. \A k \in 1..L : DecodedByte(e, (k - 1) \div 3, (k - 1) % 3) = s[k]
  <2> SUFFICES ASSUME NEW k \in 1..L
               PROVE  DecodedByte(e, (k - 1) \div 3, (k - 1) % 3) = s[k]
    OBVIOUS
  <2> DEFINE q == (k - 1) \div 3
             j == (k - 1) % 3
  <2>1. q \in Nat /\ j \in 0..2 /\ k = 3 * q + j + 1
    BY <1>1
  <2> HIDE DEF q, j, e
  <2>2. 3 * q + j < L
    BY <1>1, <2>1
  <2>3. DecodedByte(e, q, j) = s[3 * q + j + 1]
    BY <1>4, <2>1, <2>2
  <2> QED
    BY <2>1, <2>3 DEF q, j
<1>6. Base64decode(e) = [k \in 1..L |-> DecodedByte(e, (k - 1) \div 3, (k - 1) % 3)]
  BY <1>3, DecodedBytes
<1> HIDE DEF e, L
<1>7. Base64decode(e) = [k \in 1..L |-> s[k]]
  BY <1>5, <1>6
<1>8. s = [k \in 1..L |-> s[k]]
  BY DEF L
<1> QED
  BY <1>7, <1>8 DEF e

-------------------------------------------------------------------------------
(* How long an encrypted text of n bytes is.                                *)
SealedLength(n) == (n \div BlockSize + 1) * BlockSize

(* The types of what a text of n bytes is sealed to.                        *)
IsSealed(sealed, n) ==
  /\ SealedLength(n) \in Nat
  /\ sealed.msg \in Seq(0..255) /\ Len(sealed.msg) = SealedLength(n)
  /\ sealed.key \in Seq(0..255) /\ Len(sealed.key) = KeySize
  /\ sealed.iv \in Seq(0..255) /\ Len(sealed.iv) = IvSize

(* What EVP_SealInit, EVP_SealUpdate and EVP_SealFinal give.                *)
LEMMA SealedTypes ==
  ASSUME NEW id \in Nat, NEW n \in Nat
  PROVE  IsSealed(EVP_Seal(id, n), n)
<1>1. BlockSize \in Nat \ {0} /\ KeySize \in Nat /\ IvSize \in Nat
  BY WireAssumption
<1>2. SealedLength(n) \in Nat
  <2>1. n \div BlockSize \in Nat
    BY <1>1
  <2> DEFINE d == n \div BlockSize + 1
  <2>2. d \in Nat
    BY <2>1
  <2> HIDE DEF d
  <2>3. d * BlockSize \in Nat
    BY <1>1, <2>2
  <2> QED
    BY <2>3 DEF d, SealedLength
<1>3. \A x : Byte(x) \in 0..255
  BY DEF Byte
<1> DEFINE L == SealedLength(n)
           f == [i \in 1..L |-> Byte(OpenSSL(id, "msg", i))]
           g == [i \in 1..KeySize |-> Byte(OpenSSL(id, "key", i))]
           h == [i \in 1..IvSize |-> Byte(OpenSSL(id, "iv", i))]
<1>4. EVP_Seal(id, n).msg = f /\ EVP_Seal(id, n).key = g /\ EVP_Seal(id, n).iv = h
  BY DEF EVP_Seal, SealedLength
<1>5. f \in [1..L -> 0..255] /\ L \in Nat
  <2> HIDE DEF L
  <2> QED
    BY <1>2, <1>3 DEF L
<1>6. g \in [1..KeySize -> 0..255] /\ h \in [1..IvSize -> 0..255]
  BY <1>1, <1>3
<1> HIDE DEF L, f, g, h
<1>7. /\ f \in Seq(0..255) /\ Len(f) = L
      /\ g \in Seq(0..255) /\ Len(g) = KeySize
      /\ h \in Seq(0..255) /\ Len(h) = IvSize
  BY <1>1, <1>5, <1>6, Sequence
<1> QED
  BY <1>2, <1>4, <1>7 DEF L, IsSealed

(* Two sequences put together.                                              *)
LEMMA Joined ==
  ASSUME NEW S, NEW s \in Seq(S), NEW t \in Seq(S)
  PROVE  s \o t \in Seq(S) /\ Len(s \o t) = Len(s) + Len(t)
OBVIOUS

(* What client_encrypt_msg gives.                                           *)
LEMMA MessageSealed ==
  ASSUME NEW m \in Message
  PROVE  IsSealed(client_encrypt_msg(m), m.len + 1)
<1>1. m.id \in Nat /\ m.len + 1 \in Nat
  BY DEF Message
<1> QED
  BY <1>1, SealedTypes DEF client_encrypt_msg

(* How long the encoding of a text of n characters is.                      *)
EncodingLength(n) ==
  EncodedLength(SealedLength(n + 1) + 1) + EncodedLength(KeySize)
    + EncodedLength(IvSize) + 2

(* Base64encode_len counts the NUL.                                         *)
LEMMA Lengthened ==
  ASSUME NEW n \in Nat
  PROVE  EncodedLength(n) \in Nat /\ EncodedLength(n) = Base64encode_len(n) - 1
BY DEF EncodedLength, Base64encode_len

(* The text msg_encrypt_encode makes of a message.                          *)
LEMMA EncodingTypes ==
  ASSUME NEW m \in Message
  PROVE  /\ msg_encrypt_encode(m) \in Seq(0..255)
         /\ Len(msg_encrypt_encode(m)) = EncodingLength(m.len)
         /\ EncodingLength(m.len) \in Nat
<1> DEFINE sealed == client_encrypt_msg(m)
           e1 == Base64encode(Append(sealed.msg, m.after))
           e2 == Base64encode(sealed.key)
           e3 == Base64encode(sealed.iv)
           B == 0..255
<1>0. m.id \in Nat /\ m.len + 1 \in Nat /\ m.after \in B
  BY DEF Message
<1>1. /\ SealedLength(m.len + 1) \in Nat
      /\ sealed.msg \in Seq(B) /\ Len(sealed.msg) = SealedLength(m.len + 1)
      /\ sealed.key \in Seq(B) /\ Len(sealed.key) = KeySize
      /\ sealed.iv \in Seq(B) /\ Len(sealed.iv) = IvSize
  BY MessageSealed DEF IsSealed
<1>2. msg_encrypt_encode(m) = e1 \o <<Space>> \o e2 \o <<Space>> \o e3
  BY DEF msg_encrypt_encode, parse_encrypted_msg_str
<1>3. Space \in B
  BY DEF Space
<1> DEFINE sp == <<Space>>
<1>4. Append(sealed.msg, m.after) \in Seq(B)
      /\ Len(Append(sealed.msg, m.after)) = SealedLength(m.len + 1) + 1
  <2> HIDE DEF B, sealed
  <2> QED
    BY <1>0, <1>1
<1>5. /\ e1 \in Seq(B) /\ Len(e1) = EncodedLength(SealedLength(m.len + 1) + 1)
      /\ e2 \in Seq(B) /\ Len(e2) = EncodedLength(KeySize)
      /\ e3 \in Seq(B) /\ Len(e3) = EncodedLength(IvSize)
  BY <1>1, <1>4, EncodedText
<1>6. sp \in Seq(B) /\ Len(sp) = 1
  <2> HIDE DEF B
  <2> QED
    BY <1>3
<1>7. /\ EncodedLength(SealedLength(m.len + 1) + 1) \in Nat
      /\ EncodedLength(KeySize) \in Nat /\ EncodedLength(IvSize) \in Nat
  <2>1. KeySize \in Nat /\ IvSize \in Nat /\ SealedLength(m.len + 1) + 1 \in Nat
    BY <1>1, WireAssumption
  <2> QED
    BY <2>1, Lengthened
<1> HIDE DEF e1, e2, e3, sp, B
<1> DEFINE t2 == e1 \o sp
           t3 == t2 \o e2
           t4 == t3 \o sp
           t5 == t4 \o e3
<1>8. t2 \in Seq(B) /\ Len(t2) = Len(e1) + Len(sp)
  BY <1>5, <1>6, Joined
<1> HIDE DEF t2
<1>9. t3 \in Seq(B) /\ Len(t3) = Len(t2) + Len(e2)
  BY <1>5, <1>8, Joined
<1> HIDE DEF t3
<1>10. t4 \in Seq(B) /\ Len(t4) = Len(t3) + Len(sp)
  BY <1>6, <1>9, Joined
<1> HIDE DEF t4
<1>11. t5 \in Seq(B) /\ Len(t5) = Len(t4) + Len(e3)
  BY <1>5, <1>10, Joined
<1> HIDE DEF t5
<1>14. msg_encrypt_encode(m) = t5
  BY <1>2 DEF t5, t4, t3, t2, sp
<1>12. Len(msg_encrypt_encode(m)) = EncodingLength(m.len)
  <2> DEFINE n1 == EncodedLength(SealedLength(m.len + 1) + 1)
             n2 == EncodedLength(KeySize)
             n3 == EncodedLength(IvSize)
  <2>1. n1 \in Nat /\ n2 \in Nat /\ n3 \in Nat
    BY <1>7
  <2>2. EncodingLength(m.len) = n1 + n2 + n3 + 2
    BY DEF EncodingLength
  <2>3. Len(e1) = n1 /\ Len(e2) = n2 /\ Len(e3) = n3
    BY <1>5
  <2> HIDE DEF n1, n2, n3
  <2>4. Len(t5) = n1 + 1 + n2 + 1 + n3
    BY <1>6, <1>8, <1>9, <1>10, <1>11, <2>1, <2>3
  <2> QED
    BY <1>14, <2>1, <2>2, <2>4
<1>13. EncodingLength(m.len) \in Nat
  BY <1>7 DEF EncodingLength
<1> QED
  BY <1>11, <1>12, <1>13, <1>14 DEF B

(* One byte more takes four characters more when the groups are full.       *)
LEMMA NextGroup ==
  ASSUME NEW n \in Nat
  PROVE  EncodedLength(n + 1) = IF n % 3 = 0 THEN EncodedLength(n) + 4 ELSE EncodedLength(n)
<1> DEFINE d == n \div 3
           r == n % 3
<1>1. d \in Nat /\ r \in 0..2 /\ n = 3 * d + r
  OBVIOUS
<1> HIDE DEF d, r
<1>2. (n + 1 + 2) \div 3 = d + 1
  BY <1>1
<1>3. (n + 2) \div 3 = IF r = 0 THEN d ELSE d + 1
  BY <1>1
<1>4. (d + 1) * 4 = d * 4 + 4
  BY <1>1
<1> QED
  BY <1>1, <1>2, <1>3, <1>4 DEF EncodedLength, r

(* The buffer that parse_encrypted_msg_str allocates holds the encoding and *)
(* its NUL if, and only if, the encrypted text does not fill whole groups   *)
(* of three bytes, for the byte that is encoded too many then needs a group *)
(* of its own.                                                              *)
THEOREM EncodingFits ==
  ASSUME NEW m \in Message
  PROVE  Len(msg_encrypt_encode(m)) < encoded_len(client_encrypt_msg(m))
           <=> Len(client_encrypt_msg(m).msg) % 3 # 0
<1> DEFINE sealed == client_encrypt_msg(m)
           L == Len(sealed.msg)
           n2 == EncodedLength(KeySize)
           n3 == EncodedLength(IvSize)
<1>1. /\ L \in Nat /\ L = SealedLength(m.len + 1)
      /\ Len(sealed.key) = KeySize /\ Len(sealed.iv) = IvSize
  BY MessageSealed DEF IsSealed
<1>2. KeySize \in Nat /\ IvSize \in Nat
  BY WireAssumption
<1>3. /\ n2 \in Nat /\ n3 \in Nat /\ EncodedLength(L) \in Nat
      /\ Base64encode_len(L) = EncodedLength(L) + 1
      /\ Base64encode_len(KeySize) = n2 + 1 /\ Base64encode_len(IvSize) = n3 + 1
  <2>1. \A k \in Nat : EncodedLength(k) \in Nat /\ Base64encode_len(k) = EncodedLength(k) + 1
    BY DEF EncodedLength, Base64encode_len
  <2> QED
    BY <1>1, <1>2, <2>1
<1>4. Len(msg_encrypt_encode(m)) = EncodedLength(L + 1) + n2 + n3 + 2
  BY <1>1, EncodingTypes DEF EncodingLength
<1>5. encoded_len(sealed) = EncodedLength(L) + 1 + (n2 + 1) + (n3 + 1) + 3
  BY <1>1, <1>3 DEF encoded_len
<1>6. EncodedLength(L + 1) = IF L % 3 = 0 THEN EncodedLength(L) + 4 ELSE EncodedLength(L)
  BY <1>1, NextGroup
<1> HIDE DEF sealed, L, n2, n3
<1>7. CASE L % 3 = 0
  <2>1. EncodedLength(L + 1) = EncodedLength(L) + 4
    BY <1>6, <1>7
  <2>2. ~ (Len(msg_encrypt_encode(m)) < encoded_len(sealed))
    BY <1>3, <1>4, <1>5, <2>1
  <2> QED
    BY <1>7, <2>2 DEF L, sealed
<1>8. CASE L % 3 # 0
  <2>1. EncodedLength(L + 1) = EncodedLength(L)
    BY <1>6, <1>8
  <2>2. Len(msg_encrypt_encode(m)) < encoded_len(sealed)
    BY <1>3, <1>4, <1>5, <2>1
  <2> QED
    BY <1>8, <2>2 DEF L, sealed
<1> QED
  BY <1>7, <1>8

(* What str_rand gives.                                                     *)
LEMMA RandomTypes ==
  ASSUME NEW n \in Nat
  PROVE  str_rand(n) \in Seq(0..255) /\ Len(str_rand(n)) = n
<1>1. \A i \in Nat : 48 + ((i * 5) % 72) \in 0..255
  OBVIOUS
<1>2. str_rand(n) \in [1..n -> 0..255]
  BY <1>1 DEF str_rand
<1> QED
  BY <1>2, Sequence

(* A part of a sequence, position by position.                              *)
LEMMA SubSeqIs ==
  ASSUME NEW s, NEW a \in Int, NEW b \in Int
  PROVE  SubSeq(s, a, b) = [k \in 1..(1 + b - a) |-> s[k + a - 1]]
OBVIOUS

(* The first characters of a text.                                          *)
LEMMA CutTypes ==
  ASSUME NEW S, NEW s \in Seq(S), NEW n \in Nat, n <= Len(s)
  PROVE  /\ SubSeq(s, 1, n) \in Seq(S) /\ Len(SubSeq(s, 1, n)) = n
         /\ n = Len(s) => SubSeq(s, 1, n) = s
OBVIOUS

(* A text that is put together begins with its first part.                  *)
LEMMA PrefixOfJoin ==
  ASSUME NEW S, NEW s \in Seq(S), NEW t \in Seq(S), Len(t) > 0
  PROVE  IsStrictPrefix(s, s \o t)
<1> DEFINE u == s \o t
<1>1. u \in Seq(S) /\ Len(u) = Len(s) + Len(t)
  BY Joined
<1>2. SubSeq(u, 1, Len(s)) = s
  OBVIOUS
<1>3. SubSeq(s, 1, Len(s)) = s
  BY CutTypes
<1> HIDE DEF u
<1>4. Len(s) <= Len(u) /\ s # u
  BY <1>1
<1> QED
  BY <1>2, <1>3, <1>4 DEF IsStrictPrefix, IsPrefix, u

(* A text that input_send_msg sends has MESSAGE_LENGTH characters and       *)
(* begins with the whole encoding if, and only if, the encoding is shorter. *)
THEOREM PaddedText ==
  ASSUME NEW m \in Message
  PROVE  /\ Padded(m) \in Seq(0..255)
         /\ Len(Padded(m)) \in {MESSAGE_LENGTH, MESSAGE_LENGTH + 1}
         /\ (/\ Len(Padded(m)) = MESSAGE_LENGTH
             /\ IsStrictPrefix(msg_encrypt_encode(m), Padded(m)))
              <=> EncodingLength(m.len) < MESSAGE_LENGTH
<1> DEFINE B == 0..255
           e == msg_encrypt_encode(m)
           n == EncodingLength(m.len)
<1>1. e \in Seq(B) /\ Len(e) = n /\ n \in Nat
  BY EncodingTypes
<1>2. MESSAGE_LENGTH \in Nat
  BY WireAssumption
<1>3. m.after \in B
  BY DEF Message
<1>4. CASE n < MESSAGE_LENGTH
  <2> DEFINE r == str_rand(MESSAGE_LENGTH - n - 1)
             t == <<Space>> \o r
  <2>1. MESSAGE_LENGTH - n - 1 \in Nat
    BY <1>1, <1>2, <1>4
  <2>2. r \in Seq(B) /\ Len(r) = MESSAGE_LENGTH - n - 1
    BY <2>1, RandomTypes
  <2>3. <<Space>> \in Seq(B) /\ Len(<<Space>>) = 1
    <3>1. Space \in B
      BY DEF Space
    <3> HIDE DEF B
    <3> QED
      BY <3>1
  <2>4. Padded(m) = e \o <<Space>> \o r
    BY <1>1, <1>4 DEF Padded
  <2> HIDE DEF B, e, n, r
  <2>5. t \in Seq(B) /\ Len(t) = MESSAGE_LENGTH - n
    BY <1>1, <1>2, <2>2, <2>3, Joined
  <2>6. Padded(m) = e \o t
    BY <1>1, <2>2, <2>3, <2>4
  <2> HIDE DEF t
  <2>7. e \o t \in Seq(B) /\ Len(e \o t) = Len(e) + Len(t)
    BY <1>1, <2>5, Joined
  <2>8. Padded(m) \in Seq(B) /\ Len(Padded(m)) = MESSAGE_LENGTH
    BY <1>1, <1>2, <2>5, <2>6, <2>7
  <2>9. IsStrictPrefix(e, Padded(m))
    <3>1. Len(t) > 0
      BY <1>1, <1>2, <1>4, <2>5
    <3> QED
      BY <1>1, <2>5, <2>6, <3>1, PrefixOfJoin
  <2> QED
    BY <1>4, <2>8, <2>9 DEF B, e, n
<1>5. CASE ~ (n < MESSAGE_LENGTH)
  <2> DEFINE s == SubSeq(e, 1, MESSAGE_LENGTH)
             t == IF m.after = 0 THEN <<>> ELSE <<m.after>>
  <2>1. Padded(m) = s \o t
    BY <1>1, <1>5 DEF Padded
  <2> HIDE DEF B, e, n
  <2>2. s \in Seq(B) /\ Len(s) = MESSAGE_LENGTH /\ (MESSAGE_LENGTH = n => s = e)
    BY <1>1, <1>2, <1>5, CutTypes
  <2> HIDE DEF s
  <2>3. CASE m.after = 0
    <3>1. Padded(m) = s
      BY <2>1, <2>2, <2>3
    <3>2. ~ IsStrictPrefix(e, s)
      BY <1>1, <1>2, <1>5, <2>2 DEF IsStrictPrefix, IsPrefix
    <3> QED
      BY <1>5, <2>2, <3>1, <3>2 DEF B, e, n
  <2>4. CASE m.after # 0
    <3>1. t \in Seq(B) /\ Len(t) = 1
      BY <1>3, <2>4
    <3> HIDE DEF t
    <3>2. s \o t \in Seq(B) /\ Len(s \o t) = Len(s) + Len(t)
      BY <2>2, <3>1, Joined
    <3>3. Len(Padded(m)) = MESSAGE_LENGTH + 1 /\ Len(Padded(m)) # MESSAGE_LENGTH
      BY <1>2, <2>1, <2>2, <3>1, <3>2
    <3> QED
      BY <1>5, <2>1, <3>2, <3>3 DEF B, e, n
  <2> QED
    BY <2>3, <2>4
<1> QED
  BY <1>4, <1>5

(* The sizes of the program: MESSAGE_LENGTH and LongestText of the client,  *)
(* AES-256-CBC, and RSA keys of 4096 bits.                                  *)
ProgramSizes ==
  /\ MESSAGE_LENGTH = 1350 /\ LongestText = 462
  /\ BlockSize = 16 /\ KeySize = 512 /\ IvSize = 16

(* With the sizes of the program, LongestText is the length of the longest  *)
(* text whose encoding is shorter than a message.                           *)
THEOREM LongestFits ==
  ASSUME ProgramSizes, NEW n \in Nat
  PROVE  n <= LongestText <=> EncodingLength(n) < MESSAGE_LENGTH
<1> DEFINE b == (n + 1) \div 16
           x == (16 * b + 19) \div 3
<1>1. b \in Nat /\ 16 * b <= n + 1 /\ n + 1 < 16 * b + 16
  OBVIOUS
<1> HIDE DEF b
<1>2. x \in Nat /\ 3 * x <= 16 * b + 19 /\ 16 * b + 19 < 3 * x + 3
  BY <1>1
<1>3. EncodedLength(KeySize) = 684 /\ EncodedLength(IvSize) = 24
  BY DEF ProgramSizes, EncodedLength
<1>4. SealedLength(n + 1) + 1 + 2 = 16 * b + 19
  BY <1>1 DEF ProgramSizes, SealedLength, b
<1>5. EncodedLength(SealedLength(n + 1) + 1) = x * 4
  BY <1>4 DEF EncodedLength
<1> HIDE DEF x
<1>6. EncodingLength(n) = x * 4 + 710
  BY <1>2, <1>3, <1>5 DEF EncodingLength
<1> QED
  BY <1>1, <1>2, <1>6 DEF ProgramSizes

-------------------------------------------------------------------------------
(* F[k] is what the first k texts of ss are put together.                   *)
Flattens(F, ss, S) ==
  /\ F \in [0..Len(ss) -> Seq(S)]
  /\ F[0] = <<>>
  /\ \A k \in 1..Len(ss) : F[k] = F[k - 1] \o ss[k]

(* There is such a function for any texts.                                  *)
LEMMA FlattensExists ==
  ASSUME NEW S, NEW ss \in Seq(Seq(S))
  PROVE  \E F : Flattens(F, ss, S)
<1> DEFINE n == Len(ss)
           T == Seq(S)
           G == [x \in (1..n) \X T |-> x[2] \o ss[x[1]]]
<1>1. n \in Nat /\ \A k \in 1..n : ss[k] \in T
  BY Elements
<1>2. <<>> \in T
  OBVIOUS
<1>3. \A x, y \in T : x \o y \in T
  BY Joined
<1>4. \A k \in 1..n, x \in T : G[<<k, x>>] = x \o ss[k]
  OBVIOUS
<1>5. G \in [(1..n) \X T -> T]
  BY <1>1, <1>3
<1> HIDE DEF n, T, G
<1>6. PICK f : Loops(f, n, T, <<>>, G)
  BY <1>1, <1>2, <1>5, LoopExists
<1>7. f \in [0..n -> T] /\ f[0] = <<>> /\ \A k \in 1..n : f[k] = G[<<k, f[k - 1]>>]
  BY <1>6 DEF Loops
<1>8. ASSUME NEW k \in 1..n PROVE f[k] = f[k - 1] \o ss[k]
  <2>1. k - 1 \in 0..n
    BY <1>1
  <2> QED
    BY <1>4, <1>7, <2>1
<1>9. Flattens(f, ss, S)
  BY <1>7, <1>8 DEF Flattens, n, T
<1> QED
  BY <1>9

(* What the recursive function of FlattenSeq is defined by.                 *)
FlattenDef(f, ss) ==
  f = [i \in 1..Len(ss) |-> IF i = 1 THEN ss[i] ELSE f[i - 1] \o ss[i]]

(* FlattenSeq puts together what is put together text by text.              *)
LEMMA FlattenIs ==
  ASSUME NEW S, NEW ss \in Seq(Seq(S)), NEW F, Flattens(F, ss, S)
  PROVE  FlattenSeq(ss) = F[Len(ss)]
<1> DEFINE n == Len(ss)
           h == CHOOSE f : FlattenDef(f, ss)
<1>1. n \in Nat /\ \A k \in 1..n : ss[k] \in Seq(S)
  BY Elements
<1>2. CASE n = 0
  <2>1. ss = <<>>
    BY <1>2
  <2> QED
    BY <1>2, <2>1 DEF FlattenSeq, Flattens
<1>3. CASE n # 0
  <2>1. FlattenSeq(ss) = h[n]
    BY <1>3 DEF FlattenSeq, FlattenDef
  <2> DEFINE g == [i \in 1..n |-> F[i]]
  <2>2. FlattenDef(g, ss)
    <3>1. ASSUME NEW i \in 1..n PROVE F[i] = IF i = 1 THEN ss[i] ELSE g[i - 1] \o ss[i]
      <4>1. F[i] = F[i - 1] \o ss[i]
        BY DEF Flattens
      <4>2. CASE i = 1
        <5>1. F[i - 1] = <<>>
          BY <4>2 DEF Flattens
        <5>2. <<>> \o ss[i] = ss[i]
          BY <1>1
        <5> QED
          BY <4>1, <4>2, <5>1, <5>2
      <4>3. CASE i # 1
        <5>1. i - 1 \in 1..n
          BY <1>1, <4>3
        <5>2. g[i - 1] = F[i - 1]
          BY <5>1
        <5> HIDE DEF g
        <5> QED
          BY <4>1, <4>3, <5>2
      <4> QED
        BY <4>2, <4>3
    <3>2. g = [i \in 1..n |-> IF i = 1 THEN ss[i] ELSE g[i - 1] \o ss[i]]
      BY <3>1
    <3> QED
      BY <3>2 DEF FlattenDef
  <2>3. FlattenDef(h, ss)
    BY <2>2
  <2> HIDE DEF h, g
  <2>4. \A i \in 1..n : h[i] = IF i = 1 THEN ss[i] ELSE h[i - 1] \o ss[i]
    BY <2>3 DEF FlattenDef
  <2> DEFINE I == {i \in 0..n : i = 0 \/ h[i] = F[i]}
  <2>5. ASSUME NEW i \in 1..n, i - 1 \in I PROVE i \in I
    <3>1. F[i] = F[i - 1] \o ss[i]
      BY DEF Flattens
    <3>2. CASE i = 1
      <4>1. F[i - 1] = <<>>
        BY <3>2 DEF Flattens
      <4>2. <<>> \o ss[i] = ss[i]
        BY <1>1
      <4>3. h[i] = ss[i]
        BY <2>4, <3>2
      <4>4. h[i] = F[i]
        BY <3>1, <4>1, <4>2, <4>3
      <4>5. i \in 0..n
        BY <1>1
      <4> QED
        BY <4>4, <4>5
    <3>3. CASE i # 1
      <4>1. h[i - 1] = F[i - 1]
        BY <2>5, <3>3
      <4>2. h[i] = h[i - 1] \o ss[i]
        BY <2>4, <3>3
      <4>3. h[i] = F[i]
        BY <3>1, <4>1, <4>2
      <4>4. i \in 0..n
        BY <1>1
      <4> QED
        BY <4>3, <4>4
    <3> QED
      BY <3>2, <3>3
  <2>6. 0 \in I
    BY <1>1
  <2> HIDE DEF I
  <2>7. 0..n \subseteq I
    BY <1>1, <2>5, <2>6, RangeInduction
  <2>8. h[n] = F[n]
    BY <1>1, <1>3, <2>7 DEF I
  <2> QED
    BY <2>1, <2>8
<1> QED
  BY <1>2, <1>3

(* Where the parts of a joined sequence are.                                *)
LEMMA JoinedAt ==
  ASSUME NEW S, NEW s \in Seq(S), NEW t \in Seq(S)
  PROVE  /\ \A i \in 1..Len(s) : (s \o t)[i] = s[i]
         /\ \A i \in 1..Len(t) : (s \o t)[Len(s) + i] = t[i]
OBVIOUS

(* Text k is a part of all that is put together.                            *)
PartAt(F, ss, k) ==
  /\ Len(F[k - 1]) \in Nat
  /\ Len(F[k]) = Len(F[k - 1]) + Len(ss[k])
  /\ Len(F[k]) <= Len(F[Len(ss)])
  /\ \A i \in 1..Len(ss[k]) : F[Len(ss)][Len(F[k - 1]) + i] = ss[k][i]

(* Every text lies where those before it end.                               *)
LEMMA FlattensAt ==
  ASSUME NEW S, NEW ss \in Seq(Seq(S)), NEW F, Flattens(F, ss, S), NEW k \in 1..Len(ss)
  PROVE  PartAt(F, ss, k)
<1> DEFINE n == Len(ss)
           Longer(m) == /\ Len(F[k]) <= Len(F[m])
                        /\ \A i \in 1..Len(F[k]) : F[m][i] = F[k][i]
           I == {m \in 0..n : k <= m => Longer(m)}
<1>1. n \in Nat /\ \A m \in 1..n : ss[m] \in Seq(S)
  BY Elements
<1>2. \A m \in 0..n : F[m] \in Seq(S) /\ Len(F[m]) \in Nat
  <2>1. \A m \in 0..n : F[m] \in Seq(S)
    BY DEF Flattens
  <2> QED
    BY <2>1, Elements
<1>3. ASSUME NEW m \in 1..n
      PROVE  /\ F[m] = F[m - 1] \o ss[m] /\ Len(F[m]) = Len(F[m - 1]) + Len(ss[m])
             /\ \A i \in 1..Len(F[m - 1]) : F[m][i] = F[m - 1][i]
             /\ \A i \in 1..Len(ss[m]) : F[m][Len(F[m - 1]) + i] = ss[m][i]
  <2>1. F[m] = F[m - 1] \o ss[m]
    BY DEF Flattens
  <2>2. F[m - 1] \in Seq(S) /\ ss[m] \in Seq(S)
    BY <1>1, <1>2
  <2>3. PICK s \in Seq(S) : s = F[m - 1]
    BY <2>2
  <2>4. PICK u \in Seq(S) : u = ss[m]
    BY <2>2
  <2>5. /\ Len(s \o u) = Len(s) + Len(u)
        /\ \A i \in 1..Len(s) : (s \o u)[i] = s[i]
        /\ \A i \in 1..Len(u) : (s \o u)[Len(s) + i] = u[i]
    BY Joined, JoinedAt
  <2> QED
    BY <2>1, <2>3, <2>4, <2>5
<1>4. ASSUME NEW m \in 1..n, m - 1 \in I PROVE m \in I
  <2>1. CASE m < k
    BY <1>1, <2>1
  <2>2. CASE m = k
    <3>1. Longer(m)
      BY <1>1, <1>2, <2>2
    <3> QED
      BY <1>1, <3>1
  <2>3. CASE m > k
    <3>1. Longer(m - 1)
      BY <1>1, <1>4, <2>3
    <3>2. Len(F[m - 1]) \in Nat /\ Len(ss[m]) \in Nat /\ Len(F[k]) \in Nat
      BY <1>1, <1>2, Elements
    <3>3. Len(F[k]) <= Len(F[m])
      <4>1. Len(F[m]) = Len(F[m - 1]) + Len(ss[m])
        BY <1>3
      <4>2. Len(F[k]) <= Len(F[m - 1])
        BY <3>1
      <4> DEFINE a == Len(F[k])
                 b == Len(F[m - 1])
                 c == Len(ss[m])
                 d == Len(F[m])
      <4>3. d = b + c /\ a <= b /\ a \in Nat /\ b \in Nat /\ c \in Nat
        BY <3>2, <4>1, <4>2
      <4> HIDE DEF a, b, c, d
      <4>4. a <= d
        BY <4>3
      <4> QED
        BY <4>4 DEF a, d
    <3>4. ASSUME NEW i \in 1..Len(F[k]) PROVE F[m][i] = F[k][i]
      <4>1. i \in 1..Len(F[m - 1])
        BY <3>1, <3>2
      <4> QED
        BY <1>3, <3>1, <4>1
    <3> QED
      BY <1>1, <3>3, <3>4
  <2> QED
    BY <1>1, <2>1, <2>2, <2>3
<1>5. 0 \in I
  BY <1>1
<1>6. 0..n \subseteq I
  <2> HIDE DEF I
  <2> QED
    BY <1>1, <1>4, <1>5, RangeInduction
<1>7. Longer(n)
  <2>1. n \in 0..n /\ k <= n
    BY <1>1
  <2> HIDE DEF n, Longer
  <2>2. n \in I
    BY <1>6, <2>1
  <2> QED
    BY <2>1, <2>2
<1>8. Len(F[k - 1]) \in Nat /\ Len(ss[k]) \in Nat
  BY <1>1, <1>2, Elements
<1>9. ASSUME NEW i \in 1..Len(ss[k]) PROVE F[n][Len(F[k - 1]) + i] = ss[k][i]
  <2>1. Len(F[k - 1]) + i \in 1..Len(F[k])
    <3> DEFINE a == Len(F[k - 1])
               b == Len(ss[k])
               c == Len(F[k])
    <3>1. c = a + b /\ a \in Nat /\ b \in Nat /\ i \in 1..b
      BY <1>3, <1>8
    <3> HIDE DEF a, b, c
    <3>2. a + i \in 1..c
      BY <3>1
    <3> QED
      BY <3>2 DEF a, c
  <2>2. F[n][Len(F[k - 1]) + i] = F[k][Len(F[k - 1]) + i]
    BY <1>7, <2>1
  <2> QED
    BY <1>3, <2>2
<1>10. Len(F[k]) = Len(F[k - 1]) + Len(ss[k]) /\ Len(F[k]) <= Len(F[n])
  BY <1>3, <1>7
<1> QED
  BY <1>8, <1>9, <1>10 DEF PartAt

(* What lies before text k.                                                 *)
LEMMA FlattensBefore ==
  ASSUME NEW S, NEW ss \in Seq(Seq(S)), NEW F, Flattens(F, ss, S), NEW k \in 1..Len(ss)
  PROVE  FlattenSeq([i \in 1..(k - 1) |-> ss[i]]) = F[k - 1]
<1> DEFINE n == Len(ss)
           p == [i \in 1..(k - 1) |-> ss[i]]
           h == [i \in 0..(k - 1) |-> F[i]]
<1>1. n \in Nat /\ \A m \in 1..n : ss[m] \in Seq(S)
  BY Elements
<1>2. k - 1 \in Nat /\ k - 1 <= n
  BY <1>1
<1>3. p \in [1..(k - 1) -> Seq(S)]
  BY <1>1, <1>2
<1>4. p \in Seq(Seq(S)) /\ Len(p) = k - 1
  <2> HIDE DEF p
  <2> QED
    BY <1>2, <1>3, Sequence
<1>5. \A m \in 1..(k - 1) : h[m] = F[m] /\ h[m - 1] = F[m - 1] /\ p[m] = ss[m] /\ m \in 1..n
  BY <1>1
<1>6. h \in [0..(k - 1) -> Seq(S)] /\ h[0] = <<>>
  <2>1. F \in [0..n -> Seq(S)] /\ F[0] = <<>>
    BY DEF Flattens
  <2>2. \A i \in 0..(k - 1) : i \in 0..n
    BY <1>1, <1>2
  <2>3. \A i \in 0..(k - 1) : F[i] \in Seq(S)
    BY <2>1, <2>2
  <2>4. 0 \in 0..(k - 1)
    BY <1>2
  <2>5. h \in [0..(k - 1) -> Seq(S)]
    BY <2>3
  <2> QED
    BY <2>1, <2>4, <2>5
<1>7. h[k - 1] = F[k - 1]
  BY <1>2
<1> HIDE DEF h, p
<1>8. Flattens(h, p, S)
  BY <1>4, <1>5, <1>6 DEF Flattens
<1>9. FlattenSeq(p) = h[k - 1]
  BY <1>4, <1>8, FlattenIs
<1> QED
  BY <1>7, <1>9 DEF p

-------------------------------------------------------------------------------
(* The least number of a set.                                               *)
LEMMA MinExists ==
  ASSUME NEW I \in SUBSET Nat, I # {}
  PROVE  Min(I) \in I /\ \A y \in I : Min(I) <= y
BY LeastNatural DEF Min

(* An element with none below it is the least.                              *)
LEMMA MinIs ==
  ASSUME NEW I \in SUBSET Nat, NEW x \in I, \A y \in I : x <= y
  PROVE  Min(I) = x
<1>1. Min(I) \in I /\ \A y \in I : Min(I) <= y
  BY MinExists
<1>2. Min(I) \in Nat /\ x \in Nat /\ Min(I) <= x /\ x <= Min(I)
  BY <1>1
<1> QED
  BY <1>2

(* The places strtok looks for.                                             *)
Others(text, from, to, delim) == {i \in from..to : text[i] # delim}
Delims(text, from, to, delim) == {i \in from..to : text[i] = delim}
(* The first of these places, or 0 where there is none.                     *)
LeastOrNone(I) == IF I # {} THEN Min(I) ELSE 0

(* What strtok finds, in terms of these places.                             *)
LEMMA StrtokIs ==
  ASSUME NEW text, NEW from, NEW to, NEW delim
  PROVE  LET first == LeastOrNone(Others(text, from, to, delim))
             stop == LeastOrNone(Delims(text, first, to, delim))
         IN  strtok(text, from, to, delim) =
               [first |-> first, last |-> IF first > 0 /\ stop > 0 THEN stop - 1 ELSE to]
BY DEF strtok, SelectInSubSeq, LeastOrNone, Others, Delims

(* A word lies within the part that is searched.                            *)
LEMMA StrtokWithin ==
  ASSUME NEW text, NEW from \in Nat, NEW to \in Nat, NEW delim
  PROVE  LET w == strtok(text, from, to, delim) IN
         /\ w \in [first : Nat, last : Nat]
         /\ w.last <= to
         /\ w.first # 0 => /\ from <= w.first /\ w.first <= w.last
                          /\ text[w.first] # delim
<1> DEFINE I == Others(text, from, to, delim)
           first == LeastOrNone(I)
           J == Delims(text, first, to, delim)
           stop == LeastOrNone(J)
           last == IF first > 0 /\ stop > 0 THEN stop - 1 ELSE to
           w == strtok(text, from, to, delim)
<1>1. w = [first |-> first, last |-> last]
  BY StrtokIs
<1>2. I \in SUBSET Nat /\ \A i \in I : from <= i /\ i <= to /\ text[i] # delim
  BY DEF Others
<1> HIDE DEF I
<1>3. /\ first \in Nat
      /\ first # 0 => from <= first /\ first <= to /\ text[first] # delim
  BY <1>2, MinExists DEF LeastOrNone
<1> HIDE DEF first
<1>4. J \in SUBSET Nat /\ \A i \in J : first <= i /\ i <= to /\ text[i] = delim
  BY <1>3 DEF Delims
<1> HIDE DEF J
<1>5. /\ stop \in Nat
      /\ stop # 0 => first <= stop /\ stop <= to /\ text[stop] = delim
  BY <1>4, MinExists DEF LeastOrNone
<1> HIDE DEF stop
<1>6. last \in Nat /\ last <= to /\ (first # 0 => first <= last)
  <2>1. CASE first > 0 /\ stop > 0
    <3>1. first <= stop /\ stop <= to /\ first # stop
      BY <1>3, <1>5, <2>1
    <3> QED
      BY <1>3, <1>5, <2>1, <3>1
  <2>2. CASE ~ (first > 0 /\ stop > 0)
    BY <1>3, <1>5, <2>2
  <2> QED
    BY <2>1, <2>2
<1> HIDE DEF last, w
<1>7. w.first = first /\ w.last = last /\ w \in [first : Nat, last : Nat]
  BY <1>1, <1>3, <1>6
<1> QED
  BY <1>3, <1>6, <1>7 DEF w

(* A word without the delimiter, that a delimiter or the end follows.       *)
Stands(text, f, l, to, delim) ==
  /\ f \in Nat /\ l \in Nat /\ to \in Nat
  /\ 0 < f /\ f <= l /\ l <= to
  /\ \A i \in f..l : text[i] # delim
  /\ l = to \/ text[l + 1] = delim

(* strtok finds the word that stands where it is called from.               *)
LEMMA StrtokFinds ==
  ASSUME NEW text, NEW f, NEW l, NEW to, NEW delim, Stands(text, f, l, to, delim)
  PROVE  strtok(text, f, to, delim) = [first |-> f, last |-> l]
<1> DEFINE I == Others(text, f, to, delim)
           J == Delims(text, f, to, delim)
           stop == LeastOrNone(J)
<1>0. /\ f \in Nat /\ l \in Nat /\ to \in Nat
      /\ 0 < f /\ f <= l /\ l <= to
      /\ \A i \in f..l : text[i] # delim
      /\ l = to \/ text[l + 1] = delim
  BY DEF Stands
<1>1. I \in SUBSET Nat /\ f \in I /\ \A i \in I : f <= i
  BY <1>0 DEF Others
<1>2. LeastOrNone(I) = f
  <2> HIDE DEF I
  <2>1. Min(I) = f
    BY <1>1, MinIs
  <2> QED
    BY <1>1, <2>1 DEF LeastOrNone
<1>3. J \in SUBSET Nat /\ \A i \in J : l + 1 <= i
  BY <1>0 DEF Delims
<1>4. CASE l = to
  <2>1. J = {}
    BY <1>0, <1>3, <1>4 DEF Delims
  <2>2. stop = 0
    BY <2>1 DEF LeastOrNone
  <2> HIDE DEF stop, I, J
  <2> QED
    BY <1>0, <1>2, <1>4, <2>2, StrtokIs DEF stop, I, J
<1>5. CASE l # to
  <2>1. l + 1 \in J
    BY <1>0, <1>5 DEF Delims
  <2>2. stop = l + 1
    <3> HIDE DEF J
    <3>1. Min(J) = l + 1
      BY <1>3, <2>1, MinIs
    <3> QED
      BY <2>1, <3>1 DEF LeastOrNone
  <2>3. f > 0 /\ l + 1 > 0 /\ l + 1 - 1 = l
    BY <1>0
  <2> HIDE DEF stop, I, J
  <2> QED
    BY <1>0, <1>2, <2>2, <2>3, StrtokIs DEF stop, I, J
<1> QED
  BY <1>4, <1>5

(* No word is found in what consists of delimiters.                         *)
LEMMA StrtokNone ==
  ASSUME NEW text, NEW from \in Nat, NEW to \in Nat, NEW delim,
         \A i \in from..to : text[i] = delim
  PROVE  strtok(text, from, to, delim) = [first |-> 0, last |-> to]
<1>1. Others(text, from, to, delim) = {}
  BY DEF Others
<1>2. LeastOrNone(Others(text, from, to, delim)) = 0
  BY <1>1 DEF LeastOrNone
<1> QED
  BY <1>2, StrtokIs

-------------------------------------------------------------------------------
(* No character of an encoding is a space.                                  *)
LEMMA NoSpace ==
  ASSUME NEW s \in Seq(0..255), NEW k \in 1..Len(Base64encode(s))
  PROVE  Base64encode(s)[k] # Space
<1> DEFINE q == (k - 1) \div 4
           j == (k - 1) % 4
           n == EncodedLength(Len(s))
<1>1. Len(Base64encode(s)) = n /\ n \in Nat
  BY EncodedText, Elements DEF EncodedLength
<1>2. k \in Nat /\ k >= 1 /\ k <= n
  BY <1>1
<1>3. q \in Nat /\ j \in 0..3 /\ k = 4 * q + j + 1
  <2> HIDE DEF n
  <2> QED
    BY <1>2
<1> HIDE DEF q, j, n
<1>4. 4 * q + j < n
  BY <1>1, <1>2, <1>3
<1>5. Base64encode(s)[4 * q + j + 1] = CharOf(s, q, j)
  BY <1>3, <1>4, EncodedText DEF n
<1>6. CharOf(s, q, j) # Space
  <2>1. \A v \in 0..63 : basis_64[v] # Space
    <3> SUFFICES ASSUME NEW v \in 0..63 PROVE basis_64[v] # Space
      OBVIOUS
    <3>1. pr2six[basis_64[v]] = v
      BY SixBits
    <3>2. pr2six[Space] = 64
      BY DEF pr2six, Space
    <3>3. v # 64
      OBVIOUS
    <3> QED
      BY <3>1, <3>2, <3>3
  <2>2. Pad # Space
    BY DEF Pad, Space
  <2>3. /\ SixOf(s, q, j) \in 0..63
        /\ CharOf(s, q, j) = Pad \/ CharOf(s, q, j) = basis_64[SixOf(s, q, j)]
    BY <1>3, CharIs, Zenon
  <2> QED
    BY <2>1, <2>2, <2>3
<1> QED
  BY <1>3, <1>5, <1>6

(* The words of the text that is sent: the encrypted text with its extra    *)
(* byte, the encrypted key, and the initialisation vector.                  *)
WordOf(m, i) ==
  CASE i = 1 -> Append(client_encrypt_msg(m).msg, m.after)
    [] i = 2 -> client_encrypt_msg(m).key
    [] i = 3 -> client_encrypt_msg(m).iv

(* The words are sequences of bytes, and the first one without its last     *)
(* byte is the encrypted text.                                              *)
LEMMA WordTypes ==
  ASSUME NEW m \in Message
  PROVE  /\ \A i \in 1..3 : WordOf(m, i) \in Seq(0..255) /\ Len(WordOf(m, i)) > 0
         /\ Front(WordOf(m, 1)) = client_encrypt_msg(m).msg
<1>1. IsSealed(client_encrypt_msg(m), m.len + 1)
  BY MessageSealed
<1> DEFINE s == client_encrypt_msg(m)
           B == 0..255
<1>2. m.after \in B
  BY DEF Message
<1>3. s.msg \in Seq(B) /\ s.key \in Seq(B) /\ s.iv \in Seq(B)
  BY <1>1 DEF IsSealed
<1>4. Len(s.key) > 0 /\ Len(s.iv) > 0
  BY <1>1, WireAssumption DEF IsSealed
<1> HIDE DEF s, B
<1>5. /\ Append(s.msg, m.after) \in Seq(B) /\ Len(Append(s.msg, m.after)) > 0
      /\ SubSeq(Append(s.msg, m.after), 1, Len(Append(s.msg, m.after)) - 1) = s.msg
  <2>1. ASSUME NEW x \in Seq(B), NEW y \in B
        PROVE  /\ Append(x, y) \in Seq(B) /\ Len(Append(x, y)) > 0
               /\ SubSeq(Append(x, y), 1, Len(Append(x, y)) - 1) = x
    OBVIOUS
  <2> QED
    BY <1>2, <1>3, <2>1
<1>6. WordOf(m, 1) = Append(s.msg, m.after) /\ WordOf(m, 2) = s.key /\ WordOf(m, 3) = s.iv
  BY DEF WordOf, s
<1>7. \A i \in 1..3 : WordOf(m, i) \in Seq(B) /\ Len(WordOf(m, i)) > 0
  <2>1. \A i \in 1..3 : i = 1 \/ i = 2 \/ i = 3
    OBVIOUS
  <2> QED
    BY <1>3, <1>4, <1>5, <1>6, <2>1
<1>8. Front(WordOf(m, 1)) = s.msg
  BY <1>5, <1>6 DEF Front
<1> QED
  BY <1>7, <1>8 DEF B, s

(* A text with word i of m at its place from f to l, and a space behind.    *)
IsWord(text, m, i, f, l) ==
  /\ f \in Nat /\ l \in Nat /\ 0 < f /\ f <= l /\ l < Len(text)
  /\ text[l + 1] = Space
  /\ \A k \in f..l : text[k] # Space
  /\ Base64decode(SubSeq(text, f, l)) = WordOf(m, i)

(* The encoding of word i from f to l of a text.                            *)
EncodingAt(text, m, i, f, l) ==
  /\ f \in Nat /\ 0 < f /\ l = f - 1 + Len(Base64encode(WordOf(m, i)))
  /\ l < Len(text) /\ text[l + 1] = Space
  /\ \A k \in 1..Len(Base64encode(WordOf(m, i))) :
       text[f - 1 + k] = Base64encode(WordOf(m, i))[k]

(* Where the encoding of a word lies, strtok and Base64decode find the      *)
(* word.                                                                    *)
LEMMA WordAt ==
  ASSUME NEW m \in Message, NEW i \in 1..3, NEW text \in Seq(0..255),
         NEW f, NEW l, EncodingAt(text, m, i, f, l)
  PROVE  IsWord(text, m, i, f, l)
<1> DEFINE o == f - 1
<1> DEFINE w == WordOf(m, i)
           e == Base64encode(w)
           n == Len(e)
           B == 0..255
<1>1. w \in Seq(B) /\ Len(w) > 0 /\ Len(w) \in Nat
  BY WordTypes, Elements
<1>2. e \in Seq(B) /\ n = EncodedLength(Len(w)) /\ n \in Nat
  BY <1>1, EncodedText, Elements
<1>3. n > 0
  <2> HIDE DEF w, e, n
  <2> QED
    BY <1>1, <1>2 DEF EncodedLength
<1>4. \A k \in 1..n : e[k] # Space
  BY <1>1, NoSpace
<1>5. Base64decode(e) = w
  BY <1>1, RoundTrip
<1>6. l = o + n /\ \A k \in 1..n : text[o + k] = e[k]
  BY DEF EncodingAt
<1>12. o \in Nat /\ f = o + 1
  BY DEF EncodingAt
<1>11. l < Len(text) /\ text[l + 1] = Space
  BY DEF EncodingAt
<1> HIDE DEF e, n, w, o
<1>7. SubSeq(text, o + 1, l) = e
  <2>1. SubSeq(text, o + 1, l) = [k \in 1..n |-> text[o + k]]
    <3> HIDE DEF B
    <3>1. SubSeq(text, o + 1, l) = [k \in 1..(1 + l - (o + 1)) |-> text[k + (o + 1) - 1]]
      <4> DEFINE x == o + 1
      <4>1. x \in Int /\ l \in Int
        BY <1>2, <1>6, <1>12
      <4> HIDE DEF x
      <4>2. SubSeq(text, x, l) = [k \in 1..(1 + l - x) |-> text[k + x - 1]]
        BY <4>1, SubSeqIs
      <4> QED
        BY <4>2, Zenon DEF x
    <3>2. 1 + l - (o + 1) = n
      BY <1>2, <1>6, <1>12
    <3>3. \A k \in 1..n : k + (o + 1) - 1 = o + k
      BY <1>2, <1>12
    <3> QED
      BY <3>1, <3>2, <3>3
  <2>2. e = [k \in 1..n |-> e[k]]
    BY <1>2 DEF n
  <2> QED
    BY <1>6, <2>1, <2>2
<1>8. ASSUME NEW k \in (o + 1)..l PROVE text[k] # Space
  <2>1. k - o \in 1..n /\ o + (k - o) = k
    BY <1>2, <1>6, <1>12
  <2> QED
    BY <1>4, <1>6, <2>1
<1>9. /\ o + 1 \in Nat /\ l \in Nat /\ 0 < o + 1 /\ o + 1 <= l
  BY <1>2, <1>3, <1>6, <1>12
<1>10. Base64decode(SubSeq(text, o + 1, l)) = w
  BY <1>5, <1>7
<1> QED
  BY <1>8, <1>9, <1>10, <1>11, <1>12 DEF IsWord, w

(* The three words lie one behind the other, from position o + 1.           *)
LiesAt(text, m, o, l1, l2, l3) ==
  /\ l3 < o + MESSAGE_LENGTH
  /\ IsWord(text, m, 1, o + 1, l1)
  /\ IsWord(text, m, 2, l1 + 2, l2)
  /\ IsWord(text, m, 3, l2 + 2, l3)

(* z is x and y with a space between.                                       *)
Spaced(z, x, y) ==
  /\ Len(z) = Len(x) + 1 + Len(y)
  /\ \A k \in 1..Len(x) : z[k] = x[k]
  /\ z[Len(x) + 1] = Space
  /\ \A k \in 1..Len(y) : z[Len(x) + 1 + k] = y[k]

(* Where two texts lie that were put together with a space.                 *)
LEMMA PlacesInJoin ==
  ASSUME NEW S, NEW x \in Seq(S), NEW y \in Seq(S), Space \in S
  PROVE  x \o <<Space>> \o y \in Seq(S) /\ Spaced(x \o <<Space>> \o y, x, y)
<1> DEFINE s == Space
<1> DEFINE u == x \o <<s>>
<1>1. u \in Seq(S) /\ Len(u) = Len(x) + 1 /\ Len(x) \in Nat /\ Len(y) \in Nat
  OBVIOUS
<1>2. (\A k \in 1..Len(x) : u[k] = x[k]) /\ u[Len(x) + 1] = s
  OBVIOUS
<1> HIDE DEF u
<1>3. u \o y \in Seq(S) /\ Len(u \o y) = Len(u) + Len(y)
  BY <1>1, Joined
<1>4. /\ \A k \in 1..Len(u) : (u \o y)[k] = u[k]
      /\ \A k \in 1..Len(y) : (u \o y)[Len(u) + k] = y[k]
  BY <1>1, JoinedAt
<1>5. \A k \in 1..Len(x) : k \in 1..Len(u)
  BY <1>1
<1>6. Len(x) + 1 \in 1..Len(u)
  BY <1>1
<1> QED
  BY <1>1, <1>2, <1>3, <1>4, <1>5, <1>6 DEF u, Spaced

(* A padded message that consists of three encodings and of characters that *)
(* str_rand made, with a space behind each encoding.                        *)
ConsistsOf(p, e1, e2, e3, r) ==
  /\ p = e1 \o <<Space>> \o e2 \o <<Space>> \o e3 \o <<Space>> \o r
  /\ e1 \in Seq(0..255) /\ e2 \in Seq(0..255)
  /\ e3 \in Seq(0..255) /\ r \in Seq(0..255)
  /\ Len(p) = MESSAGE_LENGTH /\ p \in Seq(0..255)

(* The text that is sent of a message that fits: three words and padding,   *)
(* each followed by a space but the last.                                   *)
LEMMA Message5 ==
  ASSUME NEW m \in Message, EncodingLength(m.len) < MESSAGE_LENGTH
  PROVE  ConsistsOf(Padded(m), Base64encode(WordOf(m, 1)), Base64encode(WordOf(m, 2)),
                    Base64encode(WordOf(m, 3)),
                    str_rand(MESSAGE_LENGTH - EncodingLength(m.len) - 1))
<1>1. msg_encrypt_encode(m) = Base64encode(WordOf(m, 1)) \o <<Space>>
         \o Base64encode(WordOf(m, 2)) \o <<Space>> \o Base64encode(WordOf(m, 3))
  <2> DEFINE s == client_encrypt_msg(m)
  <2>1. WordOf(m, 1) = Append(s.msg, m.after) /\ WordOf(m, 2) = s.key /\ WordOf(m, 3) = s.iv
    BY DEF WordOf
  <2>2. msg_encrypt_encode(m) = Base64encode(Append(s.msg, m.after)) \o <<Space>>
          \o Base64encode(s.key) \o <<Space>> \o Base64encode(s.iv)
    BY Zenon DEF msg_encrypt_encode, parse_encrypted_msg_str
  <2> QED
    BY <2>1, <2>2, Zenon
<1>2. /\ Base64encode(WordOf(m, 1)) \in Seq(0..255)
      /\ Base64encode(WordOf(m, 2)) \in Seq(0..255)
      /\ Base64encode(WordOf(m, 3)) \in Seq(0..255)
  <2>1. /\ WordOf(m, 1) \in Seq(0..255) /\ WordOf(m, 2) \in Seq(0..255)
        /\ WordOf(m, 3) \in Seq(0..255)
    BY WordTypes
  <2> QED
    BY <2>1, EncodedText
<1>3. Len(msg_encrypt_encode(m)) = EncodingLength(m.len) /\ EncodingLength(m.len) \in Nat
  BY EncodingTypes
<1>4. MESSAGE_LENGTH - EncodingLength(m.len) - 1 \in Nat
  BY <1>3, WireAssumption
<1>5. str_rand(MESSAGE_LENGTH - EncodingLength(m.len) - 1) \in Seq(0..255)
  BY <1>4, RandomTypes
<1>6. Padded(m) = msg_encrypt_encode(m) \o <<Space>>
                    \o str_rand(MESSAGE_LENGTH - EncodingLength(m.len) - 1)
  BY <1>3 DEF Padded
<1>7. Len(Padded(m)) = MESSAGE_LENGTH /\ Padded(m) \in Seq(0..255)
  BY PaddedText
<1> QED
  BY <1>1, <1>2, <1>5, <1>6, <1>7, Zenon DEF ConsistsOf

(* Where the text of m lies, its words do.                                  *)
THEOREM MessageLies ==
  ASSUME NEW m \in Message, EncodingLength(m.len) < MESSAGE_LENGTH,
         NEW text \in Seq(0..255), NEW o \in Nat, o + MESSAGE_LENGTH <= Len(text),
         \A k \in 1..MESSAGE_LENGTH : text[o + k] = Padded(m)[k]
  PROVE  \E l1, l2, l3 : LiesAt(text, m, o, l1, l2, l3)
<1> DEFINE B == 0..255
           e1 == Base64encode(WordOf(m, 1))
           e2 == Base64encode(WordOf(m, 2))
           e3 == Base64encode(WordOf(m, 3))
           r == str_rand(MESSAGE_LENGTH - EncodingLength(m.len) - 1)
           p == Padded(m)
           u == e1 \o <<Space>> \o e2
           v == u \o <<Space>> \o e3
           a == Len(e1)
           b == Len(e2)
           c == Len(e3)
           d == Len(r)
           l1 == o + a
           l2 == l1 + 1 + b
           l3 == l2 + 1 + c
<1>1. /\ p = v \o <<Space>> \o r
      /\ e1 \in Seq(B) /\ e2 \in Seq(B) /\ e3 \in Seq(B) /\ r \in Seq(B)
      /\ Len(p) = MESSAGE_LENGTH
  <2>1. ConsistsOf(p, e1, e2, e3, r)
    BY Message5, Zenon
  <2> HIDE DEF e1, e2, e3, r, p
  <2> QED
    BY <2>1 DEF ConsistsOf
<1>2. Space \in B
  BY DEF Space
<1>3. MESSAGE_LENGTH \in Nat /\ Len(text) \in Nat
  BY WireAssumption, Elements
<1>4. o + MESSAGE_LENGTH <= Len(text) /\ \A k \in 1..MESSAGE_LENGTH : text[o + k] = p[k]
  OBVIOUS
<1> HIDE DEF B, e1, e2, e3, r, p
<1>5. a \in Nat /\ b \in Nat /\ c \in Nat /\ d \in Nat
  BY <1>1, Elements
<1>6. u \in Seq(B) /\ Spaced(u, e1, e2)
  BY <1>1, <1>2, PlacesInJoin
<1> HIDE DEF u
<1>7. v \in Seq(B) /\ Spaced(v, u, e3)
  BY <1>1, <1>2, <1>6, PlacesInJoin
<1> HIDE DEF v
<1>8. Spaced(p, v, r)
  BY <1>1, <1>2, <1>7, PlacesInJoin
<1>26. /\ Len(u) = a + 1 + b /\ Len(v) = Len(u) + 1 + c /\ Len(p) = Len(v) + 1 + d
       /\ \A k \in 1..a : u[k] = e1[k]
       /\ u[a + 1] = Space
       /\ \A k \in 1..b : u[a + 1 + k] = e2[k]
  BY <1>6, <1>7, <1>8 DEF Spaced
<1>27. /\ \A k \in 1..Len(u) : v[k] = u[k]
       /\ v[Len(u) + 1] = Space
       /\ \A k \in 1..c : v[Len(u) + 1 + k] = e3[k]
  BY <1>7 DEF Spaced
<1>28. (\A k \in 1..Len(v) : p[k] = v[k]) /\ p[Len(v) + 1] = Space
  BY <1>8 DEF Spaced
<1> HIDE DEF a, b, c, d
<1>9. Len(u) = a + 1 + b /\ Len(v) = a + 1 + b + 1 + c
  BY <1>5, <1>26
<1>10. a + 1 + b + 1 + c + 1 + d = MESSAGE_LENGTH
  BY <1>1, <1>5, <1>9, <1>26
<1>11. ASSUME NEW k \in 1..a PROVE text[o + k] = e1[k]
  <2>1. k \in 1..Len(u) /\ k \in 1..Len(v) /\ k \in 1..MESSAGE_LENGTH
    BY <1>3, <1>5, <1>9, <1>10
  <2> QED
    BY <1>4, <1>26, <1>27, <1>28, <2>1
<1>12. text[l1 + 1] = Space
  <2>1. a + 1 \in 1..Len(u) /\ a + 1 \in 1..Len(v) /\ a + 1 \in 1..MESSAGE_LENGTH
    <3>1. a + 1 \in 1..(a + 1 + b)
      BY <1>5
    <3>2. a + 1 \in 1..(a + 1 + b + 1 + c)
      BY <1>5
    <3>3. a + 1 \in 1..(a + 1 + b + 1 + c + 1 + d)
      BY <1>5
    <3> QED
      BY <1>9, <1>10, <3>1, <3>2, <3>3
  <2>2. text[o + (a + 1)] = Space
    BY <1>4, <1>26, <1>27, <1>28, <2>1
  <2>3. o + (a + 1) = l1 + 1
    BY <1>5
  <2> QED
    BY <2>2, <2>3
<1>13. ASSUME NEW k \in 1..b PROVE text[l1 + 1 + k] = e2[k]
  <2>1. /\ a + 1 + k \in 1..Len(u) /\ a + 1 + k \in 1..Len(v)
        /\ a + 1 + k \in 1..MESSAGE_LENGTH
    BY <1>3, <1>5, <1>9, <1>10
  <2>2. text[o + (a + 1 + k)] = e2[k]
    BY <1>4, <1>26, <1>27, <1>28, <2>1
  <2>3. o + (a + 1 + k) = l1 + 1 + k
    BY <1>5
  <2> QED
    BY <2>2, <2>3
<1>14. text[l2 + 1] = Space
  <2>1. Len(u) + 1 \in 1..Len(v) /\ Len(u) + 1 \in 1..MESSAGE_LENGTH
    BY <1>3, <1>5, <1>9, <1>10
  <2>2. text[o + (Len(u) + 1)] = Space
    BY <1>4, <1>27, <1>28, <2>1
  <2>3. o + ((a + 1 + b) + 1) = l2 + 1
    BY <1>5
  <2>4. o + (Len(u) + 1) = o + ((a + 1 + b) + 1)
    BY <1>9, Zenon
  <2> QED
    BY <2>2, <2>3, <2>4, Zenon
<1>15. ASSUME NEW k \in 1..c PROVE text[l2 + 1 + k] = e3[k]
  <2>1. Len(u) + 1 + k \in 1..Len(v) /\ Len(u) + 1 + k \in 1..MESSAGE_LENGTH
    BY <1>3, <1>5, <1>9, <1>10
  <2>2. text[o + (Len(u) + 1 + k)] = e3[k]
    BY <1>4, <1>27, <1>28, <2>1
  <2>3. o + ((a + 1 + b) + 1 + k) = l2 + 1 + k
    BY <1>5
  <2>4. o + (Len(u) + 1 + k) = o + ((a + 1 + b) + 1 + k)
    BY <1>9, Zenon
  <2> QED
    BY <2>2, <2>3, <2>4, Zenon
<1>16. text[l3 + 1] = Space
  <2>1. Len(v) + 1 \in 1..MESSAGE_LENGTH
    BY <1>3, <1>5, <1>9, <1>10
  <2>2. text[o + (Len(v) + 1)] = Space
    BY <1>4, <1>28, <2>1
  <2>3. o + ((a + 1 + b + 1 + c) + 1) = l3 + 1
    BY <1>5
  <2>4. o + (Len(v) + 1) = o + ((a + 1 + b + 1 + c) + 1)
    BY <1>9, Zenon
  <2> QED
    BY <2>2, <2>3, <2>4, Zenon
<1> DEFINE f1 == o + 1
           f2 == l1 + 2
           f3 == l2 + 2
<1>17. /\ l1 \in Nat /\ l2 \in Nat /\ l3 \in Nat
       /\ f1 \in Nat /\ f2 \in Nat /\ f3 \in Nat /\ 0 < f1 /\ 0 < f2 /\ 0 < f3
       /\ l1 < Len(text) /\ l2 < Len(text) /\ l3 < Len(text)
       /\ l3 < o + MESSAGE_LENGTH
       /\ f1 - 1 = o /\ f2 - 1 = l1 + 1 /\ f3 - 1 = l2 + 1
  BY <1>3, <1>4, <1>5, <1>10
<1>18. l1 = o + a /\ l2 = l1 + 1 + b /\ l3 = l2 + 1 + c
  OBVIOUS
<1>29. f1 = o + 1 /\ f2 = l1 + 2 /\ f3 = l2 + 2
  OBVIOUS
<1> HIDE DEF l1, l2, l3, f1, f2, f3
<1>19. IsWord(text, m, 1, f1, l1)
  <2>1. EncodingAt(text, m, 1, f1, l1)
    BY <1>11, <1>12, <1>17, <1>18 DEF e1, a, EncodingAt
  <2> QED
    BY <2>1, WordAt
<1>20. IsWord(text, m, 2, f2, l2)
  <2>1. EncodingAt(text, m, 2, f2, l2)
    BY <1>13, <1>14, <1>17, <1>18 DEF e2, b, EncodingAt
  <2> QED
    BY <2>1, WordAt
<1>21. IsWord(text, m, 3, f3, l3)
  <2>1. EncodingAt(text, m, 3, f3, l3)
    BY <1>15, <1>16, <1>17, <1>18 DEF e3, c, EncodingAt
  <2> QED
    BY <2>1, WordAt
<1>22. LiesAt(text, m, o, l1, l2, l3)
  BY <1>17, <1>19, <1>20, <1>21, <1>29 DEF LiesAt
<1> QED
  BY <1>22
===============================================================================
