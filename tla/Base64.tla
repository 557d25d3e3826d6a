------------------------------- MODULE Base64 -------------------------------
(***************************************************************************)
(* base64_encode and base64_decode as functions.  A byte is a number below  *)
(* 256; a character is the value it stands for, below 64, or one of the     *)
(* three below.                                                             *)
(***************************************************************************)
EXTENDS Integers, Sequences

CONSTANTS LineLen,   \* 72: characters before a line feed
          SizeWidth  \* 2^64: the width of size_t

Equals == 64
Newline == 65
Other == 66    \* any character that base64 has no use for
Refused == <<-1>>   \* NULL

-----------------------------------------------------------------------------
(* base64_encode *)

\* olen before the line feeds; the product is as wide as a size_t.
PackedBound(len) == ((4 * len) % SizeWidth) \div 3 + 4

Overflows(len) == PackedBound(len) < len

\* A faulty size: no room for the final NUL.
BufferSizeNoNul(len) == PackedBound(len) + PackedBound(len) \div LineLen

\* What is allocated: line feeds and the final NUL included.
BufferSize(len) == PackedBound(len) + PackedBound(len) \div LineLen + 1

Quad(a, b, c) == << a \div 4, (a % 4) * 16 + b \div 16, (b % 16) * 4 + c \div 64, c % 64 >>

\* A faulty end: the left-over bytes are padded as if there were one less.
PackedEarly(doc, i) ==
  LET g == (i - 1) \div 4
      Byte(b) == IF b <= Len(doc) THEN doc[b] ELSE 0
  IN  IF 3 * g + ((i - 1) % 4) >= Len(doc) THEN Equals
      ELSE Quad(Byte(3 * g + 1), Byte(3 * g + 2), Byte(3 * g + 3))[((i - 1) % 4) + 1]

\* The i-th character but for line feeds: four for each three bytes, '=' for what is
\* missing of the last.
Packed(doc, i) ==
  LET g == (i - 1) \div 4
      Byte(b) == IF b <= Len(doc) THEN doc[b] ELSE 0
  IN  IF 3 * g + ((i - 1) % 4) > Len(doc) THEN Equals
      ELSE Quad(Byte(3 * g + 1), Byte(3 * g + 2), Byte(3 * g + 3))[((i - 1) % 4) + 1]

Groups(len) == (len + 2) \div 3

\* Characters of a line: line_len is tested after each group.
Width == 4 * ((LineLen + 3) \div 4)

\* Line feeds: from mode 2 on after each full line of whole triples, from mode 3 on also
\* after what is left of a line.
Breaks(len, mode) ==
  LET within == (4 * (len \div 3)) \div Width
      rest == 4 * Groups(len) > within * Width
  IN  IF mode <= 1 THEN 0 ELSE within + (IF mode > 2 /\ rest THEN 1 ELSE 0)

EncodedLen(len, mode) == 4 * Groups(len) + Breaks(len, mode)

Encode(doc, mode) ==
  LET Feeds(j) == IF mode <= 1 THEN 0 ELSE (j - 1) \div (Width + 1)
      IsFeed(j) == j - Feeds(j) > 4 * Groups(Len(doc)) \/ (mode > 1 /\ j % (Width + 1) = 0)
  IN  [j \in 1 .. EncodedLen(Len(doc), mode) |->
         IF IsFeed(j) THEN Newline ELSE Packed(doc, j - Feeds(j))]

-----------------------------------------------------------------------------
(* base64_decode *)

\* What is not base64 is skipped; '=' counts, and stands for zero.
Counted(c) == c <= Equals
Value(c) == IF c = Equals THEN 0 ELSE c
Pad(c) == IF c = Equals THEN 1 ELSE 0

\* The characters that count, in order.
Kept(text) ==
  LET kept[i \in 0 .. Len(text)] ==
        IF i = 0 THEN <<>>
        ELSE IF Counted(text[i]) THEN Append(kept[i - 1], text[i]) ELSE kept[i - 1]
  IN  kept[Len(text)]

Triple(block) ==
  << (Value(block[1]) * 4 + Value(block[2]) \div 16) % 256,
     (Value(block[2]) * 16 + Value(block[3]) \div 4) % 256,
     (Value(block[3]) * 64 + Value(block[4])) % 256 >>

\* The first block with padding is the last; three or four '=' are refused.
Decode(text) ==
  LET kept == Kept(text)
      blocks == Len(kept) \div 4
      Block(b) == SubSeq(kept, 4 * b - 3, 4 * b)
      Pads(b) == Pad(Block(b)[1]) + Pad(Block(b)[2]) + Pad(Block(b)[3]) + Pad(Block(b)[4])
      last == CHOOSE b \in 1 .. blocks :
                /\ \A a \in 1 .. b - 1 : Pads(a) = 0
                /\ Pads(b) > 0 \/ b = blocks
  IN  IF blocks = 0 \/ Len(kept) % 4 # 0 THEN Refused
      ELSE IF Pads(last) > 2 THEN Refused
      ELSE [i \in 1 .. 3 * last - Pads(last) |-> Triple(Block((i - 1) \div 3 + 1))[((i - 1) % 3) + 1]]
=============================================================================
