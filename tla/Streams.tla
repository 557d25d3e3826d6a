------------------------------ MODULE Streams ------------------------------
(***************************************************************************)
(* What the readers read: a gzip stream as the roles of its bytes, an xz     *)
(* stream as its parts.                                                     *)
(***************************************************************************)
EXTENDS Integers, SequencesExt

(* gzip *)

HeaderSize == 10   \* GZIP_HEADER_SIZE
Rep(n, byte) == [i \in 1 .. n |-> byte]

\* The bytes before the packed data, for the header fields in flags.
HeaderOf(flags, n) ==
  Rep(HeaderSize, "base")
    \o (IF "FEXTRA" \in flags THEN Rep(2, "xlen") \o Rep(n, "any") ELSE <<>>)
    \o (IF "FNAME" \in flags THEN Rep(n, "char") \o <<"nul">> ELSE <<>>)
    \o (IF "FCOMMENT" \in flags THEN Rep(n, "char") \o <<"nul">> ELSE <<>>)
    \o (IF "FHCRC" \in flags THEN Rep(2, "hcrc") ELSE <<>>)

Member(flags, n, packed) ==
  HeaderOf(flags, n) \o Rep(packed, "data") \o Rep(4, "crc") \o Rep(4, "len")

EndsLikeOne(bytes) ==
  \A k \in 1 .. 4 : bytes[Len(bytes) - 8 + k] = "crc" /\ bytes[Len(bytes) - 4 + k] = "len"

Damages == {"magic", "method", "reserved", "hcrc", "crc", "len", "data"}

\* Whoever wrote a member means it whole, with nothing after it: what ends like a member
\* passes for one.
GzipFate(flags, n, packed, bytes, damage) ==
  IF damage # "none" THEN "damaged"
  ELSE IF Len(bytes) < Len(Member(flags, n, packed)) THEN "cut"
  ELSE IF EndsLikeOne(bytes) THEN "sound" ELSE "damaged"

\* A member whose fields are n bytes long, the same member again if twice, tail
\* bytes of something else, all of it cut at a length; damage names the part that is
\* not as it was written.
GzipInput(flags, n, packed, size, twice, tail, cut, damage) ==
  LET member == Member(flags, n, packed)
      whole == member \o (IF twice THEN member ELSE <<>>) \o Rep(tail, "any")
      bytes == SubSeq(whole, 1, IF cut < Len(whole) THEN cut ELSE Len(whole))
  IN  [bytes |-> bytes, flags |-> flags, fields |-> n, at |-> Len(HeaderOf(flags, n)),
       packed |-> packed, size |-> size, damage |-> damage,
       fate |-> GzipFate(flags, n, packed, bytes, damage)]

\* What all such inputs have in common: as much of the member as there is comes first,
\* a checksum never without a length after it, and nothing is damaged that is not there.
IsGzip(i) ==
  LET member == Member(i.flags, i.fields, i.packed)
      len == Len(i.bytes)
  IN  /\ {i.fields, i.packed, i.size} \subseteq Nat
      /\ i.at = Len(HeaderOf(i.flags, i.fields))
      /\ \A k \in 1 .. len : k <= Len(member) => i.bytes[k] = member[k]
      /\ len >= Len(member) /\ (\A k \in 1 .. 4 : i.bytes[len - 8 + k] = "crc") => EndsLikeOne(i.bytes)
      /\ i.damage \in Damages \cup {"none"} /\ (i.damage = "hcrc" => "FHCRC" \in i.flags)
      /\ i.fate = GzipFate(i.flags, i.fields, i.packed, i.bytes, i.damage)

(* xz *)

Part(kind) == [kind |-> kind, gives |-> 0]
Data(n) == [kind |-> "data", gives |-> n]

\* A stream of blocks, each given as what the parts of its packed data unpack to.
BlockParts(gives) ==
  <<Part("block")>> \o [i \in 1 .. Len(gives) |-> Data(gives[i])] \o <<Part("mark"), Part("check")>>

XzStream(blocks) ==
  <<Part("header")>> \o FoldLeft(LAMBDA acc, gives : acc \o BlockParts(gives), <<>>, blocks)
    \o <<Part("index"), Part("footer")>>

Padding(n) == [i \in 1 .. n |-> Part("pad")]

\* The format: which part may follow which, and that streams are padded by four bytes.
Follows ==
  {<<"header", "block">>, <<"header", "index">>, <<"block", "data">>, <<"block", "mark">>,
   <<"data", "data">>, <<"data", "mark">>, <<"mark", "check">>, <<"check", "block">>,
   <<"check", "index">>, <<"index", "footer">>, <<"footer", "pad">>, <<"footer", "header">>,
   <<"pad", "pad">>, <<"pad", "header">>}

PaddedFrom(parts, i, j) ==
  parts[i].kind = "footer" /\ \A k \in i + 1 .. j : parts[k].kind = "pad"

IsXzFile(parts) ==
  LET len == Len(parts)
  IN  /\ len > 0 /\ parts[1].kind = "header" /\ parts[len].kind \in {"footer", "pad"}
      /\ \A i \in 1 .. len - 1 : <<parts[i].kind, parts[i + 1].kind>> \in Follows
      /\ \A i \in 1 .. len, j \in 1 .. len :
           i < j /\ PaddedFrom(parts, i, j) /\ (j = len \/ parts[j + 1].kind # "pad")
             => (j - i) % 4 = 0

\* What the parts up to each unpack to.
Given(parts) ==
  LET sum[i \in 0 .. Len(parts)] == IF i = 0 THEN 0 ELSE sum[i - 1] + parts[i].gives
  IN  sum

IsXz(i) ==
  /\ i.parts \in Seq([kind : STRING, gives : Nat])
  /\ \A k \in 1 .. Len(i.parts) : i.parts[k].kind # "data" => i.parts[k].gives = 0
  /\ i.size \in Nat /\ i.fate \in {"sound", "cut", "damaged"}
  /\ i.fate = "sound" <=> IsXzFile(i.parts)
  /\ i.fate = "sound" => i.size = Given(i.parts)[Len(i.parts)]
=============================================================================
