----------------------------- MODULE GzipReader -----------------------------
(***************************************************************************)
(* miniz_gzip_uncompress: the reader of one gzip stream.  It walks over the  *)
(* optional header fields, takes the length and the checksum of the          *)
(* document from the last eight bytes of the input, whatever comes before   *)
(* them, and inflates in one call into a buffer of that length.              *)
(*                                                                          *)
(* An input is a sequence of bytes of which only the role is kept.  inflate  *)
(* is external, and a checksum over the wrong bytes does not match.          *)
(***************************************************************************)
EXTENDS Integers, Sequences, Streams

CONSTANT LenMod   \* 2^32: the width of the length in the trailer

MinLength == 18
TrailerSize == 8

VARIABLES
  stream,  \* the input
  gpc,     \* where the reader is
  start,   \* the offset of start in the input
  dlen,    \* dlen
  crcHolds,\* whether crc is the checksum of the document
  ginflated, \* what inflate left: whether it reached the end, and total_out
  greach,  \* the furthest byte read
  gmem,    \* whether memory has failed
  gret     \* the status returned

gvars == <<gpc, start, dlen, crcHolds, ginflated, greach, gmem, gret>>

Running == 1
Larger(a, b) == IF a < b THEN b ELSE a

InLen == Len(stream.bytes)
Has(i, role) == i \in 0 .. (InLen - 1) /\ stream.bytes[i + 1] = role
HasAll(i, n, role) == \A k \in i .. (i + n - 1) : Has(k, role)
Flag(f) == f \in stream.flags

-----------------------------------------------------------------------------
GzipIdle ==
  /\ gpc = "check" /\ start = 0 /\ dlen = 0 /\ crcHolds = FALSE
  /\ ginflated = [end |-> FALSE, total |-> 0] /\ greach = 0 /\ gmem = FALSE /\ gret = Running

Give(status) == gpc' = "done" /\ gret' = status
Goto(label) == gpc' = label /\ UNCHANGED gret
Reads(last) == greach' = Larger(greach, last)

\* The length, the magic bytes, the method and the reserved flags.
CheckBase ==
  /\ gpc = "check"
  /\ \/ InLen < MinLength /\ Give(-1) /\ UNCHANGED <<start, greach>>
     \/ /\ InLen >= MinLength /\ Reads(3) /\ start' = HeaderSize
        /\ CASE stream.damage = "magic" -> Give(-2)
             [] stream.damage = "method" -> Give(-3)
             [] stream.damage = "reserved" -> Give(-4)
             [] OTHER -> Goto("extra")
  /\ UNCHANGED <<stream, dlen, crcHolds, ginflated, gmem>>

SkipExtra ==
  /\ gpc = "extra"
  /\ \/ ~Flag("FEXTRA") /\ Goto("name") /\ UNCHANGED <<start, greach>>
     \/ /\ Flag("FEXTRA") /\ Reads(start + 1)
        /\ IF start + 2 > InLen \/ stream.fields > InLen - start - 2
             THEN Give(-5) /\ UNCHANGED start
             ELSE Goto("name") /\ start' = start + stream.fields + 2
  /\ UNCHANGED <<stream, dlen, crcHolds, ginflated, gmem>>

\* A faulty loop: the last byte of the input is not tested.
PastEndLate == start > InLen

\* The loops over the name and the comment.
PastEnd == start >= InLen

SkipText(label, flag, then) ==
  /\ gpc = label
  /\ \/ ~Flag(flag) /\ Goto(then) /\ UNCHANGED <<start, greach>>
     \/ Flag(flag) /\ PastEnd /\ Give(-6) /\ UNCHANGED <<start, greach>>
     \/ /\ Flag(flag) /\ ~PastEnd /\ Reads(start) /\ start' = start + 1
        /\ Goto(IF Has(start, "nul") THEN then ELSE label)
  /\ UNCHANGED <<stream, dlen, crcHolds, ginflated, gmem>>

SkipName == SkipText("name", "FNAME", "comment")
SkipComment == SkipText("comment", "FCOMMENT", "hcrc")

\* A faulty walk: the checksum of the header is taken for data.
CheckHeaderCrcStays ==
  /\ gpc = "hcrc"
  /\ \/ ~Flag("FHCRC") /\ Goto("trailer") /\ UNCHANGED greach
     \/ Flag("FHCRC") /\ start > InLen - 2 /\ Give(-7) /\ UNCHANGED greach
     \/ /\ Flag("FHCRC") /\ start <= InLen - 2 /\ Reads(start + 1)
        /\ IF HasAll(start, 2, "hcrc") /\ stream.damage # "hcrc" THEN Goto("trailer") ELSE Give(-8)
  /\ UNCHANGED <<stream, start, dlen, crcHolds, ginflated, gmem>>

CheckHeaderCrc ==
  /\ gpc = "hcrc"
  /\ \/ ~Flag("FHCRC") /\ Goto("trailer") /\ UNCHANGED <<start, greach>>
     \/ Flag("FHCRC") /\ start > InLen - 2 /\ Give(-7) /\ UNCHANGED <<start, greach>>
     \/ /\ Flag("FHCRC") /\ start <= InLen - 2 /\ Reads(start + 1)
        /\ IF HasAll(start, 2, "hcrc") /\ stream.damage # "hcrc"
             THEN Goto("trailer") /\ start' = start + 2
             ELSE Give(-8) /\ UNCHANGED start
  /\ UNCHANGED <<stream, dlen, crcHolds, ginflated, gmem>>

\* The last eight bytes, whatever they are.
ReadTrailer ==
  /\ gpc = "trailer" /\ Reads(InLen - 1)
  /\ dlen' \in IF ~HasAll(InLen - 4, 4, "len") THEN 0 .. (stream.size + 1)
               ELSE IF stream.damage = "len" THEN (0 .. (stream.size + 1)) \ {stream.size}
               ELSE {stream.size % LenMod}
  /\ crcHolds' = (HasAll(InLen - TrailerSize, 4, "crc") /\ stream.damage # "crc")
  /\ IF InLen - start < TrailerSize THEN Give(-9) ELSE Goto("alloc")
  /\ UNCHANGED <<stream, start, ginflated, gmem>>

\* malloc(dlen) and inflateInit2.
Allocate ==
  /\ gpc = "alloc"
  /\ \/ Goto("inflate") /\ UNCHANGED gmem
     \/ (\E status \in {-10, -11} : Give(status)) /\ gmem' = TRUE
  /\ UNCHANGED <<stream, start, dlen, crcHolds, ginflated, greach>>

\* inflate(MZ_FINISH) in one call: it reaches the end when all of the packed data is
\* there and the document fits.  What is not packed data gives anything.
Inflate ==
  /\ gpc = "inflate"
  /\ IF start = stream.at /\ stream.damage # "data"
       THEN /\ ginflated' = [end |-> /\ InLen - start - TrailerSize >= stream.packed
                                     /\ dlen >= stream.size,
                             total |-> stream.size]
       ELSE \E e \in BOOLEAN, n \in 0 .. dlen : ginflated' = [end |-> e, total |-> n]
  /\ Goto("verify")
  /\ UNCHANGED <<stream, start, dlen, crcHolds, greach, gmem>>

\* A faulty check: the checksum is not compared.
VerifyLength ==
  /\ gpc = "verify"
  /\ Give(CASE ~ginflated.end -> -12 [] ginflated.total # dlen -> -13 [] OTHER -> 0)
  /\ UNCHANGED <<stream, start, dlen, crcHolds, ginflated, greach, gmem>>

Verify ==
  /\ gpc = "verify"
  /\ LET sound == start = stream.at /\ stream.damage # "data"
     IN  Give(CASE ~ginflated.end -> -12 [] ginflated.total # dlen -> -13
                [] ~(crcHolds /\ sound) -> -14 [] OTHER -> 0)
  /\ UNCHANGED <<stream, start, dlen, crcHolds, ginflated, greach, gmem>>

GzipStep ==
  \/ CheckBase \/ SkipExtra \/ SkipName \/ SkipComment \/ CheckHeaderCrc
  \/ ReadTrailer \/ Allocate \/ Inflate \/ Verify

-----------------------------------------------------------------------------
\* No byte beyond the input is read, and the data begins within it, wherever the input
\* ends and whatever the lengths in the header say.
StaysInside == greach < Larger(InLen, 1) /\ start <= InLen
=============================================================================
