--------------------------- MODULE ElzmaDecompress ---------------------------
(***************************************************************************)
(* elzma_decompress_run and simpleDecompress: the reader of one lzma or     *)
(* lzip stream.  It decodes the stream from one input buffer of a fixed     *)
(* size at a time into an output buffer of a fixed size.                    *)
(*                                                                          *)
(* A stream is a header, data bytes of compressed data whose last byte      *)
(* holds the end mark, and, in lzip, a footer with the CRC and the length   *)
(* of the content.  What the bytes say is abstracted to the size of the     *)
(* content and to whether it is sound.  Streams are cut short and damaged.  *)
(***************************************************************************)
EXTENDS Integers

CONSTANTS InBuf,    \* ELZMA_DECOMPRESS_INPUT_BUFSIZE
          OutBuf,   \* ELZMA_DECOMPRESS_OUTPUT_BUFSIZE
          Header,   \* bytes of a header
          Footer,   \* ELZMA_LZIP_FOOTER_SIZE
          MaxData,  \* the longest compressed data
          MaxSize,  \* the longest content
          MaxTail   \* the longest tail after the stream

ASSUME ElzmaAssumption ==
  /\ {InBuf, OutBuf, Header, Footer, MaxData, MaxSize} \subseteq Nat \ {0}
  /\ MaxTail \in Nat
  /\ Footer <= InBuf

Formats == {"lzma", "lzip"}

VARIABLES
  pc,       \* where the call is
  stream,   \* what was written: format, data, size; and its fate: sound, cut
  avail,    \* bytes the input still has: ds.inLen
  used,     \* bytes of the compressed data the decoder has consumed
  total,    \* totalRead: bytes of content written
  srcLen, bufOff, amt, dstLen, stat,  \* the loop variables of those names
  footer,   \* f: "zero" as initialised, "right", or "other"
  rc,       \* errorCode
  result    \* *outData: length of the buffer handed to the caller, or Null

loop == <<srcLen, bufOff, amt, dstLen, stat>>
vars == <<pc, stream, avail, used, total, loop, footer, rc, result>>

Null == -1
Smaller(a, b) == IF a < b THEN a ELSE b

FooterSize(s) == IF s.format = "lzip" THEN Footer ELSE 0
StreamSize(s) == Header + s.data + FooterSize(s)

\* The stream reached the decompressor as it was written (a tail may follow).
Intact == stream.sound /\ stream.cut = 0

Init ==
  /\ pc = "header"
  /\ stream \in [format : Formats, data : 1 .. MaxData, size : 1 .. MaxSize,
                 sound : BOOLEAN, cut : 0 .. Header + Footer]
  /\ \E tail \in IF stream.cut = 0 THEN 0 .. MaxTail ELSE {0} :
       avail = StreamSize(stream) - stream.cut + tail
  /\ stream.cut < StreamSize(stream)
  /\ used = 0 /\ total = 0
  /\ srcLen = 0 /\ bufOff = 0 /\ amt = 0 /\ dstLen = OutBuf /\ stat = "none"
  /\ footer = "zero" /\ rc = "pending" /\ result = Null

\* To decompressEnd, and simpleDecompress frees what was written.
Stop(error) ==
  /\ rc' = error /\ pc' = "ended" /\ UNCHANGED result

\* The header is read and parsed: a short or damaged one is refused.
ReadHeader ==
  /\ pc = "header"
  /\ \/ /\ avail < Header
        /\ Stop("input") /\ avail' = 0
     \/ /\ avail >= Header /\ ~stream.sound
        /\ Stop("header") /\ avail' = avail - Header
     \/ /\ avail >= Header
        /\ pc' = "fill" /\ avail' = avail - Header /\ UNCHANGED <<rc, result>>
  /\ UNCHANGED <<stream, used, total, loop, footer>>

\* A faulty loop: the end of the input goes unnoticed.
FillUnchecked ==
  /\ pc = "fill"
  /\ srcLen' = Smaller(avail, InBuf) /\ avail' = avail - srcLen'
  /\ dstLen' = OutBuf /\ amt' = srcLen' /\ bufOff' = 0 /\ stat' = "none"
  /\ pc' = IF srcLen' = 0 THEN "status" ELSE "decode"
  /\ UNCHANGED <<stream, used, total, footer, rc, result>>

\* The top of the outer loop: inputCallback fills the input buffer.
Fill ==
  /\ pc = "fill"
  /\ srcLen' = Smaller(avail, InBuf) /\ avail' = avail - srcLen'
  /\ dstLen' = OutBuf /\ bufOff' = 0 /\ stat' = "none"
  /\ IF srcLen' = 0
       THEN Stop("insufficient") /\ UNCHANGED amt
       ELSE amt' = srcLen' /\ pc' = "decode" /\ UNCHANGED <<rc, result>>
  /\ UNCHANGED <<stream, used, total, footer>>

\* LzmaDec_DecodeToBuf consumes k bytes and produces d: it stops at the end
\* mark, else when the input is consumed or the output is full.  The mark is in
\* the last byte and is read when all the content is out.
Decodes(k, d, mark) ==
  /\ k <= stream.data - used /\ d <= stream.size - total
  /\ mark = (k = stream.data - used)
  /\ mark => d = stream.size - total
  /\ mark \/ k = amt \/ d = dstLen

\* A faulty test: the end mark does not stop the inner loop.
DrainedOnly(k, mark) == bufOff + k >= srcLen

\* What ends the inner loop: an empty input buffer or the end mark.
Drained(k, mark) == bufOff + k >= srcLen \/ mark

\* The inner loop: decode, write, and go on with what is left of the buffer.
\* With an empty buffer amt stays what the decoder consumed.
Decode ==
  /\ pc = "decode"
  /\ \E k \in 0 .. amt, d \in 0 .. dstLen, mark \in BOOLEAN :
       /\ Decodes(k, d, mark)
       /\ used' = used + k /\ total' = total + d
       /\ dstLen' = d /\ bufOff' = bufOff + k
       /\ stat' = IF mark THEN "mark" ELSE "more"
       /\ amt' = IF bufOff + k >= srcLen THEN k ELSE srcLen - (bufOff + k)
       /\ pc' = IF Drained(k, mark) THEN "status" ELSE "decode"
  /\ UNCHANGED <<stream, avail, srcLen, footer, rc, result>>

\* The decoder meets damaged data.
DecodeFails ==
  /\ pc = "decode" /\ ~stream.sound
  /\ Stop("decompress")
  /\ UNCHANGED <<stream, avail, used, total, loop, footer>>

\* outputCallback cannot grow the output.
WriteFails ==
  /\ pc = "decode"
  /\ Stop("output")
  /\ UNCHANGED <<stream, avail, used, total, loop, footer>>

\* The bytes at bufOff are the footer when they were read; in an empty buffer
\* they are what an earlier read, or nothing, left there.
FooterAt == IF bufOff + Footer <= srcLen THEN "right" ELSE "other"

\* A faulty bound: a footer that ends the buffer is left out.
FooterFitsStrictly == amt > Footer

FooterFits == amt >= Footer

\* After the mark: the footer is parsed when amt says that it is there.
ReadFooter ==
  /\ pc = "status" /\ stat = "mark"
  /\ footer' = IF stream.format = "lzip" /\ FooterFits THEN FooterAt ELSE footer
  /\ pc' = "check"
  /\ UNCHANGED <<stream, avail, used, total, loop, rc, result>>

\* lzma headers hold the size (isStreamed is 0): enough content ends the loop.
Enough == stream.format = "lzma" /\ total >= stream.size

NextBuffer ==
  /\ pc = "status" /\ stat # "mark"
  /\ pc' = IF Enough THEN "check" ELSE "fill"
  /\ UNCHANGED <<stream, avail, used, total, loop, footer, rc, result>>

\* A faulty check: a footer that could not be read is not missed.
AgreesIfRead == stream.format = "lzip" => footer = "zero" \/ (footer = "right" /\ stream.sound)

\* CRC and length of lzip, length of lzma.  A CRC agrees with sound content only,
\* and bytes that are not the footer agree with none.
Agrees ==
  IF stream.format = "lzip" THEN footer = "right" /\ stream.sound
                            ELSE total = stream.size

Check ==
  /\ pc = "check"
  /\ IF Agrees THEN rc' = "ok" /\ result' = total /\ pc' = "ended" ELSE Stop("mismatch")
  /\ UNCHANGED <<stream, avail, used, total, loop, footer>>

-----------------------------------------------------------------------------
Run ==
  \/ ReadHeader \/ Fill \/ Decode \/ DecodeFails \/ WriteFails
  \/ ReadFooter \/ NextBuffer \/ Check

Ended == pc = "ended" /\ UNCHANGED vars

Next == Run \/ Ended

\* One thread runs the function to its end.
Spec == Init /\ [][Next]_vars /\ WF_vars(Run)

-----------------------------------------------------------------------------
(* Properties *)

TypeOK ==
  /\ pc \in {"header", "fill", "decode", "status", "check", "ended"}
  /\ avail \in 0 .. Header + MaxData + Footer + MaxTail
  /\ used \in 0 .. stream.data /\ total \in 0 .. stream.size
  /\ srcLen \in 0 .. InBuf /\ bufOff \in 0 .. srcLen
  /\ amt \in 0 .. InBuf /\ dstLen \in 0 .. OutBuf
  /\ stat \in {"none", "more", "mark"} /\ footer \in {"zero", "right", "other"}
  /\ result \in {Null} \cup 0 .. MaxSize

\* dstLen is set once per input buffer and is both the room given and the amount
\* written, yet every call of the decoder is given the whole output buffer: the
\* inner loop goes on only after a call that filled it.
WholeOutputBuffer == pc = "decode" => dstLen = OutBuf /\ amt > 0

\* No stream that was cut or damaged is taken for a whole one: what the caller
\* gets is all of the content, and the content of lzip is sound.  (An lzma stream
\* has no checksum, so nothing is promised of a damaged one but its length.)
AcceptsOnlyWhole ==
  rc = "ok" => result = stream.size /\ (stream.format = "lzip" => stream.sound)

\* Where the footer lies in the input buffers the reader takes.
FooterInMarkBuffer ==
  (stream.data - 1) \div InBuf = (stream.data + Footer - 1) \div InBuf

\* An intact stream is refused as a mismatch exactly when it is lzip and its footer
\* is not in the input buffer in which the end mark is.
RefusedOnlyAtBoundary ==
  Intact => /\ rc = "mismatch" => stream.format = "lzip" /\ ~FooterInMarkBuffer
            /\ rc = "ok" /\ stream.format = "lzip" => FooterInMarkBuffer

\* decompress.c:206: "with lzip, we will have the footer left on the buffer!"
FooterLeftOnBuffer ==
  pc = "status" /\ stat = "mark" /\ stream.format = "lzip" /\ Intact
    => srcLen - bufOff >= Footer

\* Whatever was cut or damaged, the call returns.
Termination == <>(pc = "ended")
=============================================================================
