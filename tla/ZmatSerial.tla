----------------------------- MODULE ZmatSerial -----------------------------
(***************************************************************************)
(* zmat_run with the codecs of its own file in the place of one atomic step: *)
(* miniz_gzip_uncompress (GzipReader), xzDecompress (XzReader) and the two   *)
(* base64 functions (Base64).  Everything else is ZmatRun, which this        *)
(* module is shown to implement.                                            *)
(***************************************************************************)
EXTENDS ZmatRun, Sequences

CONSTANTS GzipInputs, XzInputs, Base64Inputs, \* what is to be decoded
          Documents, Modes,                   \* what base64 is to encode, and clevel
          OutBuf, LineLen

VARIABLES stream, gpc, start, dlen, crcHolds, ginflated, greach, gmem, gret,
          parts, xpc, src, from, state, padSize, pending, destLen, xtotal, status, xmem, xret,
          bytes, mode, text   \* base64: the document, clevel, and the characters

Gzip == INSTANCE GzipReader WITH LenMod <- UIntMod
Xz == INSTANCE XzReader WITH Cap <- MaxAlloc
B64 == INSTANCE Base64 WITH SizeWidth <- SizeMod

gzipVars == <<stream, gpc, start, dlen, crcHolds, ginflated, greach, gmem, gret>>
xzVars == <<parts, xpc, src, from, state, padSize, pending, destLen, xtotal, status, xmem, xret>>
base64Vars == <<bytes, mode, text>>
svars == <<vars, gzipVars, xzVars, base64Vars>>

\* The sizes the readers and base64 add to those of ZmatRun.
Lengths ==
  {Len(i.bytes) : i \in GzipInputs} \cup {Len(i.parts) : i \in XzInputs}
    \cup {Len(i.text) : i \in Base64Inputs}
    \cup {Len(B64!Encode(d, m)) : d \in Documents, m \in Modes}
Contents ==
  {i.size : i \in GzipInputs \cup XzInputs \cup Base64Inputs} \cup {Len(d) : d \in Documents}

ASSUME SerialAssumption ==
  /\ OutBuf \in Nat \ {0} /\ LineLen \in Nat \ {0} /\ SizeMod >= 24
  /\ \A i \in GzipInputs : Len(i.bytes) \in Nat /\ i.fields \in Nat
  /\ \A d \in Documents : Len(d) \in Nat
  /\ Modes \subseteq Int
  /\ 0 \notin Lengths /\ \A n \in Lengths : n <= Bound
  /\ \A n \in Lengths \cup Contents : n < SizeMod

\* A sound text is one that base64_encode wrote, but for what is not base64; no other
\* decodes to more than is said of it.
ASSUME TextAssumption ==
  /\ Documents \subseteq Seq(0 .. 255)
  /\ \A i \in Base64Inputs : i.text \in Seq(Nat)
  /\ \A i \in Base64Inputs :
       IF i.fate = "sound"
         THEN /\ i.doc \in Seq(0 .. 255) /\ Len(i.doc) > 0 /\ i.size = Len(i.doc)
              /\ \E m \in Modes : B64!Kept(i.text) = B64!Kept(B64!Encode(i.doc, m))
         ELSE /\ i.size \in Nat /\ i.fate \in Fates
              /\ B64!Decode(i.text) # B64!Refused => Len(B64!Decode(i.text)) \in 0 .. i.size

\* What the fate of a stream says of its bytes or parts.
ASSUME StreamAssumption ==
  /\ {"gzip", "xz", "base64"} \subseteq Codecs
  /\ \A i \in GzipInputs : Gzip!IsGzip(i)
  /\ \A i \in XzInputs : Xz!IsXz(i)

-----------------------------------------------------------------------------
HasReader == codec = "base64" \/ (op = "decode" /\ codec \in {"gzip", "xz"})

NoStream == [bytes |-> <<>>, flags |-> {}]

Decodes(length, input_) ==
  op = "decode" /\ insize = length /\ doc = [size |-> input_.size, fate |-> input_.fate]

GzipInit ==
  /\ codec = "gzip" /\ stream \in GzipInputs /\ Decodes(Len(stream.bytes), stream)
  /\ parts = <<>> /\ bytes = <<>> /\ mode = 0 /\ text = <<>>

XzInit ==
  /\ codec = "xz" /\ stream = NoStream /\ bytes = <<>> /\ mode = 0 /\ text = <<>>
  /\ \E i \in XzInputs : parts = i.parts /\ Decodes(Len(i.parts), i)

Base64Init ==
  /\ codec = "base64" /\ stream = NoStream /\ parts = <<>>
  /\ \/ /\ op = "encode" /\ bytes \in Documents /\ mode \in Modes /\ text = <<>>
        /\ insize = Len(bytes) /\ doc = [size |-> insize, fate |-> "sound"]
     \/ \E i \in Base64Inputs :
          bytes = i.doc /\ mode = 0 /\ text = i.text /\ Decodes(Len(i.text), i)

PlainInit ==
  /\ Init /\ ~HasReader
  /\ stream = NoStream /\ parts = <<>> /\ bytes = <<>> /\ mode = 0 /\ text = <<>>

SerialInit ==
  /\ Gzip!GzipIdle /\ Xz!XzIdle /\ Started
  /\ PlainInit \/ GzipInit \/ XzInit \/ Base64Init

-----------------------------------------------------------------------------
Here ==
  /\ RunHere \/ (RunOwner /\ ~HasReader) \/ MembersTooLarge
  /\ UNCHANGED <<gzipVars, xzVars, base64Vars>>

\* The answer of a codec that owns its output, which zmat_run passes on.
OwnerReturns(ok, n, memory) ==
  /\ pc' = "owned"
  /\ IF ok THEN OwnerGives(n) /\ UNCHANGED fault
           ELSE OwnerRefuses /\ fault' = memory
  /\ UNCHANGED <<input, zs, left, total, packed, rounds, rc>>

GzipReads ==
  /\ pc = "owner" /\ codec = "gzip" /\ Gzip!GzipStep
  /\ UNCHANGED <<vars, xzVars, base64Vars>>

GzipReturns ==
  /\ pc = "owner" /\ codec = "gzip" /\ gpc = "done"
  /\ OwnerReturns(gret = 0, dlen, gmem)
  /\ UNCHANGED <<gzipVars, xzVars, base64Vars>>

XzReads ==
  /\ pc = "owner" /\ codec = "xz" /\ op = "decode" /\ Xz!XzStep
  /\ UNCHANGED <<vars, gzipVars, base64Vars>>

XzReturns ==
  /\ pc = "owner" /\ codec = "xz" /\ op = "decode" /\ xpc = "done"
  /\ OwnerReturns(xret = 0, xtotal, xmem)
  /\ UNCHANGED <<gzipVars, xzVars, base64Vars>>

Base64Encodes ==
  /\ pc = "owner" /\ codec = "base64" /\ op = "encode"
  /\ \/ /\ ~B64!Overflows(insize) /\ text' = B64!Encode(bytes, mode)
        /\ OwnerReturns(TRUE, Len(text'), FALSE)
     \/ OwnerReturns(FALSE, 0, TRUE) /\ UNCHANGED text
  /\ UNCHANGED <<gzipVars, xzVars, bytes, mode>>

Base64Decodes ==
  /\ pc = "owner" /\ codec = "base64" /\ op = "decode"
  /\ LET out == B64!Decode(text)
     IN  \/ OwnerReturns(out # B64!Refused, Len(out), FALSE)
         \/ OwnerReturns(FALSE, 0, TRUE)
  /\ UNCHANGED <<gzipVars, xzVars, base64Vars>>

SerialRun ==
  Here \/ GzipReads \/ GzipReturns \/ XzReads \/ XzReturns \/ Base64Encodes \/ Base64Decodes

SerialEnded == Ended /\ UNCHANGED <<gzipVars, xzVars, base64Vars>>

SerialNext == SerialRun \/ SerialEnded

SerialSpec == SerialInit /\ [][SerialNext]_svars /\ WF_svars(SerialRun)

-----------------------------------------------------------------------------
(* Properties *)

\* miniz_gzip_uncompress reads no byte beyond the input, and the packed data begins
\* within it, wherever the input ends and whatever the lengths in the header say; and what
\* base64_encode writes, the NUL at its end included, fits the buffer it allocated,
\* for every mode of line feeds.
StaysInside ==
  /\ Gzip!StaysInside
  /\ pc = "ended" /\ codec = "base64" /\ op = "encode" /\ rc = 0
       => Len(text) + 1 <= B64!BufferSize(insize)

\* base64_decode gives back the document that base64_encode was given, whatever the line
\* feeds and left-over bytes, and skips what is not base64.
RoundTrip ==
  pc = "ended" /\ codec = "base64" /\ rc = 0 /\ doc.fate = "sound" => B64!Decode(text) = bytes

\* With its readers in detail zmat_run answers what ZmatRun says an owner of its output
\* may answer: a sound stream within the limits fails only for want of memory, no
\* other passes where the format can tell, and every call returns.
Abstract == INSTANCE ZmatRun WITH PackedSizes <- 1 .. Bound, Sizes <- 0 .. (SizeMod - 1)
ImplementsRun == Abstract!Spec
=============================================================================
