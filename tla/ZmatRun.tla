------------------------------- MODULE ZmatRun -------------------------------
(***************************************************************************)
(* zmat_run: the serial entry point.  One call compresses or decompresses   *)
(* one document with one codec, and owns the output buffer until it         *)
(* returns.  Each exit is a step of its own with the clean-up the code       *)
(* writes at that place; held and zs count what is open.                    *)
(*                                                                          *)
(* Four shapes cover the codecs.  An Owner allocates the output itself      *)
(* (base64, lzma, lzip, xz; miniz's gzip on decompression).  On compression *)
(* the others fill a buffer of bounded size.  On decompression zlib streams *)
(* into a buffer that grows, lz4 and blosc2 start again with a larger one,  *)
(* and zstd knows a bound.  The codecs are external: what they may answer   *)
(* follows from whether the input is sound, cut or damaged, and any         *)
(* allocation may fail.                                                     *)
(***************************************************************************)
EXTENDS Integers

CONSTANTS Codecs,     \* the methods tried
          Sizes,      \* document sizes; 0 is the empty input
          PackedSizes,\* sizes a document may be compressed to
          Bound,      \* deflateBound and the like: room for any of them
          MinOut,     \* ZMAT_MIN_OUTBUF
          MaxAlloc,   \* ZMAT_MAX_ALLOC
          MaxRounds,  \* ZMAT_MAX_DECOMPRESS_ROUNDS
          SizeMod,    \* 2^64: the width of size_t
          UIntMod,    \* 2^32: the width of avail_in, and of LZ4's int
          Lz4Max,     \* LZ4_MAX_INPUT_SIZE
          ErrorCodes  \* ZSTD_error_maxCode: the largest sizes are its errors

ASSUME RunAssumption ==
  /\ Sizes \subseteq Nat /\ PackedSizes \subseteq Nat \ {0}
  /\ Bound \in Nat /\ \A n \in PackedSizes : n <= Bound
  /\ {MinOut, MaxAlloc, MaxRounds, SizeMod, UIntMod, Lz4Max} \subseteq Nat \ {0}
  /\ MinOut <= MaxAlloc /\ MaxAlloc < UIntMod \div 2 /\ Lz4Max < UIntMod
  /\ ErrorCodes \in Nat /\ UIntMod <= SizeMod /\ MaxAlloc + ErrorCodes <= SizeMod
  /\ \A s \in Sizes \cup PackedSizes : s < SizeMod

\* The sizes that some buffer goes through from the smallest to the largest, at most
\* doubled each round: MaxAlloc <= MinOut * 2 ^ MaxRounds, as 2^30 = 2^10 * 2^20.
Reaching ==
  {reach \in [0 .. MaxRounds -> {n \in MinOut .. MaxAlloc : n % MinOut = 0 \/ n = MaxAlloc}] :
     /\ reach[0] = MinOut /\ reach[MaxRounds] = MaxAlloc
     /\ \A i \in 1 .. MaxRounds : reach[i] <= 2 * reach[i - 1]}

ASSUME RoundsAssumption == Reaching # {}

Owners(op) == {"base64", "lzma", "lzip", "xz"} \cup (IF op = "decode" THEN {"gzip"} ELSE {})
Deflating == {"zlib", "gzip"}
Lz4 == {"lz4", "lz4hc"}
Retrying == Lz4 \cup {"blosc2"}
Known == Owners("encode") \cup Deflating \cup Retrying \cup {"zstd"}

\* Owners that give no buffer, rather than an empty one, for an empty document.
GivesNull == {"lzma", "lzip", "xz"}

\* Formats with an end that a cut stream lacks, and those with a checksum too: base64
\* and lz4's bare block have neither, zstd is written without a checksum.
TellsDamage == {"zlib", "gzip", "lzip", "xz"}
TellsCut == TellsDamage \cup {"zstd"}

VARIABLES
  pc,      \* where the call is
  op,      \* "encode" or "decode": whether clevel is set
  codec,   \* zipid
  insize,  \* inputsize
  doc,     \* decode: the size of the document, and the fate of its stream
  buf,     \* capacity of what *outputbuf points to, or Null
  outsize, \* *outputsize
  held,    \* output buffers allocated and not freed
  zs,      \* codec states opened and not closed: zs, and zstd's context
  left,    \* zs.avail_in
  total,   \* zs.total_out
  ret,     \* what the codec answered
  packed,  \* what a codec makes into a buffer of bounded size
  rounds,  \* grow rounds so far
  taken,   \* how much of the input the codec was offered
  fault,   \* whether a resource has failed
  rc       \* the answer

input == <<op, codec, insize, doc>>
output == <<buf, outsize, held>>
vars == <<pc, op, codec, insize, doc, buf, outsize, held, zs, left, total, ret, packed, rounds,
          taken, fault, rc>>

Null == -1
Pending == 1
Fates == {"sound", "cut", "damaged"}

\* "rest": the first member of an lzip stream is whole, and what follows it is cut, damaged
\* or no chain of version-1 members.
FatesOf(c) == Fates \cup (IF c = "lzip" THEN {"rest"} ELSE {})

Smaller(a, b) == IF a < b THEN a ELSE b

-----------------------------------------------------------------------------
(* Buffer sizes *)

Clamp(n) == IF n < MinOut THEN MinOut ELSE Smaller(n, MaxAlloc)

\* zmat_initial_outbuf: four times the input, unless that overflows.
InitialOutbuf(n) ==
  LET product == (4 * n) % SizeMod
  IN  IF product \div 4 # n THEN MaxAlloc ELSE Clamp(product)

\* A faulty growth: the cap is not applied.
GrownUncapped(alloc) == 2 * alloc

\* zmat_grow_buf: twice the size up to the cap.
Grown(alloc) == Smaller(2 * alloc, MaxAlloc)

\* A faulty limit: one round too few.
OutOfRoundsEarly == rounds + 1 >= MaxRounds

OutOfRounds == rounds + 1 > MaxRounds

\* (size_t)*ret: zstd's size goes through an int, and is sign-extended on the way back.
AsSize(n) ==
  LET m == n % UIntMod IN IF m < UIntMod \div 2 THEN m ELSE m + (SizeMod - UIntMod)

\* ZSTD_isError
IsError(n) == n > SizeMod - ErrorCodes

-----------------------------------------------------------------------------
(* What the exits are made of *)

Return(code) == pc' = "ended" /\ rc' = code

\* free(*outputbuf); *outputbuf = NULL
FreeOut == held' = held - 1 /\ buf' = Null

\* deflateEnd, inflateEnd, ZSTD_freeCCtx
CloseState == zs' = zs - 1

\* zmat_shrink_buf: the buffer may stay as large as it is, and realloc finds no memory
\* for more than that.
Shrinks(n) == buf' = buf \/ (n \in 1 .. buf /\ buf' = n)

-----------------------------------------------------------------------------
Started ==
  /\ pc = "start"
  /\ buf = Null /\ outsize = 0 /\ held = 0 /\ zs = 0 /\ left = 0 /\ total = 0
  /\ ret = "none" /\ packed = 0 /\ rounds = 0 /\ taken = 0 /\ fault = FALSE /\ rc = Pending

Init ==
  /\ Started
  /\ op \in {"encode", "decode"} /\ codec \in Codecs
  /\ IF op = "encode"
       THEN insize \in Sizes /\ doc = [size |-> insize, fate |-> "sound"]
       ELSE /\ insize \in PackedSizes \cup (Sizes \cap {0})
            /\ doc \in [size : Sizes, fate : FatesOf(codec)]

Refuse ==
  /\ pc = "start"
  /\ \/ insize = 0 /\ Return(-1)
     \/ insize # 0 /\ codec \notin Known /\ Return(-999)
  /\ UNCHANGED <<input, output, zs, left, total, ret, packed, rounds, taken, fault>>

Dispatch ==
  /\ pc = "start" /\ insize # 0 /\ codec \in Known
  /\ pc' = IF codec \in Owners(op) THEN "owner"
           ELSE IF codec \in Deflating \/ (op = "encode" /\ codec \in Retrying) THEN "init"
           ELSE "alloc"
  /\ UNCHANGED <<input, output, zs, left, total, ret, packed, rounds, taken, fault, rc>>

-----------------------------------------------------------------------------
(* Codecs that allocate their output *)

\* What xz's loop caps and the 32-bit length of a gzip trailer cannot hold.
TooLarge ==
  op = "decode" /\ \/ codec = "xz" /\ doc.size > MaxAlloc
                   \/ codec = "gzip" /\ doc.size >= UIntMod

\* An lzip stream that the walk back over its members gets through.
HasMembers == codec = "lzip" /\ op = "decode" /\ doc.fate \in {"sound", "damaged"}

Hands(n) ==
  /\ outsize' = n
  /\ IF n = 0 /\ codec \in GivesNull THEN UNCHANGED <<buf, held>> ELSE buf' = n /\ held' = held + 1

OwnerGives(n) == Hands(n) /\ ret' = "ok" /\ taken' = insize

OwnerRefuses == ret' = "error" /\ UNCHANGED <<output, taken>>

\* What is decoded for all that the stream is not sound: base64 and lzma may not notice,
\* and lzip falls back to the first member, which ends soundly.
Unnoticed == codec \notin TellsDamage \/ doc.fate = "rest"

\* base64_encode, simpleCompress, xzDecompress and their likes allocate the output, and fail
\* for want of memory or because the input is not sound.  lzip falls back to the first
\* member, too, when there is no memory for the places of the members, and those decoded
\* so far are handed over with an error in the next.  (What lzip's reader refuses of
\* its own accord is in ElzmaDecompress, and counts as a fault here.)
RunOwner ==
  /\ pc = "owner" /\ pc' = "owned"
  /\ \/ doc.fate = "sound" /\ ~TooLarge /\ UNCHANGED fault
        /\ \E n \in IF op = "encode" THEN PackedSizes ELSE {doc.size} : OwnerGives(n)
     \/ doc.fate # "sound" /\ Unnoticed /\ UNCHANGED fault
        /\ \E n \in 0 .. doc.size : OwnerGives(n)
     \/ HasMembers /\ fault' = TRUE
        /\ \E n \in 0 .. doc.size : OwnerGives(n)
     \/ /\ fault' \in BOOLEAN /\ (doc.fate = "sound" /\ ~TooLarge => fault')
        /\ \/ OwnerRefuses
           \/ /\ HasMembers /\ ret' = "error" /\ UNCHANGED taken
              /\ \E n \in 0 .. doc.size : Hands(n)
  /\ UNCHANGED <<input, zs, left, total, packed, rounds, rc>>

\* The members pass the cap together, or the buffer cannot grow by one.
MembersTooLarge ==
  /\ pc = "owner" /\ HasMembers
  /\ \/ doc.size > MaxAlloc /\ UNCHANGED fault
     \/ fault' = TRUE
  /\ outsize' = 0 /\ Return(-5)
  /\ UNCHANGED <<input, buf, held, zs, left, total, ret, packed, rounds, taken>>

OwnerError == CASE codec = "base64" -> -5 [] codec = "gzip" -> -10 [] OTHER -> -4

\* A faulty exit: what was decoded before the error is not freed.
OwnerKeeps == UNCHANGED held /\ buf' = Null

\* if (*outputbuf) { free(*outputbuf); *outputbuf = NULL; }
OwnerFrees == IF buf = Null THEN UNCHANGED <<buf, held>> ELSE FreeOut

OwnerFails ==
  /\ pc = "owned" /\ ret = "error"
  /\ OwnerFrees /\ outsize' = 0 /\ Return(OwnerError)
  /\ UNCHANGED <<input, zs, left, total, ret, packed, rounds, taken, fault>>

OwnerSucceeds ==
  /\ pc = "owned" /\ ret = "ok" /\ Return(0)
  /\ UNCHANGED <<input, output, zs, left, total, ret, packed, rounds, taken, fault>>

-----------------------------------------------------------------------------
(* Compression into a buffer of bounded size *)

\* deflateInit, inflateInit, blosc1_set_compressor; LZ4_compressBound takes the
\* size as an int and answers 0 when it is negative or too large.
InitCodec ==
  /\ pc = "init"
  /\ \/ /\ codec \in Lz4 => insize % UIntMod <= Lz4Max
        /\ pc' = "alloc" /\ zs' = zs + (IF codec \in Deflating THEN 1 ELSE 0)
        /\ UNCHANGED <<fault, rc>>
     \/ codec \in Lz4 /\ insize % UIntMod > Lz4Max /\ Return(-6) /\ UNCHANGED <<zs, fault>>
     \/ codec \in Deflating /\ Return(-2) /\ fault' = TRUE /\ UNCHANGED zs
     \/ codec = "blosc2" /\ Return(-7) /\ fault' = TRUE /\ UNCHANGED zs
  /\ UNCHANGED <<input, output, left, total, ret, packed, rounds, taken>>

\* What the codec is offered: the counts of zlib, LZ4 and blosc are 32 bits wide ...
Offered == IF codec \in Deflating \cup Retrying THEN insize % UIntMod ELSE insize

\* ... and blosc's is signed.
Negative == codec = "blosc2" /\ Offered >= UIntMod \div 2

\* malloc of the bound (deflateBound and the like), which all but the deflating codecs
\* keep in *outputsize; gzip's buffer is the function's own until it is done.
AllocBound ==
  /\ pc = "alloc" /\ op = "encode"
  /\ \/ /\ held' = held + 1
        /\ buf' = IF codec = "gzip" THEN Null ELSE Bound
        /\ outsize' = IF codec \in Deflating THEN outsize ELSE Bound
        /\ taken' = Offered
        /\ pc' = IF codec = "zstd" THEN "context" ELSE "compress"
        /\ UNCHANGED <<zs, fault, rc>>
     \/ /\ codec \in Deflating /\ CloseState /\ Return(-5) /\ fault' = TRUE
        /\ UNCHANGED <<output, taken>>
     \/ /\ codec \notin Deflating /\ outsize' = 0 /\ Return(-5) /\ fault' = TRUE
        /\ UNCHANGED <<buf, held, zs, taken>>
  /\ UNCHANGED <<input, left, total, ret, packed, rounds>>

\* ZSTD_createCCtx
OpenContext ==
  /\ pc = "context"
  /\ \/ pc' = "compress" /\ zs' = zs + 1 /\ UNCHANGED <<output, fault, rc>>
     \/ FreeOut /\ outsize' = 0 /\ Return(-5) /\ fault' = TRUE /\ UNCHANGED zs
  /\ UNCHANGED <<input, left, total, ret, packed, rounds, taken>>

\* One deflate(Z_FINISH); the room is a 32-bit count too, and an answer of Z_OK, for an
\* output that is full, is taken for success.
CompressZlib ==
  /\ pc = "compress" /\ codec = "zlib" /\ CloseState
  /\ \/ \E n \in PackedSizes :
          /\ Bound % UIntMod # 0 /\ packed' = n
          /\ outsize' = Smaller(n, Bound % UIntMod) /\ Shrinks(outsize')
          /\ Return(0) /\ UNCHANGED <<held, fault>>
     \/ /\ FreeOut /\ outsize' = 0 /\ Return(-3)
        /\ fault' = (Bound % UIntMod # 0) /\ UNCHANGED packed
  /\ UNCHANGED <<input, left, total, ret, rounds, taken>>

\* deflate is asked again until it is done; only then is the buffer the caller's.
CompressGzip ==
  /\ pc = "compress" /\ codec = "gzip" /\ CloseState
  /\ \/ \E n \in PackedSizes :
          /\ packed' = n /\ outsize' = n /\ buf' \in {n, Bound}
          /\ Return(0) /\ UNCHANGED <<held, fault>>
     \/ held' = held - 1 /\ Return(-3) /\ fault' = TRUE /\ UNCHANGED <<buf, outsize, packed>>
  /\ UNCHANGED <<input, left, total, ret, rounds, taken>>

CompressLz4 ==
  /\ pc = "compress" /\ codec \in Lz4
  /\ \/ \E n \in PackedSizes :
          packed' = n /\ outsize' = n /\ Shrinks(n) /\ Return(0) /\ UNCHANGED <<held, fault>>
     \/ outsize' = 0 /\ FreeOut /\ Return(-6) /\ fault' = TRUE /\ UNCHANGED packed
  /\ UNCHANGED <<input, zs, left, total, ret, rounds, taken>>

\* ZSTD_compress2 and ZSTD_freeCCtx, then what became of the size in the int.
CompressZstd ==
  /\ pc = "compress" /\ codec = "zstd" /\ CloseState
  /\ \/ \E n \in PackedSizes :
          /\ packed' = n /\ ~IsError(AsSize(n))
          /\ outsize' = AsSize(n) /\ Shrinks(AsSize(n))
          /\ Return(0) /\ UNCHANGED <<held, fault>>
     \/ /\ (\E n \in PackedSizes : IsError(AsSize(n)) /\ packed' = n /\ UNCHANGED fault)
           \/ (fault' = TRUE /\ UNCHANGED packed)
        /\ FreeOut /\ outsize' = 0 /\ Return(-9)
  /\ UNCHANGED <<input, left, total, ret, rounds, taken>>

CompressBlosc ==
  /\ pc = "compress" /\ codec = "blosc2"
  /\ \/ ~Negative /\ \E n \in PackedSizes :
          packed' = n /\ outsize' = n /\ Shrinks(n) /\ Return(0) /\ UNCHANGED <<held, fault>>
     \/ FreeOut /\ outsize' = 0 /\ Return(-8) /\ fault' = ~Negative /\ UNCHANGED packed
  /\ UNCHANGED <<input, zs, left, total, ret, rounds, taken>>

-----------------------------------------------------------------------------
(* Decompression into a buffer that grows, or of a size that is known *)

\* zlib: zmat_initial_outbuf, and malloc.
AllocInflate ==
  /\ pc = "alloc" /\ op = "decode" /\ codec = "zlib"
  /\ \/ /\ held' = held + 1 /\ buf' = InitialOutbuf(insize)
        /\ left' = Offered /\ taken' = Offered /\ pc' = "inflate"
        /\ UNCHANGED <<zs, fault, rc>>
     \/ CloseState /\ Return(-5) /\ fault' = TRUE /\ UNCHANGED <<buf, held, left, taken>>
  /\ UNCHANGED <<input, outsize, total, ret, packed, rounds>>

\* lz4, blosc2
AllocAttempt ==
  /\ pc = "alloc" /\ op = "decode" /\ codec \in Retrying
  /\ \/ /\ held' = held + 1 /\ buf' = InitialOutbuf(insize)
        /\ taken' = Offered /\ pc' = "attempt"
        /\ UNCHANGED <<fault, rc>>
     \/ Return(-5) /\ fault' = TRUE /\ UNCHANGED <<buf, held, taken>>
  /\ UNCHANGED <<input, outsize, zs, left, total, ret, packed, rounds>>

\* zstd: ZSTD_decompressBound, refused when above the cap.
AllocKnown ==
  /\ pc = "alloc" /\ op = "decode" /\ codec = "zstd"
  /\ \/ /\ doc.size <= MaxAlloc
        /\ held' = held + 1 /\ buf' = doc.size /\ outsize' = doc.size
        /\ taken' = insize /\ pc' = "attempt"
        /\ UNCHANGED <<fault, rc>>
     \/ /\ doc.size > MaxAlloc \/ doc.fate # "sound"
        /\ outsize' = 0 /\ Return(-9) /\ UNCHANGED <<buf, held, taken, fault>>
     \/ outsize' = 0 /\ Return(-5) /\ fault' = TRUE /\ UNCHANGED <<buf, held, taken>>
  /\ UNCHANGED <<input, zs, left, total, ret, packed, rounds>>

\* inflate(Z_SYNC_FLUSH): progress is Z_OK, none is Z_BUF_ERROR.  The end of the
\* stream is in its last unit of input; a cut stream ends without it, and what is
\* pending keeps the output full.
Inflated(out, in, answer) ==
  LET room == buf - total
      more == out > total \/ in < left
  IN  /\ out <= doc.size /\ out - total <= room
      /\ \/ answer = "end" /\ doc.fate = "sound" /\ in = 0 /\ out = doc.size
         \/ /\ answer = "ok" /\ more
            /\ in = 0 => doc.fate # "sound" \/ out < doc.size
            /\ in = 0 /\ out < doc.size /\ doc.fate = "sound" => out = buf
         \/ answer = "buf" /\ ~more /\ left = 0 /\ doc.fate # "sound"
         \/ answer = "data" /\ doc.fate = "damaged"

Inflate ==
  /\ pc = "inflate"
  /\ \E out \in total .. buf, in \in 0 .. left, answer \in {"end", "ok", "buf", "data"} :
       Inflated(out, in, answer) /\ total' = out /\ left' = in /\ ret' = answer
  /\ pc' = "answer"
  /\ UNCHANGED <<input, output, zs, packed, rounds, taken, fault, rc>>

AtEnd == ret = "end"

InflateEnds ==
  /\ pc = "answer" /\ AtEnd
  /\ outsize' = total /\ CloseState /\ Shrinks(total) /\ Return(0)
  /\ UNCHANGED <<input, held, left, total, ret, packed, rounds, taken, fault>>

\* Damaged, or no progress with room left: the input ran out.
Stuck == ret = "data" \/ (ret = "buf" /\ buf - total # 0)

\* A faulty exit: the state of inflate stays open.
InflateLeavesOpen == FreeOut /\ UNCHANGED zs

InflateReleases == FreeOut /\ CloseState

InflateFails ==
  /\ pc = "answer" /\ ~AtEnd /\ Stuck
  /\ InflateReleases /\ Return(-3)
  /\ UNCHANGED <<input, outsize, left, total, ret, packed, rounds, taken, fault>>

\* Progress with room left: inflate is called again.
InflateMore ==
  /\ pc = "answer" /\ ~AtEnd /\ ~Stuck /\ buf - total # 0
  /\ pc' = "inflate"
  /\ UNCHANGED <<input, output, zs, left, total, ret, packed, rounds, taken, fault, rc>>

InflateFull ==
  /\ pc = "answer" /\ ~AtEnd /\ ~Stuck /\ buf - total = 0
  /\ pc' = "grow"
  /\ UNCHANGED <<input, output, zs, left, total, ret, packed, rounds, taken, fault, rc>>

\* A blosc2 stream of nothing answers 0, which is taken for want of room.
Empty(n) == codec = "blosc2" /\ n = 0

\* LZ4_decompress_safe or blosc1_decompress into the whole buffer; what is not sound may
\* decode to something else.
Attempt ==
  /\ pc = "attempt" /\ codec \in Retrying
  /\ \/ /\ \E n \in 0 .. Smaller(doc.size, buf) :
             /\ ~Empty(n) /\ (doc.fate = "sound" => n = doc.size)
             /\ outsize' = n /\ Shrinks(n)
        /\ Return(0)
     \/ /\ doc.fate # "sound" \/ doc.size > buf \/ Empty(doc.size)
        /\ pc' = "grow" /\ UNCHANGED <<buf, outsize, rc>>
  /\ UNCHANGED <<input, held, zs, left, total, ret, packed, rounds, taken, fault>>

\* ZSTD_decompress, whose answer goes through an int too.
AttemptKnown ==
  /\ pc = "attempt" /\ codec = "zstd"
  /\ \/ /\ doc.fate # "cut"
        /\ \E n \in 0 .. Smaller(doc.size, buf) :
             /\ doc.fate = "sound" => n = doc.size
             /\ ~IsError(AsSize(n)) /\ outsize' = AsSize(n) /\ Shrinks(AsSize(n))
        /\ Return(0) /\ UNCHANGED <<held, fault>>
     \/ FreeOut /\ outsize' = 0 /\ Return(-9) /\ fault' = (fault \/ doc.fate = "sound")
  /\ UNCHANGED <<input, zs, left, total, ret, packed, rounds, taken>>

RoundsError == CASE codec = "zlib" -> -5 [] codec \in Lz4 -> -6 [] codec = "blosc2" -> -8

\* Only zlib has a state to close, and it leaves *outputsize as it is.
GrowReleases == IF codec = "zlib" THEN CloseState /\ UNCHANGED outsize
                                  ELSE outsize' = 0 /\ UNCHANGED zs

\* One more round: there were too many.
TooManyRounds ==
  /\ pc = "grow" /\ OutOfRounds /\ rounds' = rounds + 1
  /\ FreeOut /\ GrowReleases /\ Return(RoundsError)
  /\ UNCHANGED <<input, left, total, ret, packed, taken, fault>>

\* A faulty exit: freed by zmat_grow_buf and by its caller.
GrowFreesTwice == held' = held - 2 /\ buf' = Null

\* zmat_grow_buf frees the buffer that it cannot grow; its callers do not.
GrowFrees == FreeOut

CannotGrow ==
  /\ pc = "grow" /\ ~OutOfRounds /\ rounds' = rounds + 1
  /\ \/ Grown(buf) <= buf /\ UNCHANGED fault
     \/ Grown(buf) > buf /\ fault' = TRUE
  /\ GrowFrees /\ GrowReleases /\ Return(-5)
  /\ UNCHANGED <<input, left, total, ret, packed, taken>>

Grow ==
  /\ pc = "grow" /\ ~OutOfRounds /\ rounds' = rounds + 1
  /\ Grown(buf) > buf /\ buf' = Grown(buf)
  /\ pc' = IF codec = "zlib" THEN "inflate" ELSE "attempt"
  /\ UNCHANGED <<input, outsize, held, zs, left, total, ret, packed, taken, fault, rc>>

-----------------------------------------------------------------------------
RunHere ==
  \/ Refuse \/ Dispatch \/ OwnerFails \/ OwnerSucceeds \/ InitCodec
  \/ AllocBound \/ OpenContext
  \/ CompressZlib \/ CompressGzip \/ CompressLz4 \/ CompressZstd \/ CompressBlosc
  \/ AllocInflate \/ AllocAttempt \/ AllocKnown
  \/ Inflate \/ InflateEnds \/ InflateFails \/ InflateMore \/ InflateFull
  \/ Attempt \/ AttemptKnown \/ TooManyRounds \/ CannotGrow \/ Grow

Run == RunHere \/ RunOwner \/ MembersTooLarge

Ended == pc = "ended" /\ UNCHANGED vars

Next == Run \/ Ended

\* One thread runs the function to its end.
Spec == Init /\ [][Next]_vars /\ WF_vars(Run)

-----------------------------------------------------------------------------
(* Properties *)

\* A size that an int cannot hold: zstd announces another, with rc 0.
SizeLost == op = "encode" /\ codec = "zstd" /\ packed >= UIntMod \div 2

\* "On error, *outputbuf is guaranteed to be NULL and *outputsize is 0": whichever of the
\* exits is taken, every buffer and codec state is released once.  On success the
\* caller holds the one buffer, or none for an empty document, and as much as is announced.
AllOrNothing ==
  pc = "ended" =>
    /\ zs = 0
    /\ held = (IF buf = Null THEN 0 ELSE 1)
    /\ rc # 0 => buf = Null /\ outsize = 0
    /\ rc = 0 /\ ~SizeLost => outsize = 0 \/ outsize <= buf

\* No cut stream is taken for a whole one and no damaged one for a sound one where the
\* format can tell, and a sound one gives the whole document, however often the
\* buffer was grown.  Only of an lzip stream may the first member pass for the whole: when
\* its rest is not sound, or memory was short while its members were looked for.
DecodesTheWhole ==
  pc = "ended" /\ op = "decode" /\ rc = 0 =>
    /\ codec \in TellsCut => doc.fate # "cut"
    /\ codec \in TellsDamage => doc.fate \in {"sound", "rest"} \/ (codec = "lzip" /\ fault)
    /\ doc.fate = "sound" => outsize = doc.size \/ (codec = "lzip" /\ fault)

\* No buffer passes the cap, whatever the guess and the growth make of it, and the limits
\* refuse no document below it: twenty doublings of the smallest buffer reach
\* ZMAT_MAX_ALLOC, so the count of rounds is never what stops one.
LimitsAreTheCap ==
  /\ pc \in {"inflate", "answer", "attempt", "grow"} => buf <= MaxAlloc
  /\ pc = "ended" /\ op = "decode" /\ doc.fate = "sound" /\ insize # 0
       /\ codec \in Known /\ doc.size < MaxAlloc /\ ~Empty(doc.size) /\ ~fault
       => rc = 0

\* "inputsize: input stream buffer length": success is for all of the input.
InputIsWhole == pc = "ended" /\ rc = 0 => taken = insize

\* The call returns whatever the input: inflate is not asked for ever.
Termination == <>(pc = "ended")
=============================================================================
