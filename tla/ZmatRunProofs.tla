---------------------------- MODULE ZmatRunProofs ----------------------------
(***************************************************************************)
(* Proofs about ZmatRun, for any codecs, sizes and limits, and about the     *)
(* readers and writers of ZmatSerial, for any input.                        *)
(*                                                                          *)
(* The inductive invariant says which codecs and which direction reach each *)
(* program point, what is allocated and open there, what inflate or an      *)
(* owner has told so far, and, for the limits, that the buffer is never     *)
(* behind the doublings counted by rounds: the rounds are used up only when *)
(* the buffer has reached the cap.  The parts after it are about what the    *)
(* gzip reader reads and base64 writes; that base64 comes back; what the    *)
(* gzip and the xz reader answer; and, from these, that zmat_run with its    *)
(* readers in detail implements ZmatRun.                                    *)
(***************************************************************************)
EXTENDS ZmatSerial, TLAPS, WellFoundedInduction

\* One way from the smallest buffer to the cap
Reach == CHOOSE reach : reach \in Reaching

InputInv ==
  /\ op \in {"encode", "decode"} /\ insize \in Nat
  /\ doc \in [size : Nat, fate : Fates \cup {"rest"}]
  /\ op = "encode" => doc.fate = "sound"
  /\ doc.fate = "rest" => codec = "lzip"
  /\ buf \in Int /\ total \in Nat /\ rounds \in Nat

\* Who gets where
PathInv ==
  /\ pc = "start" => rounds = 0 /\ total = 0
  /\ pc \in {"owner", "owned"} => codec \in Owners(op) /\ insize # 0
  /\ pc \in {"init", "alloc"} => codec \in Known \ Owners(op) /\ rounds = 0 /\ total = 0
  /\ pc = "init" => op = "encode" \/ codec \in Deflating
  /\ pc \in {"context", "compress"} => op = "encode" /\ codec \in Known \ Owners(op)
  /\ pc = "context" => codec = "zstd"
  /\ pc \in {"inflate", "answer"} => op = "decode" /\ codec = "zlib"
  /\ pc = "attempt" => op = "decode" /\ codec \in Retrying \cup {"zstd"}
  /\ pc = "grow" => op = "decode" /\ codec \in Retrying \cup {"zlib"}

\* The buffer that is allocated and the codec state that is open, at every point
HeapInv ==
  /\ pc \in {"start", "owner", "init", "alloc"} => buf = Null /\ outsize = 0 /\ held = 0
  /\ pc \in {"start", "owner", "owned", "init", "context"} => zs = 0
  /\ pc = "owned" =>
       /\ held = (IF buf = Null THEN 0 ELSE 1)
       /\ outsize = buf \/ (buf = Null /\ outsize = 0)
  /\ pc = "alloc" => zs = (IF codec \in Deflating THEN 1 ELSE 0)
  /\ pc = "context" => held = 1 /\ buf = Bound
  /\ pc = "compress" =>
       /\ held = 1 /\ buf = (IF codec = "gzip" THEN Null ELSE Bound)
       /\ codec = "gzip" => outsize = 0
       /\ zs = (IF codec \in Deflating \cup {"zstd"} THEN 1 ELSE 0)
  /\ pc \in {"inflate", "answer", "attempt", "grow"} =>
       /\ held = 1 /\ buf \in Nat /\ zs = (IF codec = "zlib" THEN 1 ELSE 0)
       /\ codec = "zlib" => outsize = 0

\* What a decoded document may lack: see DecodesTheWhole.
Faithful(size) ==
  op = "decode" =>
    /\ codec \in TellsCut => doc.fate # "cut"
    /\ codec \in TellsDamage => doc.fate \in {"sound", "rest"} \/ (codec = "lzip" /\ fault)
    /\ doc.fate = "sound" => size = doc.size \/ (codec = "lzip" /\ fault)

\* Why a document may be refused: see LimitsAreTheCap.
Refusable ==
  \/ fault \/ op = "encode" \/ doc.fate # "sound" \/ insize = 0 \/ codec \notin Known
  \/ doc.size >= MaxAlloc \/ Empty(doc.size)

\* What inflate or an owner has told, and why a buffer is too small
ContentInv ==
  /\ pc = "owned" =>
       /\ ret \in {"ok", "error"}
       /\ ret = "ok" => Faithful(outsize)
       /\ ret = "error" => Refusable
  /\ pc \in {"inflate", "answer"} \/ (pc = "grow" /\ codec = "zlib") =>
       total <= doc.size /\ total <= buf
  /\ pc = "answer" =>
       /\ ret = "end" => doc.fate = "sound" /\ total = doc.size
       /\ doc.fate = "sound" => ret \in {"end", "ok"}
  /\ pc = "grow" /\ doc.fate = "sound" => doc.size >= buf \/ Empty(doc.size)

\* The buffer, the cap and the rounds
BufferInv ==
  pc \in {"inflate", "answer", "attempt", "grow"} =>
    /\ buf <= MaxAlloc
    /\ codec # "zstd" => rounds \in 0 .. MaxRounds /\ buf >= Reach[rounds]
    /\ codec = "zstd" /\ doc.fate = "sound" => doc.size <= buf

RInv == /\ InputInv /\ PathInv /\ HeapInv /\ ContentInv /\ BufferInv
        /\ AllOrNothing /\ DecodesTheWhole /\ LimitsAreTheCap

-----------------------------------------------------------------------------
\* Each step of the way to the cap at most doubles the buffer.
LEMMA ReachDoubles ==
  /\ Reach \in [0 .. MaxRounds -> MinOut .. MaxAlloc]
  /\ Reach[0] = MinOut /\ Reach[MaxRounds] = MaxAlloc
  /\ \A i \in 1 .. MaxRounds : Reach[i] <= 2 * Reach[i - 1]
<1>1. Reach \in Reaching
  BY RoundsAssumption DEF Reach
<1> QED BY <1>1, RunAssumption DEF Reaching

\* zmat_initial_outbuf: the first guess is between the smallest buffer and the cap.
LEMMA GuessFits ==
  ASSUME NEW n \in Nat
  PROVE  InitialOutbuf(n) \in MinOut .. MaxAlloc
<1> DEFINE p == (4 * n) % SizeMod
<1>1. p \in Nat
  BY RunAssumption
<1>2. Clamp(p) \in MinOut .. MaxAlloc
  <2> HIDE DEF p
  <2> QED BY <1>1, RunAssumption DEF Clamp, Smaller
<1>3. MaxAlloc \in MinOut .. MaxAlloc
  BY RunAssumption
<1> QED BY <1>2, <1>3 DEF InitialOutbuf

\* zmat_grow_buf: the buffer grows to the next size of the way, unless it is at the cap.
LEMMA GrowthFits ==
  ASSUME NEW b \in Int, NEW r \in 0 .. MaxRounds, b <= MaxAlloc, b >= Reach[r]
  PROVE  /\ Grown(b) \in Int /\ Grown(b) <= MaxAlloc /\ Grown(b) >= b
         /\ b < MaxAlloc => Grown(b) > b
         /\ r + 1 <= MaxRounds => Grown(b) >= Reach[r + 1]
         /\ r + 1 > MaxRounds => b = MaxAlloc
<1>1. /\ Reach[r] \in MinOut .. MaxAlloc
      /\ MinOut \in Nat /\ MinOut > 0 /\ MaxAlloc \in Nat /\ MaxRounds \in Nat
  <2>1. Reach[r] \in MinOut .. MaxAlloc
    BY ReachDoubles
  <2> QED BY <2>1, RunAssumption
<1>2. r + 1 <= MaxRounds => Reach[r + 1] \in MinOut .. MaxAlloc /\ Reach[r + 1] <= 2 * Reach[r]
  <2> SUFFICES ASSUME r + 1 <= MaxRounds
               PROVE Reach[r + 1] \in MinOut .. MaxAlloc /\ Reach[r + 1] <= 2 * Reach[r]
    OBVIOUS
  <2>1. r + 1 \in 1 .. MaxRounds /\ (r + 1) - 1 = r
    BY <1>1
  <2> QED BY <2>1, <1>1, ReachDoubles
<1>3. r + 1 > MaxRounds => r = MaxRounds
  BY <1>1
<1> QED BY <1>1, <1>2, <1>3, ReachDoubles DEF Grown, Smaller

\* A size below 2^31 comes through the int as it is, and below the cap is no error.
LEMMA SizeKept ==
  ASSUME NEW n \in Nat, n < UIntMod \div 2
  PROVE  AsSize(n) = n /\ (n <= MaxAlloc => ~IsError(AsSize(n)))
<1>1. UIntMod \in Nat \ {0} /\ SizeMod \in Nat /\ MaxAlloc \in Nat /\ ErrorCodes \in Nat
      /\ MaxAlloc + ErrorCodes <= SizeMod
  BY RunAssumption
<1>2. n < UIntMod
  BY <1>1
<1>3. n % UIntMod = n
  BY <1>1, <1>2
<1> QED BY <1>1, <1>3 DEF AsSize, IsError

-----------------------------------------------------------------------------
\* The initial states satisfy the invariant.
LEMMA RunInit == Init => RInv
<1> SUFFICES ASSUME Init PROVE RInv
  OBVIOUS
<1> USE DEF Init, Started
<1>1. /\ insize \in Nat /\ doc \in [size : Nat, fate : Fates \cup {"rest"}]
      /\ op = "encode" => doc.fate = "sound"
      /\ doc.fate = "rest" => codec = "lzip"
  <2>1. Sizes \subseteq Nat /\ PackedSizes \subseteq Nat
    BY RunAssumption
  <2>2. CASE op = "encode"
    <3>1. insize \in Nat /\ doc = [size |-> insize, fate |-> "sound"]
      BY <2>1, <2>2
    <3> QED BY <3>1 DEF Fates
  <2>3. CASE op = "decode"
    <3>1. insize \in Nat /\ doc \in [size : Sizes, fate : FatesOf(codec)]
      BY <2>1, <2>3
    <3>2. FatesOf(codec) \subseteq Fates \cup {"rest"} /\ ("rest" \in FatesOf(codec) => codec = "lzip")
      BY DEF FatesOf, Fates
    <3> QED BY <2>1, <2>3, <3>1, <3>2
  <2> QED BY <2>2, <2>3
<1>2. InputInv
  BY <1>1 DEF InputInv, Null
<1> QED BY <1>2 DEF RInv, PathInv, HeapInv, ContentInv, BufferInv, AllOrNothing, DecodesTheWhole,
                    LimitsAreTheCap

\* An error return is complete, and refuses a document below the cap only with a fault.
LEMMA FailEnds ==
  ASSUME RInv, UNCHANGED input, total' \in Nat, rounds' \in Nat,
         pc' = "ended", rc' # 0,
         buf' = Null, outsize' = 0, held' = 0, zs' = 0, Refusable'
  PROVE  RInv'
<1> USE DEF RInv, input
<1>1. InputInv'
  BY DEF InputInv, Null
<1>2. (PathInv /\ HeapInv /\ ContentInv /\ BufferInv /\ AllOrNothing /\ DecodesTheWhole)'
  BY DEF PathInv, HeapInv, ContentInv, BufferInv, AllOrNothing, DecodesTheWhole
<1>3. MaxAlloc \in Nat /\ doc.size \in Nat
  BY RunAssumption DEF InputInv
<1>4. LimitsAreTheCap'
  BY <1>3 DEF LimitsAreTheCap, Refusable, Empty
<1> QED BY <1>1, <1>2, <1>4

\* A successful return holds what it announces, and only what the stream gives.
LEMMA SucceedEnds ==
  ASSUME RInv, UNCHANGED input, total' \in Nat, rounds' \in Nat,
         pc' = "ended", rc' = 0, zs' = 0,
         buf' \in Int, held' = (IF buf' = Null THEN 0 ELSE 1),
         SizeLost' \/ outsize' = 0 \/ outsize' <= buf', Faithful(outsize)'
  PROVE  RInv'
<1> USE DEF RInv, input
<1>1. InputInv'
  BY DEF InputInv
<1>2. (PathInv /\ HeapInv /\ ContentInv /\ BufferInv)'
  BY DEF PathInv, HeapInv, ContentInv, BufferInv
<1>3. AllOrNothing'
  BY DEF AllOrNothing
<1>4. DecodesTheWhole'
  BY DEF DecodesTheWhole, Faithful
<1>5. LimitsAreTheCap'
  BY DEF LimitsAreTheCap
<1> QED BY <1>1, <1>2, <1>3, <1>4, <1>5

\* What every owner of its output may do, for all sizes it may answer.
LEMMA OwnerWidens ==
  /\ RunOwner => Abstract!RunOwner
  /\ MembersTooLarge => Abstract!MembersTooLarge
<1>1. PackedSizes \subseteq 1 .. Bound
  BY RunAssumption
<1> USE DEF Abstract!input, input, Abstract!output, output, Abstract!HasMembers, HasMembers
<1>2. MembersTooLarge => Abstract!MembersTooLarge
  BY DEF MembersTooLarge, Abstract!MembersTooLarge, Abstract!Return, Return
<1>3. RunOwner => Abstract!RunOwner
  BY <1>1 DEF RunOwner, Abstract!RunOwner, Abstract!TooLarge, TooLarge, Abstract!OwnerGives, OwnerGives,
       Abstract!OwnerRefuses, OwnerRefuses, Abstract!Hands, Hands, Abstract!GivesNull, GivesNull,
       Abstract!Unnoticed, Unnoticed, Abstract!TellsDamage, TellsDamage
<1> QED BY <1>2, <1>3

\* Such an answer keeps the invariant.
LEMMA OwnerStep == RInv /\ (Abstract!RunOwner \/ Abstract!MembersTooLarge) => RInv'
<1> SUFFICES ASSUME RInv, Abstract!RunOwner \/ Abstract!MembersTooLarge PROVE RInv'
  OBVIOUS
<1> USE DEF Abstract!input, Abstract!output, input, output
<1>1. /\ InputInv /\ PathInv /\ HeapInv
      /\ doc.size \in Nat /\ doc.fate \in Fates \cup {"rest"} /\ total \in Nat /\ rounds \in Nat
  BY DEF RInv, InputInv
<1>2. {Bound, MaxAlloc, UIntMod} \subseteq Nat /\ MaxAlloc <= UIntMod
  BY RunAssumption
<1>3. CASE Abstract!MembersTooLarge
  <2> USE <1>3 DEF Abstract!MembersTooLarge, Abstract!HasMembers, Abstract!Return
  <2>1. buf' = Null /\ held' = 0 /\ zs' = 0 /\ outsize' = 0
    BY <1>1 DEF HeapInv
  <2>2. Refusable'
    BY <1>1, <1>2 DEF Refusable
  <2> QED BY <1>1, <2>1, <2>2, FailEnds
<1>4. CASE Abstract!RunOwner
  <2>1. /\ pc = "owner" /\ pc' = "owned" /\ UNCHANGED <<input, zs, total, rounds>>
        /\ codec \in Owners(op) /\ insize # 0 /\ buf = Null /\ outsize = 0 /\ held = 0 /\ zs = 0
        /\ rc' = rc
    BY <1>1, <1>4 DEF Abstract!RunOwner, PathInv, HeapInv
  <2> DEFINE answered(n) == Abstract!Hands(n)
  <2>2. ASSUME NEW n \in Nat, answered(n)
        PROVE  InputInv' /\ HeapInv' /\ outsize' = n
    <3>1. /\ outsize' = n
          /\ (buf' = Null /\ held' = 0 /\ n = 0) \/ (buf' = n /\ held' = 1)
      BY <2>1, <2>2 DEF Abstract!Hands, Abstract!GivesNull
    <3>2. buf' \in Int /\ HeapInv'
      BY <2>1, <3>1 DEF HeapInv, Null
    <3> QED BY <1>1, <2>1, <3>1, <3>2 DEF InputInv
  <2>3. ASSUME UNCHANGED output PROVE InputInv' /\ HeapInv'
    BY <1>1, <2>1, <2>3 DEF InputInv, HeapInv
  <2>4. ASSUME InputInv', HeapInv', ret' \in {"ok", "error"}, ret' = "ok" => Faithful(outsize)',
               ret' = "error" => Refusable'
        PROVE  RInv'
    <3>1. PathInv' /\ ContentInv' /\ BufferInv'
      BY <1>1, <2>1, <2>4 DEF PathInv, ContentInv, BufferInv
    <3> QED BY <2>1, <2>4, <3>1 DEF RInv, AllOrNothing, DecodesTheWhole, LimitsAreTheCap
  <2>5. CASE doc.fate = "sound" /\ \E n \in IF op = "encode" THEN 1 .. Bound ELSE {doc.size} : Abstract!OwnerGives(n)
    <3>1. PICK n \in IF op = "encode" THEN 1 .. Bound ELSE {doc.size} : Abstract!OwnerGives(n)
      BY <2>5
    <3>2. n \in Nat /\ (op = "decode" => n = doc.size) /\ ret' = "ok" /\ answered(n)
      BY <1>1, <1>2, <3>1 DEF Abstract!OwnerGives, InputInv
    <3> HIDE DEF answered
    <3>3. Faithful(outsize)'
      BY <2>1, <2>2, <2>5, <3>2 DEF Faithful
    <3> QED BY <2>2, <2>4, <3>2, <3>3
  <2>6. CASE doc.fate # "sound" /\ Abstract!Unnoticed /\ \E n \in 0 .. doc.size : Abstract!OwnerGives(n)
    <3>1. PICK n \in 0 .. doc.size : Abstract!OwnerGives(n)
      BY <2>6
    <3>2. n \in Nat /\ ret' = "ok" /\ answered(n)
      BY <1>1, <3>1 DEF Abstract!OwnerGives
    <3> HIDE DEF answered
    <3>3. codec \notin TellsCut \/ doc.fate = "rest"
      BY <1>1, <2>1, <2>6 DEF Abstract!Unnoticed, Abstract!TellsDamage, TellsCut, TellsDamage, Owners
    <3>4. Faithful(outsize)'
      BY <2>1, <2>2, <2>6, <3>2, <3>3 DEF Faithful, TellsCut
    <3> QED BY <2>2, <2>4, <3>2, <3>4
  <2>7. CASE Abstract!HasMembers /\ fault' = TRUE /\ \E n \in 0 .. doc.size : Abstract!OwnerGives(n)
    <3>1. PICK n \in 0 .. doc.size : Abstract!OwnerGives(n)
      BY <2>7
    <3>2. n \in Nat /\ ret' = "ok" /\ answered(n)
      BY <1>1, <3>1 DEF Abstract!OwnerGives
    <3> HIDE DEF answered
    <3>3. Faithful(outsize)'
      BY <2>1, <2>7 DEF Faithful, Abstract!HasMembers
    <3> QED BY <2>2, <2>4, <3>2, <3>3
  <2>8. CASE /\ fault' \in BOOLEAN /\ (doc.fate = "sound" /\ ~Abstract!TooLarge => fault')
             /\ \/ Abstract!OwnerRefuses
                \/ /\ Abstract!HasMembers /\ ret' = "error" /\ UNCHANGED taken
                   /\ \E n \in 0 .. doc.size : Abstract!Hands(n)
    <3>1. Abstract!TooLarge => doc.size >= MaxAlloc
      BY <1>1, <1>2 DEF Abstract!TooLarge
    <3>2. Refusable'
      BY <2>1, <2>8, <3>1 DEF Refusable
    <3>3. ret' = "error" /\ InputInv' /\ HeapInv'
      <4>1. CASE Abstract!OwnerRefuses
        BY <2>3, <4>1 DEF Abstract!OwnerRefuses
      <4>2. CASE ret' = "error" /\ \E n \in 0 .. doc.size : Abstract!Hands(n)
        BY <1>1, <2>2, <4>2
      <4> QED BY <2>8, <4>1, <4>2
    <3> QED BY <2>4, <3>2, <3>3
  <2> QED BY <1>4, <2>5, <2>6, <2>7, <2>8 DEF Abstract!RunOwner
<1> QED BY <1>3, <1>4

\* A document that is compressed may be refused or come back in any size.
LEMMA EncodeEnds ==
  ASSUME RInv, op = "encode", UNCHANGED <<input, total, rounds>>, pc' = "ended", zs' = 0,
         \/ /\ rc' = 0 /\ buf' \in Nat /\ held' = 1
            /\ SizeLost' \/ outsize' <= buf'
         \/ rc' # 0 /\ buf' = Null /\ outsize' = 0 /\ held' = 0
  PROVE  RInv'
<1>1. op' = "encode" /\ total' \in Nat /\ rounds' \in Nat /\ UNCHANGED input
  BY DEF RInv, InputInv, input
<1>2. Refusable' /\ Faithful(outsize)'
  BY <1>1 DEF Refusable, Faithful, InputInv
<1>3. buf' \in Nat => buf' # Null
  BY DEF Null
<1>4. CASE rc' = 0 /\ buf' \in Nat /\ held' = 1 /\ (SizeLost' \/ outsize' <= buf')
  BY <1>1, <1>2, <1>3, <1>4, SucceedEnds
<1>5. CASE rc' # 0 /\ buf' = Null /\ outsize' = 0 /\ held' = 0
  BY <1>1, <1>2, <1>5, FailEnds
<1> QED BY <1>4, <1>5

\* What zmat_shrink_buf leaves holds what is announced.
LEMMA ShrinkFits ==
  ASSUME NEW n \in Int, buf \in Nat, n <= buf, Shrinks(n)
  PROVE  buf' \in Nat /\ n <= buf'
BY DEF Shrinks

\* Compression into a buffer of bounded size: each codec has exits of its own.
LEMMA CompressStep ==
  RInv /\ (CompressZlib \/ CompressGzip \/ CompressLz4 \/ CompressZstd \/ CompressBlosc) => RInv'
<1> SUFFICES ASSUME RInv, CompressZlib \/ CompressGzip \/ CompressLz4 \/ CompressZstd \/ CompressBlosc
             PROVE  RInv'
  OBVIOUS
<1> USE DEF Return, FreeOut, CloseState
<1>1. pc = "compress"
  BY DEF CompressZlib, CompressGzip, CompressLz4, CompressZstd, CompressBlosc
<1>2. /\ op = "encode" /\ held = 1 /\ buf = (IF codec = "gzip" THEN Null ELSE Bound)
      /\ codec = "gzip" => outsize = 0
      /\ zs = (IF codec \in Deflating \cup {"zstd"} THEN 1 ELSE 0)
  BY <1>1 DEF RInv, PathInv, HeapInv
<1>3. /\ Bound \in Nat /\ {UIntMod, SizeMod} \subseteq Nat \ {0}
      /\ \A n \in PackedSizes : n \in Nat \ {0} /\ n <= Bound
  BY RunAssumption
<1>4. UNCHANGED <<input, total, rounds>> /\ pc' = "ended"
  BY DEF CompressZlib, CompressGzip, CompressLz4, CompressZstd, CompressBlosc
<1>5. CASE CompressZlib
  <2>1. codec = "zlib" /\ buf = Bound /\ zs' = 0
    BY <1>2, <1>5 DEF CompressZlib, Deflating
  <2>2. CASE \E n \in PackedSizes :
               /\ Bound % UIntMod # 0 /\ packed' = n
               /\ outsize' = Smaller(n, Bound % UIntMod) /\ Shrinks(outsize')
               /\ Return(0) /\ UNCHANGED <<held, fault>>
    <3>1. PICK n \in PackedSizes : outsize' = Smaller(n, Bound % UIntMod)
      BY <2>2
    <3>2. rc' = 0 /\ held' = 1 /\ Shrinks(outsize')
      BY <1>2, <2>2
    <3>3. Bound % UIntMod \in Nat
      BY <1>3
    <3>4. outsize' \in Int /\ outsize' <= buf
      BY <1>3, <2>1, <3>1, <3>3 DEF Smaller
    <3>5. buf' \in Nat /\ outsize' <= buf'
      BY <1>3, <2>1, <3>2, <3>4, ShrinkFits
    <3> QED BY <1>2, <1>4, <2>1, <3>2, <3>5, EncodeEnds
  <2>3. CASE FreeOut /\ outsize' = 0 /\ Return(-3)
    BY <1>2, <1>4, <2>1, <2>3, EncodeEnds
  <2> QED BY <1>5, <2>2, <2>3 DEF CompressZlib
<1>6. CASE CompressGzip
  <2>1. codec = "gzip" /\ buf = Null /\ zs' = 0
    BY <1>2, <1>6 DEF CompressGzip, Deflating
  <2>2. CASE \E n \in PackedSizes :
               /\ packed' = n /\ outsize' = n /\ buf' \in {n, Bound}
               /\ Return(0) /\ UNCHANGED <<held, fault>>
    <3>1. rc' = 0 /\ held' = 1 /\ buf' \in Nat /\ outsize' <= buf'
      BY <1>2, <1>3, <2>2
    <3> QED BY <1>2, <1>4, <2>1, <3>1, EncodeEnds
  <2>3. CASE held' = held - 1 /\ Return(-3) /\ UNCHANGED <<buf, outsize>>
    BY <1>2, <1>4, <2>1, <2>3, EncodeEnds
  <2> QED BY <1>6, <2>2, <2>3 DEF CompressGzip
<1>7. CASE CompressLz4
  <2>1. codec \in Lz4 /\ buf = Bound /\ zs' = 0
    BY <1>2, <1>7 DEF CompressLz4, Deflating, Lz4
  <2>2. CASE \E n \in PackedSizes :
               packed' = n /\ outsize' = n /\ Shrinks(n) /\ Return(0) /\ UNCHANGED <<held, fault>>
    <3>1. PICK n \in PackedSizes : outsize' = n /\ Shrinks(n) /\ rc' = 0 /\ held' = 1
      BY <1>2, <2>2
    <3>2. buf' \in Nat /\ outsize' <= buf'
      BY <1>3, <2>1, <3>1, ShrinkFits
    <3> QED BY <1>2, <1>4, <2>1, <3>1, <3>2, EncodeEnds
  <2>3. CASE outsize' = 0 /\ FreeOut /\ Return(-6)
    BY <1>2, <1>4, <2>1, <2>3, EncodeEnds
  <2> QED BY <1>7, <2>2, <2>3 DEF CompressLz4
<1>8. CASE CompressZstd
  <2>1. codec = "zstd" /\ buf = Bound /\ zs' = 0 /\ codec' = codec /\ op' = op
    BY <1>2, <1>4, <1>8 DEF CompressZstd, input
  <2>2. CASE \E n \in PackedSizes :
               /\ packed' = n /\ ~IsError(AsSize(n))
               /\ outsize' = AsSize(n) /\ Shrinks(AsSize(n))
               /\ Return(0) /\ UNCHANGED <<held, fault>>
    <3>1. PICK n \in PackedSizes : /\ packed' = n /\ outsize' = AsSize(n) /\ Shrinks(AsSize(n))
                                   /\ rc' = 0 /\ held' = 1
      BY <1>2, <2>2
    <3>2. buf' \in Nat
      BY <1>3, <2>1, <3>1 DEF Shrinks
    <3>3. SizeLost' \/ outsize' <= buf'
      <4>1. CASE n >= UIntMod \div 2
        BY <1>2, <2>1, <3>1, <4>1 DEF SizeLost
      <4>2. CASE ~(n >= UIntMod \div 2)
        <5>1. n \in Nat /\ n < UIntMod \div 2
          BY <1>3, <4>2
        <5>2. AsSize(n) = n
          BY <5>1, SizeKept
        <5> QED BY <1>3, <2>1, <3>1, <5>2, ShrinkFits
      <4> QED BY <4>1, <4>2
    <3> QED BY <1>2, <1>4, <2>1, <3>1, <3>2, <3>3, EncodeEnds
  <2>3. CASE FreeOut /\ outsize' = 0 /\ Return(-9)
    BY <1>2, <1>4, <2>1, <2>3, EncodeEnds
  <2> QED BY <1>8, <2>2, <2>3 DEF CompressZstd
<1>9. CASE CompressBlosc
  <2>1. codec = "blosc2" /\ buf = Bound /\ zs' = 0
    BY <1>2, <1>9 DEF CompressBlosc, Deflating
  <2>2. CASE \E n \in PackedSizes :
               packed' = n /\ outsize' = n /\ Shrinks(n) /\ Return(0) /\ UNCHANGED <<held, fault>>
    <3>1. PICK n \in PackedSizes : outsize' = n /\ Shrinks(n) /\ rc' = 0 /\ held' = 1
      BY <1>2, <2>2
    <3>2. buf' \in Nat /\ outsize' <= buf'
      BY <1>3, <2>1, <3>1, ShrinkFits
    <3> QED BY <1>2, <1>4, <2>1, <3>1, <3>2, EncodeEnds
  <2>3. CASE FreeOut /\ outsize' = 0 /\ Return(-8)
    BY <1>2, <1>4, <2>1, <2>3, EncodeEnds
  <2> QED BY <1>9, <2>2, <2>3 DEF CompressBlosc
<1> QED BY <1>5, <1>6, <1>7, <1>8, <1>9

\* The first allocation of the other codecs, and what is opened before and after it.
LEMMA OpenStep ==
  RInv /\ (InitCodec \/ AllocBound \/ OpenContext \/ AllocInflate \/ AllocAttempt \/ AllocKnown) => RInv'
<1> SUFFICES ASSUME RInv, InitCodec \/ AllocBound \/ OpenContext \/ AllocInflate \/ AllocAttempt \/ AllocKnown
             PROVE  RInv'
  OBVIOUS
<1> USE DEF Return, FreeOut, CloseState, output
<1>0. /\ InputInv /\ PathInv /\ HeapInv
      /\ doc.size \in Nat /\ insize \in Nat /\ total \in Nat /\ rounds \in Nat
      /\ op \in {"encode", "decode"}
  BY DEF RInv, InputInv
<1>c. {Bound, MaxAlloc, MinOut, MaxRounds} \subseteq Nat
  BY RunAssumption
<1>1. UNCHANGED <<input, total, rounds>> /\ rounds' \in Nat /\ total' \in Nat
      /\ op' = op /\ codec' = codec /\ insize' = insize /\ doc' = doc
  BY <1>0 DEF InitCodec, AllocBound, OpenContext, AllocInflate, AllocAttempt, AllocKnown, input
<1>2. ASSUME pc' # "ended", InputInv', PathInv', HeapInv', ContentInv', BufferInv'
      PROVE  RInv'
  <2>1. LimitsAreTheCap'
    BY <1>2 DEF LimitsAreTheCap, BufferInv
  <2> QED BY <1>2, <2>1 DEF RInv, AllOrNothing, DecodesTheWhole
<1>3. CASE InitCodec
  <2> USE <1>3
  <2>1. buf = Null /\ outsize = 0 /\ held = 0 /\ zs = 0 /\ UNCHANGED output
    BY <1>0 DEF InitCodec, HeapInv
  <2>2. CASE pc' = "alloc" /\ zs' = zs + (IF codec \in Deflating THEN 1 ELSE 0)
    <3>1. InputInv' /\ PathInv' /\ HeapInv'
      BY <1>0, <1>1, <2>1, <2>2 DEF InitCodec, InputInv, PathInv, HeapInv
    <3> QED BY <1>2, <2>2, <3>1 DEF ContentInv, BufferInv
  <2>3. CASE codec \in Lz4 /\ Return(-6) /\ UNCHANGED zs
    <3>1. op = "encode"
      BY <1>0, <2>3 DEF InitCodec, PathInv, Lz4, Deflating
    <3>2. Refusable'
      BY <1>1, <3>1 DEF Refusable
    <3> QED BY <1>1, <2>1, <2>3, <3>2, FailEnds
  <2>4. CASE fault' = TRUE /\ UNCHANGED zs /\ \E code \in {-2, -7} : Return(code)
    <3>1. Refusable'
      BY <2>4 DEF Refusable
    <3> QED BY <1>1, <2>1, <2>4, <3>1, FailEnds
  <2> QED BY <2>2, <2>3, <2>4 DEF InitCodec
<1>4. CASE AllocBound
  <2> USE <1>4
  <2>1. /\ pc = "alloc" /\ op = "encode" /\ codec \in Known \ Owners(op)
        /\ buf = Null /\ outsize = 0 /\ held = 0 /\ zs = (IF codec \in Deflating THEN 1 ELSE 0)
    BY <1>0 DEF AllocBound, HeapInv, PathInv
  <2>2. CASE /\ held' = held + 1 /\ buf' = (IF codec = "gzip" THEN Null ELSE Bound)
             /\ outsize' = (IF codec \in Deflating THEN outsize ELSE Bound)
             /\ pc' = (IF codec = "zstd" THEN "context" ELSE "compress")
             /\ UNCHANGED zs
    <3>1. InputInv' /\ PathInv'
      BY <1>0, <1>1, <1>c, <2>1, <2>2 DEF InputInv, PathInv, Null
    <3>2. HeapInv'
      BY <1>1, <2>1, <2>2 DEF HeapInv, Deflating
    <3> QED BY <1>2, <2>2, <3>1, <3>2 DEF ContentInv, BufferInv
  <2>3. CASE /\ pc' = "ended" /\ rc' = -5 /\ fault' = TRUE /\ outsize' = 0 /\ UNCHANGED <<buf, held>>
             /\ zs' = 0
    <3>1. Refusable'
      BY <2>3 DEF Refusable
    <3> QED BY <1>1, <2>1, <2>3, <3>1, FailEnds
  <2>4. CASE codec \in Deflating /\ CloseState /\ Return(-5) /\ fault' = TRUE /\ UNCHANGED output
    BY <2>1, <2>3, <2>4
  <2>5. CASE codec \notin Deflating /\ outsize' = 0 /\ Return(-5) /\ fault' = TRUE
             /\ UNCHANGED <<buf, held, zs>>
    BY <2>1, <2>3, <2>5
  <2> QED BY <2>2, <2>4, <2>5 DEF AllocBound
<1>5. CASE OpenContext
  <2> USE <1>5
  <2>1. pc = "context" /\ op = "encode" /\ codec = "zstd" /\ held = 1 /\ buf = Bound /\ zs = 0
    BY <1>0 DEF OpenContext, HeapInv, PathInv
  <2>2. CASE pc' = "compress" /\ zs' = zs + 1 /\ UNCHANGED output
    <3>1. InputInv' /\ PathInv' /\ HeapInv'
      BY <1>0, <1>1, <2>1, <2>2 DEF InputInv, PathInv, HeapInv
    <3> QED BY <1>2, <2>2, <3>1 DEF ContentInv, BufferInv
  <2>3. CASE FreeOut /\ outsize' = 0 /\ Return(-5) /\ fault' = TRUE /\ UNCHANGED zs
    <3>1. Refusable'
      BY <2>3 DEF Refusable
    <3> QED BY <1>1, <2>1, <2>3, <3>1, FailEnds
  <2> QED BY <2>2, <2>3 DEF OpenContext
<1>6. CASE AllocInflate
  <2> USE <1>6
  <2>1. /\ pc = "alloc" /\ op = "decode" /\ codec = "zlib" /\ rounds = 0 /\ total = 0
        /\ buf = Null /\ outsize = 0 /\ held = 0 /\ zs = 1 /\ outsize' = 0
    BY <1>0 DEF AllocInflate, HeapInv, PathInv, Deflating
  <2>2. CASE held' = held + 1 /\ buf' = InitialOutbuf(insize) /\ pc' = "inflate" /\ UNCHANGED zs
    <3>1. buf' \in Nat /\ buf' <= MaxAlloc /\ buf' >= MinOut
      BY <1>0, <1>c, <2>2, GuessFits
    <3>2. InputInv' /\ PathInv' /\ HeapInv'
      BY <1>0, <1>1, <2>1, <2>2, <3>1 DEF InputInv, PathInv, HeapInv
    <3>3. ContentInv' /\ BufferInv'
      BY <1>0, <1>1, <1>c, <2>1, <2>2, <3>1, ReachDoubles DEF ContentInv, BufferInv
    <3> QED BY <1>2, <2>2, <3>2, <3>3
  <2>3. CASE CloseState /\ Return(-5) /\ fault' = TRUE /\ UNCHANGED <<buf, held>>
    <3>1. Refusable'
      BY <2>3 DEF Refusable
    <3> QED BY <1>1, <2>1, <2>3, <3>1, FailEnds
  <2> QED BY <2>2, <2>3 DEF AllocInflate
<1>7. CASE AllocAttempt
  <2> USE <1>7
  <2>1. /\ pc = "alloc" /\ op = "decode" /\ codec \in Retrying /\ rounds = 0 /\ total = 0
        /\ buf = Null /\ outsize = 0 /\ held = 0 /\ zs = 0 /\ outsize' = 0 /\ zs' = 0
    BY <1>0 DEF AllocAttempt, HeapInv, PathInv, Retrying, Lz4, Deflating
  <2>2. CASE held' = held + 1 /\ buf' = InitialOutbuf(insize) /\ pc' = "attempt"
    <3>1. buf' \in Nat /\ buf' <= MaxAlloc /\ buf' >= MinOut
      BY <1>0, <1>c, <2>2, GuessFits
    <3>2. codec # "zlib" /\ codec # "zstd"
      BY <2>1 DEF Retrying, Lz4
    <3>3. InputInv' /\ PathInv' /\ HeapInv'
      BY <1>0, <1>1, <2>1, <2>2, <3>1, <3>2 DEF InputInv, PathInv, HeapInv
    <3>4. ContentInv' /\ BufferInv'
      BY <1>0, <1>1, <1>c, <2>1, <2>2, <3>1, <3>2, ReachDoubles DEF ContentInv, BufferInv
    <3> QED BY <1>2, <2>2, <3>3, <3>4
  <2>3. CASE Return(-5) /\ fault' = TRUE /\ UNCHANGED <<buf, held>>
    <3>1. Refusable'
      BY <2>3 DEF Refusable
    <3> QED BY <1>1, <2>1, <2>3, <3>1, FailEnds
  <2> QED BY <2>2, <2>3 DEF AllocAttempt
<1>8. CASE AllocKnown
  <2> USE <1>8
  <2>1. /\ pc = "alloc" /\ op = "decode" /\ codec = "zstd" /\ rounds = 0 /\ total = 0
        /\ buf = Null /\ outsize = 0 /\ held = 0 /\ zs = 0 /\ zs' = 0
    BY <1>0 DEF AllocKnown, HeapInv, PathInv, Deflating
  <2>2. CASE /\ doc.size <= MaxAlloc /\ held' = held + 1 /\ buf' = doc.size /\ outsize' = doc.size
             /\ pc' = "attempt"
    <3>1. InputInv' /\ PathInv' /\ HeapInv'
      BY <1>0, <1>1, <2>1, <2>2 DEF InputInv, PathInv, HeapInv
    <3>2. ContentInv' /\ BufferInv'
      BY <1>0, <1>1, <1>c, <2>1, <2>2 DEF ContentInv, BufferInv
    <3> QED BY <1>2, <2>2, <3>1, <3>2
  <2>3. CASE /\ doc.size > MaxAlloc \/ doc.fate # "sound"
             /\ outsize' = 0 /\ Return(-9) /\ UNCHANGED <<buf, held>>
    <3>1. Refusable'
      BY <1>0, <1>1, <1>c, <2>3 DEF Refusable
    <3> QED BY <1>1, <2>1, <2>3, <3>1, FailEnds
  <2>4. CASE outsize' = 0 /\ Return(-5) /\ fault' = TRUE /\ UNCHANGED <<buf, held>>
    <3>1. Refusable'
      BY <2>4 DEF Refusable
    <3> QED BY <1>1, <2>1, <2>4, <3>1, FailEnds
  <2> QED BY <2>2, <2>3, <2>4 DEF AllocKnown
<1> QED BY <1>3, <1>4, <1>5, <1>6, <1>7, <1>8

\* zlib's loop: what inflate has told, and what becomes of it.
LEMMA InflateStep ==
  RInv /\ (Inflate \/ InflateEnds \/ InflateFails \/ InflateMore \/ InflateFull) => RInv'
<1> SUFFICES ASSUME RInv, Inflate \/ InflateEnds \/ InflateFails \/ InflateMore \/ InflateFull
             PROVE  RInv'
  OBVIOUS
<1> USE DEF input, output, Return
<1>0. /\ InputInv /\ PathInv /\ HeapInv /\ ContentInv /\ BufferInv
      /\ doc.size \in Nat /\ total \in Nat /\ rounds \in Nat /\ pc \in {"inflate", "answer"}
      /\ op = "decode" /\ codec = "zlib" /\ held = 1 /\ buf \in Nat /\ zs = 1 /\ outsize = 0
      /\ total <= doc.size /\ total <= buf
  <2>1. pc \in {"inflate", "answer"}
    BY DEF Inflate, InflateEnds, InflateFails, InflateMore, InflateFull
  <2> QED BY <2>1 DEF RInv, InputInv, PathInv, HeapInv, ContentInv
<1>1. CASE Inflate
  <2> USE <1>1
  <2>1. PICK out \in total .. buf, in \in 0 .. left, answer \in {"end", "ok", "buf", "data"} :
          Inflated(out, in, answer) /\ total' = out /\ left' = in /\ ret' = answer
    BY DEF Inflate
  <2>2. out \in Nat /\ out <= doc.size /\ out <= buf
    BY <1>0, <2>1 DEF Inflated
  <2>3. /\ answer = "end" => doc.fate = "sound" /\ out = doc.size
        /\ doc.fate = "sound" => answer \in {"end", "ok"}
    BY <2>1 DEF Inflated
  <2>4. InputInv' /\ PathInv' /\ HeapInv'
    BY <1>0, <2>1, <2>2 DEF Inflate, InputInv, PathInv, HeapInv
  <2>5. ContentInv'
    BY <1>0, <2>1, <2>2, <2>3 DEF Inflate, ContentInv
  <2>6. BufferInv'
    BY <1>0 DEF Inflate, BufferInv
  <2> QED BY <1>0, <2>4, <2>5, <2>6 DEF Inflate, RInv, AllOrNothing, DecodesTheWhole, LimitsAreTheCap, BufferInv
<1>2. CASE InflateEnds
  <2> USE <1>2
  <2>1. /\ outsize' = total /\ pc' = "ended" /\ rc' = 0 /\ zs' = 0 /\ held' = 1
        /\ UNCHANGED <<input, total, rounds>> /\ Shrinks(total)
        /\ doc.fate = "sound" /\ total = doc.size
    BY <1>0 DEF InflateEnds, AtEnd, CloseState, ContentInv
  <2>2. buf' \in Nat /\ outsize' <= buf'
    BY <1>0, <2>1, ShrinkFits
  <2>3. Faithful(outsize)'
    BY <2>1 DEF Faithful
  <2>4. held' = IF buf' = Null THEN 0 ELSE 1
    BY <2>1, <2>2 DEF Null
  <2> QED BY <1>0, <2>1, <2>2, <2>3, <2>4, SucceedEnds
<1>3. CASE InflateFails
  <2> USE <1>3
  <2>1. /\ buf' = Null /\ held' = 0 /\ zs' = 0 /\ outsize' = 0 /\ pc' = "ended" /\ rc' = -3
        /\ UNCHANGED <<input, total, rounds>>
    BY <1>0 DEF InflateFails, InflateReleases, FreeOut, CloseState
  <2>2. doc.fate # "sound"
    BY <1>0 DEF InflateFails, AtEnd, Stuck, ContentInv
  <2>3. Refusable'
    BY <2>1, <2>2 DEF Refusable
  <2> QED BY <1>0, <2>1, <2>3, FailEnds
<1>4. CASE InflateMore
  <2> USE <1>4 DEF InflateMore
  <2>1. InputInv' /\ PathInv' /\ HeapInv' /\ ContentInv' /\ BufferInv'
    BY <1>0 DEF InputInv, PathInv, HeapInv, ContentInv, BufferInv
  <2> QED BY <2>1, <1>0 DEF RInv, AllOrNothing, DecodesTheWhole, LimitsAreTheCap, BufferInv
<1>5. CASE InflateFull
  <2> USE <1>5 DEF InflateFull
  <2>1. InputInv' /\ PathInv' /\ HeapInv' /\ ContentInv' /\ BufferInv'
    BY <1>0 DEF InputInv, PathInv, HeapInv, ContentInv, BufferInv
  <2> QED BY <2>1, <1>0 DEF RInv, AllOrNothing, DecodesTheWhole, LimitsAreTheCap, BufferInv
<1> QED BY <1>1, <1>2, <1>3, <1>4, <1>5

\* lz4, blosc2 and zstd decode into the whole of a buffer.
LEMMA AttemptStep == RInv /\ (Attempt \/ AttemptKnown) => RInv'
<1> SUFFICES ASSUME RInv, Attempt \/ AttemptKnown PROVE RInv'
  OBVIOUS
<1> USE DEF input, Return
<1>0. /\ InputInv /\ PathInv /\ HeapInv /\ BufferInv
      /\ doc.size \in Nat /\ total \in Nat /\ rounds \in Nat /\ pc = "attempt"
      /\ op = "decode" /\ codec \in Retrying \cup {"zstd"} /\ codec # "zlib"
      /\ held = 1 /\ buf \in Nat /\ zs = 0 /\ buf <= MaxAlloc
  <2>1. pc = "attempt"
    BY DEF Attempt, AttemptKnown
  <2> QED BY <2>1 DEF RInv, InputInv, PathInv, HeapInv, BufferInv, Retrying, Lz4
<1>1. /\ UNCHANGED <<input, total, rounds>> /\ total' \in Nat /\ rounds' \in Nat /\ zs' = 0
      /\ op' = op /\ codec' = codec /\ insize' = insize /\ doc' = doc
  BY <1>0 DEF Attempt, AttemptKnown
<1>2. ASSUME NEW n \in 0 .. Smaller(doc.size, buf), outsize' = n, Shrinks(n), held' = 1,
             pc' = "ended", rc' = 0, doc.fate = "sound" => n = doc.size,
             codec \in TellsCut => doc.fate # "cut"
      PROVE  RInv'
  <2>1. n \in Nat /\ n <= buf
    BY <1>0 DEF Smaller
  <2>2. buf' \in Nat /\ outsize' <= buf'
    BY <1>0, <1>2, <2>1, ShrinkFits
  <2>3. Faithful(outsize)'
    BY <1>0, <1>1, <1>2 DEF Faithful, TellsDamage, Retrying, Lz4
  <2>4. held' = IF buf' = Null THEN 0 ELSE 1
    BY <1>2, <2>2 DEF Null
  <2> QED BY <1>1, <1>2, <2>2, <2>3, <2>4, SucceedEnds
<1>3. CASE Attempt
  <2>1. codec \in Retrying /\ held' = 1 /\ UNCHANGED fault
    BY <1>0, <1>3 DEF Attempt
  <2>2. CASE /\ \E n \in 0 .. Smaller(doc.size, buf) :
                  /\ ~Empty(n) /\ (doc.fate = "sound" => n = doc.size)
                  /\ outsize' = n /\ Shrinks(n)
             /\ Return(0)
    <3>1. PICK n \in 0 .. Smaller(doc.size, buf) :
                 (doc.fate = "sound" => n = doc.size) /\ outsize' = n /\ Shrinks(n)
      BY <2>2
    <3>2. codec \notin TellsCut
      BY <2>1 DEF Retrying, Lz4, TellsCut, TellsDamage
    <3> QED BY <1>2, <2>1, <2>2, <3>1, <3>2
  <2>3. CASE /\ doc.fate # "sound" \/ doc.size > buf \/ Empty(doc.size)
             /\ pc' = "grow" /\ UNCHANGED <<buf, outsize, rc>>
    <3>1. codec # "zlib" /\ codec # "zstd"
      BY <2>1 DEF Retrying, Lz4
    <3>2. InputInv' /\ PathInv' /\ HeapInv'
      BY <1>0, <1>1, <2>1, <2>3, <3>1 DEF InputInv, PathInv, HeapInv
    <3>3. ContentInv'
      BY <1>0, <1>1, <2>3, <3>1 DEF ContentInv, Empty
    <3>4. BufferInv'
      BY <1>0, <1>1, <2>3, <3>1 DEF BufferInv
    <3> QED BY <1>0, <1>1, <2>3, <3>2, <3>3, <3>4 DEF RInv, AllOrNothing, DecodesTheWhole, LimitsAreTheCap
  <2> QED BY <1>3, <2>2, <2>3 DEF Attempt
<1>4. CASE AttemptKnown
  <2>1. codec = "zstd"
    BY <1>4 DEF AttemptKnown
  <2>2. CASE /\ doc.fate # "cut"
             /\ \E n \in 0 .. Smaller(doc.size, buf) :
                  /\ doc.fate = "sound" => n = doc.size
                  /\ ~IsError(AsSize(n)) /\ outsize' = AsSize(n) /\ Shrinks(AsSize(n))
             /\ Return(0) /\ UNCHANGED <<held, fault>>
    <3>1. PICK n \in 0 .. Smaller(doc.size, buf) :
                 /\ doc.fate = "sound" => n = doc.size
                 /\ outsize' = AsSize(n) /\ Shrinks(AsSize(n))
      BY <2>2
    <3>2. n \in Nat /\ n <= MaxAlloc /\ MaxAlloc \in Nat /\ MaxAlloc < UIntMod \div 2
          /\ UIntMod \div 2 \in Int
      BY <1>0, RunAssumption DEF Smaller
    <3>3. AsSize(n) = n
      BY <3>2, SizeKept
    <3> QED BY <1>0, <1>2, <2>2, <3>1, <3>3
  <2>3. CASE FreeOut /\ outsize' = 0 /\ Return(-9) /\ fault' = (fault \/ doc.fate = "sound")
    <3>1. fault' \/ doc.fate # "sound"
      BY <2>3, Zenon
    <3>2. Refusable'
      BY <1>1, <3>1 DEF Refusable
    <3>3. buf' = Null /\ held' = 0
      BY <1>0, <2>3 DEF FreeOut
    <3> QED BY <1>1, <2>3, <3>2, <3>3, FailEnds
  <2> QED BY <1>4, <2>2, <2>3 DEF AttemptKnown
<1> QED BY <1>3, <1>4

\* One more round, or one too many: the cap is reached when the rounds are used up.
LEMMA GrowStep == RInv /\ (TooManyRounds \/ CannotGrow \/ Grow) => RInv'
<1> SUFFICES ASSUME RInv, TooManyRounds \/ CannotGrow \/ Grow PROVE RInv'
  OBVIOUS
<1> USE DEF input, Return
<1>0. /\ InputInv /\ PathInv /\ HeapInv /\ ContentInv /\ BufferInv
      /\ doc.size \in Nat /\ total \in Nat /\ rounds \in 0 .. MaxRounds /\ pc = "grow"
      /\ op = "decode" /\ codec \in Retrying \cup {"zlib"} /\ codec # "zstd"
      /\ held = 1 /\ buf \in Nat /\ buf <= MaxAlloc /\ buf >= Reach[rounds]
      /\ zs = (IF codec = "zlib" THEN 1 ELSE 0) /\ (codec = "zlib" => outsize = 0)
      /\ doc.fate = "sound" => doc.size >= buf \/ Empty(doc.size)
  <2>1. pc = "grow"
    BY DEF TooManyRounds, CannotGrow, Grow
  <2> QED BY <2>1 DEF RInv, InputInv, PathInv, HeapInv, ContentInv, BufferInv, Retrying, Lz4
<1>c. {MaxAlloc, MaxRounds} \subseteq Nat
  BY RunAssumption
<1>1. /\ UNCHANGED <<input, total>> /\ total' \in Nat /\ rounds' = rounds + 1 /\ rounds' \in Nat
      /\ op' = op /\ codec' = codec /\ insize' = insize /\ doc' = doc
  BY <1>0, <1>c DEF TooManyRounds, CannotGrow, Grow
<1>2. /\ Grown(buf) \in Int /\ Grown(buf) <= MaxAlloc /\ Grown(buf) >= buf
      /\ buf < MaxAlloc => Grown(buf) > buf
      /\ rounds + 1 <= MaxRounds => Grown(buf) >= Reach[rounds + 1]
      /\ rounds + 1 > MaxRounds => buf = MaxAlloc
  BY <1>0, GrowthFits
<1>3. ASSUME FreeOut, GrowReleases PROVE buf' = Null /\ held' = 0 /\ zs' = 0 /\ outsize' = 0
  BY <1>0, <1>3 DEF FreeOut, GrowReleases, CloseState
<1>4. CASE TooManyRounds
  <2>1. buf = MaxAlloc
    BY <1>2, <1>4 DEF TooManyRounds, OutOfRounds
  <2>2. Refusable'
    BY <1>0, <1>1, <1>c, <2>1 DEF Refusable, Empty
  <2>3. RoundsError # 0
    BY <1>0 DEF RoundsError, Retrying
  <2> QED BY <1>1, <1>3, <1>4, <2>2, <2>3, FailEnds DEF TooManyRounds
<1>5. CASE CannotGrow
  <2>1. fault' \/ buf = MaxAlloc
    BY <1>0, <1>c, <1>2, <1>5 DEF CannotGrow
  <2>2. Refusable'
    BY <1>0, <1>1, <1>c, <2>1 DEF Refusable, Empty
  <2> QED BY <1>1, <1>3, <1>5, <2>2, FailEnds DEF CannotGrow, GrowFrees
<1>6. CASE Grow
  <2> USE <1>6 DEF Grow
  <2>1. rounds + 1 <= MaxRounds
    BY <1>0, <1>c DEF OutOfRounds
  <2>2. InputInv' /\ PathInv' /\ HeapInv'
    BY <1>0, <1>1, <1>2 DEF InputInv, PathInv, HeapInv
  <2>3. ContentInv'
    BY <1>0, <1>1, <1>2 DEF ContentInv
  <2>4. BufferInv'
    BY <1>0, <1>c, <1>1, <1>2, <2>1 DEF BufferInv
  <2> QED BY <1>0, <1>1, <1>2, <2>2, <2>3, <2>4 DEF RInv, AllOrNothing, DecodesTheWhole, LimitsAreTheCap
<1> QED BY <1>4, <1>5, <1>6

\* The way to an owner of its output, and from it to the caller.
LEMMA PassStep == RInv /\ (Refuse \/ Dispatch \/ OwnerFails \/ OwnerSucceeds) => RInv'
<1> SUFFICES ASSUME RInv, Refuse \/ Dispatch \/ OwnerFails \/ OwnerSucceeds PROVE RInv'
  OBVIOUS
<1> USE DEF input, output, Return
<1>0. /\ InputInv /\ PathInv /\ HeapInv /\ ContentInv
      /\ doc.size \in Nat /\ total \in Nat /\ rounds \in Nat /\ op \in {"encode", "decode"}
  BY DEF RInv, InputInv
<1>1. CASE Refuse
  <2>1. buf' = Null /\ outsize' = 0 /\ held' = 0 /\ zs' = 0 /\ Refusable'
    BY <1>0, <1>1 DEF Refuse, HeapInv, Refusable
  <2> QED BY <1>0, <1>1, <2>1, FailEnds DEF Refuse
<1>2. CASE Dispatch
  <2> USE <1>2 DEF Dispatch
  <2>1. InputInv' /\ HeapInv'
    BY <1>0 DEF InputInv, HeapInv, Known, Owners, Retrying, Lz4, Deflating
  <2>2. PathInv'
    BY <1>0 DEF PathInv, Known, Owners, Retrying, Lz4, Deflating
  <2> QED BY <1>0, <2>1, <2>2 DEF RInv, ContentInv, BufferInv, AllOrNothing, DecodesTheWhole, LimitsAreTheCap
<1>3. CASE OwnerFails
  <2>1. buf' = Null /\ outsize' = 0 /\ held' = 0 /\ zs' = 0
    BY <1>0, <1>3 DEF OwnerFails, OwnerFrees, FreeOut, HeapInv
  <2>2. Refusable'
    BY <1>0, <1>3 DEF OwnerFails, ContentInv, Refusable, Empty, Known, Owners, Retrying, Lz4, Deflating
  <2>3. OwnerError # 0
    BY DEF OwnerError
  <2> QED BY <1>0, <1>3, <2>1, <2>2, <2>3, FailEnds DEF OwnerFails
<1>4. CASE OwnerSucceeds
  <2>1. /\ zs' = 0 /\ held' = (IF buf' = Null THEN 0 ELSE 1) /\ buf' \in Int
        /\ outsize' = 0 \/ outsize' <= buf'
    BY <1>0, <1>4 DEF OwnerSucceeds, HeapInv, InputInv
  <2>2. Faithful(outsize)'
    BY <1>0, <1>4 DEF OwnerSucceeds, ContentInv, Faithful
  <2> QED BY <1>0, <1>4, <2>1, <2>2, SucceedEnds DEF OwnerSucceeds
<1> QED BY <1>1, <1>2, <1>3, <1>4

\* Every step of a call preserves the invariant.
LEMMA RunStep == RInv /\ [Next]_vars => RInv'
<1> SUFFICES ASSUME RInv, [Next]_vars PROVE RInv'
  OBVIOUS
<1>1. CASE RunHere
  BY <1>1, PassStep, OpenStep, CompressStep, InflateStep, AttemptStep, GrowStep DEF RunHere
<1>2. CASE RunOwner \/ MembersTooLarge
  BY <1>2, OwnerWidens, OwnerStep
<1>3. CASE UNCHANGED vars
  BY <1>3 DEF vars, input, output, RInv, InputInv, PathInv, HeapInv, ContentInv, Faithful, Refusable, BufferInv,
       AllOrNothing, SizeLost, DecodesTheWhole, LimitsAreTheCap, Empty
<1> QED BY <1>1, <1>2, <1>3 DEF Next, Run, Ended

-----------------------------------------------------------------------------
\* The invariant holds in every state of every call.
THEOREM RunInvariance == Spec => []RInv
<1> QED BY RunInit, RunStep, PTL DEF Spec

\* zmatlib.c: every exit, with the clean-up written there, releases the output buffer and the
\* codec's state once on an error, leaving NULL and 0, and on success hands over one buffer
\* that holds what is announced, unless zstd's size did not fit an int; for any sizes
\* and any failures.
THEOREM RunAllOrNothing == Spec => []AllOrNothing
<1>1. RInv => AllOrNothing
  BY DEF RInv
<1> QED BY <1>1, RunInvariance, PTL

\* zmatlib.c: no cut or damaged stream passes where its format can tell, and a sound one
\* gives the whole document after any number of grow rounds; of an lzip stream the
\* first member passes for it when the rest is not sound or memory is short.
THEOREM RunDecodesTheWhole == Spec => []DecodesTheWhole
<1>1. RInv => DecodesTheWhole
  BY DEF RInv
<1> QED BY <1>1, RunInvariance, PTL

\* zmatlib.c: no buffer passes ZMAT_MAX_ALLOC and no sound document below it is refused,
\* for any limits whose rounds of doubling reach the cap.
THEOREM RunLimits == Spec => []LimitsAreTheCap
<1>1. RInv => LimitsAreTheCap
  BY DEF RInv
<1> QED BY <1>1, RunInvariance, PTL

-----------------------------------------------------------------------------
(* What gzip reads and base64 writes *)

GzipInv ==
  /\ stream \in GzipInputs \cup {NoStream}
  /\ start \in Nat /\ greach \in Nat /\ Gzip!StaysInside
  /\ gpc \notin {"check", "done"} => Gzip!InLen >= 18 /\ stream \in GzipInputs
  /\ gpc = "extra" => start = 10

Base64Inv ==
  codec = "base64" /\ op = "encode" =>
    /\ pc \in {"start", "owner", "owned", "ended"}
    /\ bytes \in Documents /\ mode \in Modes /\ insize = Len(bytes)
    /\ pc = "ended" /\ rc = 0 => ret = "ok"
    /\ ret = "ok" => text = B64!Encode(bytes, mode) /\ Len(text) + 1 <= B64!BufferSize(insize)

\* What is decoded is one of the texts.
TextInv ==
  codec = "base64" =>
    \/ op = "encode"
    \/ op = "decode"
       /\ \E i \in Base64Inputs :
            bytes = i.doc /\ text = i.text /\ doc = [size |-> i.size, fate |-> i.fate]

SerialInv == GzipInv /\ Base64Inv /\ TextInv

\* Quotient and remainder.
LEMMA DivRest ==
  \A a \in Nat, b \in Nat \ {0} :
    a \div b \in Nat /\ a = b * (a \div b) + (a % b) /\ a % b \in 0 .. b - 1
<1> SUFFICES ASSUME NEW a \in Nat, NEW b \in Nat \ {0}
             PROVE  a \div b \in Nat /\ a = b * (a \div b) + (a % b) /\ a % b \in 0 .. b - 1
  OBVIOUS
<1>1. a \div b \in Nat
  OBVIOUS
<1>2. a % b \in 0 .. b - 1
  OBVIOUS
<1>3. b \in Nat /\ b > 0
  OBVIOUS
<1>4. a = b * (a \div b) + (a % b)
  BY <1>3, SMTT(30)
<1> QED BY <1>1, <1>2, <1>4

\* zmatlib.c, base64_encode: unless the product overflows, and then that shows, the size
\* computed from it has room for four characters for each three bytes begun and one.
LEMMA PackedFits ==
  ASSUME NEW n \in Nat, n < SizeMod, ~B64!Overflows(n)
  PROVE  /\ B64!PackedBound(n) \in Nat /\ 4 * B64!Groups(n) + 1 <= B64!PackedBound(n)
         /\ 4 * (n \div 3) <= B64!PackedBound(n)
<1>1. SizeMod \in Nat /\ SizeMod >= 24
  BY RunAssumption, SerialAssumption
<1> DEFINE p == (4 * n) % SizeMod
<1>2. p \in Nat /\ p \div 3 + 4 >= n
  BY <1>1 DEF B64!Overflows, B64!PackedBound
<1> DEFINE q == (4 * n) \div SizeMod
<1>3. q \in Nat /\ 4 * n = SizeMod * q + p /\ p < SizeMod
  <2>1. 4 * n \in Nat /\ SizeMod \in Nat \ {0}
    BY <1>1
  <2>2. q \in Nat /\ 4 * n = SizeMod * q + p /\ p \in 0 .. SizeMod - 1
    BY <2>1, DivRest
  <2> QED BY <1>1, <2>2
<1> HIDE DEF q
<1>4. q = 0
  <2>1. 4 * n < 4 * SizeMod
    BY <1>1
  <2>2. SizeMod * q < 4 * SizeMod
    BY <1>1, <1>2, <1>3, <2>1
  <2>3. q >= 0
    BY <1>3
  <2>4. q < 4
    <3> SUFFICES ASSUME q >= 4 PROVE FALSE
      BY <1>3
    <3>1. q - 4 \in Nat /\ SizeMod * q = 4 * SizeMod + SizeMod * (q - 4)
      BY <1>1, <1>3
    <3>2. SizeMod * (q - 4) >= 0
      BY <1>1, <3>1
    <3> QED BY <1>1, <1>3, <2>2, <3>1, <3>2
  <2>5. q # 1
    BY <1>1, <1>2, <1>3
  <2>6. q # 2
    BY <1>1, <1>2, <1>3
  <2>7. q # 3
    BY <1>1, <1>2, <1>3
  <2> QED BY <1>3, <2>3, <2>4, <2>5, <2>6, <2>7
<1>5. p = 4 * n
  BY <1>1, <1>2, <1>3, <1>4
<1>6. B64!PackedBound(n) = (4 * n) \div 3 + 4
  BY <1>5 DEF B64!PackedBound
<1> QED BY <1>6 DEF B64!Groups

\* Division is monotonic in what is divided and antitonic in what divides.
LEMMA DivOrder ==
  ASSUME NEW a \in Nat, NEW b \in Nat, a <= b, NEW c \in Nat \ {0}, NEW w \in Nat, c <= w
  PROVE  a \div w <= b \div c
<1> DEFINE x == a \div w
           y == b \div c
<1>1. x \in Nat /\ x * w <= a
  OBVIOUS
<1>2. y \in Nat /\ b < (y + 1) * c
  OBVIOUS
<1>3. x * c <= x * w
  BY <1>1
<1>4. x * c < (y + 1) * c
  BY <1>1, <1>2, <1>3
<1> HIDE DEF x, y
<1>5. x < y + 1
  BY <1>1, <1>2, <1>4
<1>6. x <= y
  BY <1>1, <1>2, <1>5
<1> QED BY <1>6 DEF x, y

\* zmatlib.c, base64_encode: the text, its line feeds and its NUL fit what is allocated.
LEMMA TextFits ==
  ASSUME NEW doc_ \in Documents, NEW m \in Modes, ~B64!Overflows(Len(doc_))
  PROVE  Len(B64!Encode(doc_, m)) + 1 <= B64!BufferSize(Len(doc_))
<1> DEFINE n == Len(doc_)
<1>1. n \in Nat /\ n < SizeMod /\ m \in Int /\ LineLen \in Nat \ {0}
  BY SerialAssumption DEF Contents
<1>2. /\ B64!PackedBound(n) \in Nat /\ 4 * B64!Groups(n) + 1 <= B64!PackedBound(n)
      /\ 4 * (n \div 3) <= B64!PackedBound(n)
  BY <1>1, PackedFits
<1>3. B64!Width \in Nat /\ LineLen <= B64!Width
  BY <1>1 DEF B64!Width
<1>4. B64!Groups(n) \in Nat /\ 4 * (n \div 3) \in Nat
  BY <1>1 DEF B64!Groups
<1> DEFINE within == (4 * (n \div 3)) \div B64!Width
<1>5. within <= B64!PackedBound(n) \div LineLen
  BY <1>1, <1>2, <1>3, <1>4, DivOrder
<1>6. within \in Nat /\ B64!PackedBound(n) \div LineLen \in Nat
  <2>1. B64!Width \in Nat \ {0}
    BY <1>1, <1>3
  <2> QED BY <1>1, <1>2, <1>4, <2>1, DivRest
<1>7. B64!Breaks(n, m) \in Nat /\ B64!Breaks(n, m) <= within + 1
  <2> HIDE DEF within
  <2>1. B64!Breaks(n, m) \in {0, within, within + 1}
    BY <1>6 DEF B64!Breaks, within
  <2> QED BY <1>6, <2>1
<1>8. B64!EncodedLen(n, m) \in Nat
      /\ B64!EncodedLen(n, m) <= 4 * B64!Groups(n) + within + 1
  <2> HIDE DEF within
  <2> QED BY <1>4, <1>6, <1>7 DEF B64!EncodedLen
<1>9. Len(B64!Encode(doc_, m)) = B64!EncodedLen(n, m)
  BY <1>8 DEF B64!Encode
<1> HIDE DEF n, within
<1> QED BY <1>2, <1>4, <1>5, <1>6, <1>8, <1>9 DEF B64!BufferSize, n


LEMMA SerialInitInv == SerialInit => SerialInv
<1> SUFFICES ASSUME SerialInit PROVE SerialInv
  OBVIOUS
<1>1. /\ stream \in GzipInputs \cup {NoStream} /\ start = 0 /\ greach = 0 /\ gpc = "check"
      /\ pc = "start" /\ ret = "none"
  BY DEF SerialInit, Started, PlainInit, GzipInit, XzInit, Base64Init, Gzip!GzipIdle
<1>2. Gzip!InLen \in Nat
  <2>1. \A i \in GzipInputs : Len(i.bytes) \in Nat
    BY SerialAssumption
  <2>2. Len(NoStream.bytes) = 0
    BY DEF NoStream
  <2> QED BY <1>1, <2>1, <2>2 DEF Gzip!InLen
<1>3. GzipInv
  BY <1>1, <1>2 DEF GzipInv, Gzip!StaysInside, Gzip!Larger
<1>4. codec = "base64" /\ op = "encode" => bytes \in Documents /\ mode \in Modes /\ insize = Len(bytes)
  BY DEF SerialInit, PlainInit, GzipInit, XzInit, Base64Init, HasReader, Decodes
<1>5. TextInv
  <2>1. CASE Base64Init
    BY <2>1 DEF Base64Init, TextInv, Decodes
  <2>2. CASE ~Base64Init
    BY <2>2 DEF SerialInit, PlainInit, GzipInit, XzInit, HasReader, TextInv
  <2> QED BY <2>1, <2>2
<1> QED BY <1>1, <1>3, <1>4, <1>5 DEF SerialInv, Base64Inv

\* miniz_gzip_uncompress: each step of the walk.
LEMMA GzipStepInv == GzipInv /\ Gzip!GzipStep => GzipInv'
<1> SUFFICES ASSUME GzipInv, Gzip!GzipStep PROVE GzipInv'
  OBVIOUS
<1> DEFINE l == Gzip!InLen
<1>1. /\ stream \in GzipInputs => stream.fields \in Nat
      /\ l \in Nat /\ start \in Nat /\ greach \in Nat
      /\ greach < Gzip!Larger(l, 1) /\ start <= l
  <2>1. \A i \in GzipInputs : Len(i.bytes) \in Nat /\ i.fields \in Nat
    BY SerialAssumption
  <2>2. Len(NoStream.bytes) = 0
    BY DEF NoStream
  <2> QED BY <2>1, <2>2 DEF GzipInv, Gzip!InLen, Gzip!StaysInside
<1>2. stream' = stream /\ l' = l
  BY DEF Gzip!GzipStep, Gzip!CheckBase, Gzip!SkipExtra, Gzip!SkipName, Gzip!SkipComment, Gzip!SkipText,
         Gzip!CheckHeaderCrc, Gzip!ReadTrailer, Gzip!Allocate, Gzip!Inflate, Gzip!Verify, Gzip!InLen
<1> HIDE DEF l
<1>3. ASSUME gpc' = "done", start' = start, greach' = greach PROVE GzipInv'
  BY <1>1, <1>2, <1>3 DEF GzipInv, Gzip!StaysInside, Gzip!Larger, l
<1>4. ASSUME gpc' \notin {"check", "extra"}, l >= 18, stream \in GzipInputs,
             start' \in Nat, start' <= l, greach' \in Nat, greach' < l
      PROVE  GzipInv'
  BY <1>1, <1>2, <1>4 DEF GzipInv, Gzip!StaysInside, Gzip!Larger, l
<1>5. gpc \notin {"check", "done"} => l >= 18 /\ stream \in GzipInputs /\ greach < l
  BY <1>1 DEF GzipInv, l, Gzip!Larger
<1>6. CASE Gzip!CheckBase
  <2>1. CASE l < 18
    BY <1>1, <1>3, <1>6, <2>1 DEF Gzip!CheckBase, Gzip!Give, Gzip!MinLength, l
  <2>2. CASE l >= 18
    <3>1. stream \in GzipInputs /\ start' = 10 /\ greach' = Gzip!Larger(greach, 3) /\ gpc' \in {"done", "extra"}
      <4>1. stream = NoStream => l = 0
        BY DEF NoStream, Gzip!InLen, l
      <4> QED BY <1>1, <1>6, <2>2, <4>1 DEF Gzip!CheckBase, Gzip!Give, Gzip!Goto, Gzip!Reads, Gzip!HeaderSize,
                   Gzip!MinLength, GzipInv, l
    <3>2. greach' \in Nat /\ greach' < l
      BY <1>1, <2>2, <3>1 DEF Gzip!Larger
    <3> QED BY <1>1, <1>2, <2>2, <3>1, <3>2 DEF GzipInv, Gzip!StaysInside, Gzip!Larger, l
  <2> QED BY <1>1, <2>1, <2>2
<1>7. CASE Gzip!SkipExtra
  <2>1. gpc = "extra" /\ start = 10 /\ l >= 18 /\ stream \in GzipInputs /\ stream.fields \in Nat /\ greach < l
    BY <1>1, <1>5, <1>7 DEF Gzip!SkipExtra, GzipInv
  <2>2. /\ \/ gpc' = "name" /\ start' = start /\ greach' = greach
           \/ gpc' = "done" /\ start' = start /\ greach' = Gzip!Larger(greach, start + 1)
           \/ /\ gpc' = "name" /\ greach' = Gzip!Larger(greach, start + 1)
              /\ start' = start + stream.fields + 2 /\ ~(stream.fields > l - start - 2)
    BY <1>7 DEF Gzip!SkipExtra, Gzip!Give, Gzip!Goto, Gzip!Reads, l
  <2>3. start' \in Nat /\ start' <= l /\ greach' \in Nat /\ greach' < l
    BY <1>1, <2>1, <2>2 DEF Gzip!Larger
  <2> QED BY <1>4, <2>1, <2>2, <2>3
<1>8. ASSUME NEW label, NEW flag, NEW then, label \notin {"check", "done"},
             label # "extra", then \notin {"check", "extra"}, Gzip!SkipText(label, flag, then)
      PROVE  GzipInv'
  <2>1. gpc = label /\ l >= 18 /\ stream \in GzipInputs /\ greach < l
    BY <1>1, <1>5, <1>8 DEF Gzip!SkipText
  <2>2. \/ gpc' \in {then, "done"} /\ start' = start /\ greach' = greach
        \/ gpc' \in {then, label} /\ start < l /\ start' = start + 1 /\ greach' = Gzip!Larger(greach, start)
    BY <1>1, <1>8 DEF Gzip!SkipText, Gzip!Give, Gzip!Goto, Gzip!Reads, Gzip!PastEnd, l
  <2>3. start' \in Nat /\ start' <= l /\ greach' \in Nat /\ greach' < l
    BY <1>1, <2>1, <2>2 DEF Gzip!Larger
  <2> QED BY <1>4, <1>8, <2>1, <2>2, <2>3
<1>9. CASE Gzip!SkipName
  BY <1>8, <1>9 DEF Gzip!SkipName
<1>10. CASE Gzip!SkipComment
  BY <1>8, <1>10 DEF Gzip!SkipComment
<1>11. CASE Gzip!CheckHeaderCrc
  <2>1. gpc = "hcrc" /\ l >= 18 /\ stream \in GzipInputs /\ greach < l
    BY <1>1, <1>5, <1>11 DEF Gzip!CheckHeaderCrc
  <2>2. /\ gpc' \in {"trailer", "done"}
        /\ \/ start' = start /\ greach' = greach
           \/ /\ start <= l - 2 /\ start' \in {start, start + 2}
              /\ greach' = Gzip!Larger(greach, start + 1)
    BY <1>11 DEF Gzip!CheckHeaderCrc, Gzip!Give, Gzip!Goto, Gzip!Reads, l
  <2>3. start' \in Nat /\ start' <= l /\ greach' \in Nat /\ greach' < l
    BY <1>1, <2>1, <2>2 DEF Gzip!Larger
  <2> QED BY <1>4, <2>1, <2>2, <2>3
<1>12. CASE Gzip!ReadTrailer
  <2>1. gpc = "trailer" /\ l >= 18 /\ stream \in GzipInputs /\ greach < l
    BY <1>1, <1>5, <1>12 DEF Gzip!ReadTrailer
  <2>2. start' = start /\ greach' = Gzip!Larger(greach, l - 1) /\ gpc' \in {"done", "alloc"}
    BY <1>12 DEF Gzip!ReadTrailer, Gzip!Give, Gzip!Goto, Gzip!Reads, l
  <2>3. greach' \in Nat /\ greach' < l
    BY <1>1, <2>1, <2>2 DEF Gzip!Larger
  <2> QED BY <1>1, <1>4, <2>1, <2>2, <2>3
<1>13. CASE Gzip!Allocate \/ Gzip!Inflate \/ Gzip!Verify
  <2>1. /\ gpc \notin {"check", "done"} /\ start' = start /\ greach' = greach
        /\ gpc' \in {"inflate", "verify", "done"}
    BY <1>13 DEF Gzip!Allocate, Gzip!Inflate, Gzip!Verify, Gzip!Give, Gzip!Goto
  <2> QED BY <1>1, <1>4, <1>5, <2>1
<1> QED BY <1>6, <1>7, <1>9, <1>10, <1>11, <1>12, <1>13 DEF Gzip!GzipStep


\* The document and what is to be done with it stay as they are.
LEMMA Base64Keeps ==
  ASSUME SerialNext
  PROVE  /\ input' = input /\ bytes' = bytes /\ mode' = mode
         /\ op = "decode" => text' = text
<1>1. Here => input' = input /\ bytes' = bytes /\ mode' = mode /\ text' = text
  <2>1. RunHere => input' = input
    BY DEF RunHere, Refuse, Dispatch, OwnerFails, OwnerSucceeds, InitCodec, AllocBound, OpenContext,
           CompressZlib, CompressGzip, CompressLz4, CompressZstd, CompressBlosc,
           AllocInflate, AllocAttempt, AllocKnown, Inflate, InflateEnds, InflateFails, InflateMore,
           InflateFull, Attempt, AttemptKnown, TooManyRounds, CannotGrow, Grow
  <2>2. RunOwner \/ MembersTooLarge => input' = input
    BY DEF RunOwner, MembersTooLarge
  <2> QED BY <2>1, <2>2 DEF Here, base64Vars
<1>2. GzipReads \/ XzReads => input' = input /\ bytes' = bytes /\ mode' = mode /\ text' = text
  BY DEF GzipReads, XzReads, vars, input, base64Vars
<1>3. GzipReturns \/ XzReturns \/ Base64Decodes
        => input' = input /\ bytes' = bytes /\ mode' = mode /\ text' = text
  BY DEF GzipReturns, XzReturns, Base64Decodes, OwnerReturns, base64Vars
<1>4. Base64Encodes => input' = input /\ bytes' = bytes /\ mode' = mode /\ op # "decode"
  BY DEF Base64Encodes, OwnerReturns
<1>5. SerialEnded => input' = input /\ bytes' = bytes /\ mode' = mode /\ text' = text
  BY DEF SerialEnded, Ended, vars, input, base64Vars
<1> QED BY <1>1, <1>2, <1>3, <1>4, <1>5 DEF SerialNext, SerialRun

\* No action but those of its own does anything for base64.
LEMMA Base64StepInv == Base64Inv /\ SerialNext => Base64Inv'
<1> SUFFICES ASSUME Base64Inv, SerialNext, codec' = "base64", op' = "encode"
             PROVE  /\ pc' \in {"start", "owner", "owned", "ended"}
                    /\ bytes' \in Documents /\ mode' \in Modes /\ insize' = Len(bytes')
                    /\ pc' = "ended" /\ rc' = 0 => ret' = "ok"
                    /\ ret' = "ok" =>
                         /\ text' = B64!Encode(bytes', mode')
                         /\ Len(text') + 1 <= B64!BufferSize(insize')
  BY DEF Base64Inv
<1>1. codec' = codec /\ op' = op /\ insize' = insize /\ bytes' = bytes /\ mode' = mode
  BY Base64Keeps DEF input
<1>2. /\ codec = "base64" /\ op = "encode" /\ pc \in {"start", "owner", "owned", "ended"}
      /\ bytes \in Documents /\ mode \in Modes /\ insize = Len(bytes)
      /\ pc = "ended" /\ rc = 0 => ret = "ok"
      /\ ret = "ok" => text = B64!Encode(bytes, mode) /\ Len(text) + 1 <= B64!BufferSize(insize)
  BY <1>1 DEF Base64Inv
<1>3. CASE Here
  <2>1. text' = text
    BY <1>3 DEF Here, base64Vars
  <2>2. Refuse \/ Dispatch \/ OwnerFails \/ OwnerSucceeds
    BY <1>2, <1>3 DEF Here, HasReader, MembersTooLarge, HasMembers, RunHere, InitCodec, AllocBound, OpenContext,
           CompressZlib, CompressGzip, CompressLz4, CompressZstd, CompressBlosc,
           AllocInflate, AllocAttempt, AllocKnown, Inflate, InflateEnds, InflateFails, InflateMore,
           InflateFull, Attempt, AttemptKnown, TooManyRounds, CannotGrow, Grow
  <2>3. CASE Refuse
    BY <1>1, <1>2, <2>1, <2>3 DEF Refuse, Return
  <2>4. CASE Dispatch
    BY <1>1, <1>2, <2>1, <2>4 DEF Dispatch, Owners
  <2>5. CASE OwnerFails
    BY <1>1, <1>2, <2>1, <2>5 DEF OwnerFails, Return, OwnerError
  <2>6. CASE OwnerSucceeds
    BY <1>1, <1>2, <2>1, <2>6 DEF OwnerSucceeds, Return
  <2> QED BY <2>2, <2>3, <2>4, <2>5, <2>6
<1>4. CASE Base64Encodes
  <2>1. CASE ~B64!Overflows(insize) /\ text' = B64!Encode(bytes, mode) /\ OwnerReturns(TRUE, Len(text'), FALSE)
    <3>1. text' = B64!Encode(bytes', mode') /\ Len(text') + 1 <= B64!BufferSize(insize')
      BY <1>1, <1>2, <2>1, TextFits
    <3> QED BY <1>1, <1>2, <2>1, <3>1 DEF OwnerReturns
  <2>2. CASE OwnerReturns(FALSE, 0, TRUE)
    BY <1>1, <1>2, <2>2 DEF OwnerReturns, OwnerRefuses
  <2> QED BY <1>4, <2>1, <2>2 DEF Base64Encodes
<1>5. CASE SerialEnded
  BY <1>1, <1>2, <1>5 DEF SerialEnded, Ended, vars, base64Vars
<1> QED BY <1>2, <1>3, <1>4, <1>5
        DEF SerialNext, SerialRun, GzipReads, GzipReturns, XzReads, XzReturns, Base64Decodes

LEMMA SerialStepInv == SerialInv /\ [SerialNext]_svars => SerialInv'
<1> SUFFICES ASSUME SerialInv, [SerialNext]_svars PROVE SerialInv'
  OBVIOUS
<1>1. ASSUME UNCHANGED gzipVars PROVE GzipInv'
  BY <1>1 DEF SerialInv, GzipInv, gzipVars, Gzip!StaysInside, Gzip!InLen
<1>2. CASE UNCHANGED svars
  BY <1>1, <1>2 DEF SerialInv, Base64Inv, TextInv, svars, vars, base64Vars
<1>3. CASE SerialNext
  <2>1. Base64Inv'
    BY <1>3, Base64StepInv DEF SerialInv
  <2>2. GzipReads \/ UNCHANGED gzipVars
    BY <1>3 DEF SerialNext, SerialRun, SerialEnded, Here, GzipReturns, XzReads, XzReturns, Base64Encodes,
                Base64Decodes
  <2>3. GzipInv'
    BY <1>1, <2>2, GzipStepInv DEF SerialInv, GzipReads
  <2>4. TextInv'
    <3>1. codec' = codec /\ op' = op /\ doc' = doc /\ bytes' = bytes /\ (op = "decode" => text' = text)
      BY <1>3, Base64Keeps DEF input
    <3> QED BY <3>1 DEF SerialInv, TextInv
  <2> QED BY <2>1, <2>3, <2>4 DEF SerialInv
<1> QED BY <1>2, <1>3

\* zmatlib.c: miniz_gzip_uncompress reads no byte beyond its input and the packed data
\* begins within it, for any input and any lengths in its header; what base64_encode
\* writes fits what it allocated, for every document shorter than size_t can count and every
\* mode and length of line.
THEOREM SerialStaysInside == SerialSpec => []StaysInside
<1>1. SerialInv => StaysInside
  BY DEF SerialInv, GzipInv, Base64Inv, StaysInside
<1> QED BY <1>1, SerialInitInv, SerialStepInv, PTL DEF SerialSpec

-----------------------------------------------------------------------------
(* base64, there and back *)

Octets == 0 .. 255

\* Six bits a character.
LEMMA QuadChars ==
  ASSUME NEW a \in Octets, NEW b \in Octets, NEW c \in Octets
  PROVE  /\ a \div 4 \in 0 .. 63 /\ (a % 4) * 16 + b \div 16 \in 0 .. 63
         /\ (b % 16) * 4 + c \div 64 \in 0 .. 63 /\ c % 64 \in 0 .. 63
  BY DEF Octets

\* Three bytes from four characters.
LEMMA QuadBack ==
  ASSUME NEW a \in Octets, NEW b \in Octets, NEW c \in Octets
  PROVE  /\ ((a \div 4) * 4 + ((a % 4) * 16 + b \div 16) \div 16) % 256 = a
         /\ (((a % 4) * 16 + b \div 16) * 16 + ((b % 16) * 4 + c \div 64) \div 4) % 256 = b
         /\ (((b % 16) * 4 + c \div 64) * 64 + (c % 64)) % 256 = c
<1>1. PICK ah \in 0 .. 63, al \in 0 .. 3 : a \div 4 = ah /\ a % 4 = al /\ a = 4 * ah + al
  BY DEF Octets
<1>2. PICK bh \in 0 .. 15, bl \in 0 .. 15 : b \div 16 = bh /\ b % 16 = bl /\ b = 16 * bh + bl
  BY DEF Octets
<1>3. PICK ch \in 0 .. 3, cl \in 0 .. 63 : c \div 64 = ch /\ c % 64 = cl /\ c = 64 * ch + cl
  BY DEF Octets
<1>4. a \div 4 = ah /\ a % 4 = al /\ b \div 16 = bh /\ b % 16 = bl /\ c \div 64 = ch /\ c % 64 = cl
  BY <1>1, <1>2, <1>3
<1>5. ((ah * 4) + ((al * 16 + bh) \div 16)) % 256 = a
  BY <1>1 DEF Octets
<1>6. (((al * 16 + bh) * 16) + ((bl * 4 + ch) \div 4)) % 256 = b
  BY <1>2 DEF Octets
<1>7. ((bl * 4 + ch) * 64 + cl) % 256 = c
  BY <1>3 DEF Octets
<1>8. ((a \div 4) * 4 + ((a % 4) * 16 + b \div 16) \div 16) % 256 = a
  BY <1>4, <1>5, Zenon
<1>9. (((a % 4) * 16 + b \div 16) * 16 + ((b % 16) * 4 + c \div 64) \div 4) % 256 = b
  BY <1>4, <1>6, Zenon
<1>10. (((b % 16) * 4 + c \div 64) * 64 + (c % 64)) % 256 = c
  BY <1>4, <1>7, Zenon
<1> QED BY <1>8, <1>9, <1>10

\* Induction, for a set of numbers.
LEMMA Induction ==
  ASSUME NEW S, 0 \in S, \A k \in Nat : k \in S => k + 1 \in S
  PROVE  Nat \subseteq S
<1> DEFINE Below == {p \in Nat \X Nat : p[1] < p[2]}
           Rest == Nat \ S
<1>1. IsWellFoundedOn(Below, Nat)
  BY NatLessThanWellFounded DEF OpToRel
<1> SUFFICES ASSUME Rest # {} PROVE FALSE
  OBVIOUS
<1>2. \E x \in Rest : \A y \in Rest : <<y, x>> \notin Below
  <2> HIDE DEF Below
  <2> QED BY <1>1, WFMin
<1>3. PICK x \in Rest : \A y \in Rest : <<y, x>> \notin Below
  BY <1>2
<1>4. x \in Nat /\ x # 0 /\ x - 1 \in Nat
  OBVIOUS
<1>5. <<x - 1, x>> \in Below
  BY <1>4
<1>6. x - 1 \in S
  BY <1>3, <1>4, <1>5
<1> QED BY <1>4, <1>6

\* What the loop of base64_decode keeps, character by character.
KeptSoFar(f, t) ==
  f = [i \in 0 .. Len(t) |->
         IF i = 0 THEN <<>>
         ELSE IF B64!Counted(t[i]) THEN Append(f[i - 1], t[i]) ELSE f[i - 1]]

\* A loop has one course: what goes its way is what it keeps.
LEMMA KeptIs ==
  ASSUME NEW t, Len(t) \in Nat, NEW f, KeptSoFar(f, t)
  PROVE  B64!Kept(t) = f[Len(t)]
<1> DEFINE n == Len(t)
           h == CHOOSE h : KeptSoFar(h, t)
           S == {k \in Nat : k <= n => h[k] = f[k]}
<1>1. KeptSoFar(h, t)
  OBVIOUS
<1>2. B64!Kept(t) = h[n]
  BY DEF B64!Kept, KeptSoFar
<1> HIDE DEF h
<1>3. 0 \in S
  BY <1>1 DEF KeptSoFar
<1>4. ASSUME NEW k \in Nat, k \in S, k + 1 <= n PROVE h[k + 1] = f[k + 1]
  <2>1. k + 1 \in 0 .. n /\ k + 1 # 0 /\ (k + 1) - 1 = k /\ h[k] = f[k]
    BY <1>4
  <2>2. h[k + 1] = IF B64!Counted(t[k + 1]) THEN Append(h[k], t[k + 1]) ELSE h[k]
    BY <1>1, <2>1 DEF KeptSoFar
  <2>3. f[k + 1] = IF B64!Counted(t[k + 1]) THEN Append(f[k], t[k + 1]) ELSE f[k]
    BY <2>1 DEF KeptSoFar
  <2> QED BY <2>1, <2>2, <2>3
<1>5. Nat \subseteq S
  <2>1. \A k \in Nat : k \in S => k + 1 \in S
    BY <1>4
  <2> HIDE DEF S
  <2> QED BY <1>3, <2>1, Induction
<1> QED BY <1>2, <1>5

\* A quotient changes at the multiples only.
LEMMA DivNext ==
  ASSUME NEW j \in Nat \ {0}, NEW w \in Nat \ {0}
  PROVE  /\ j % w = 0 => j \div w = (j - 1) \div w + 1
         /\ j % w # 0 => j \div w = (j - 1) \div w
         /\ (j - 1) \div w \in Nat /\ (j - 1) \div w <= j - 1
<1> DEFINE q == j \div w
           r == j % w
           p == (j - 1) \div w
           s == (j - 1) % w
<1>1. /\ j - 1 \in Nat /\ j \in Nat
      /\ q \in Nat /\ j = w * q + r /\ r \in 0 .. w - 1
      /\ p \in Nat /\ j - 1 = w * p + s /\ s \in 0 .. w - 1
  <2>1. j \in Nat /\ j - 1 \in Nat
    OBVIOUS
  <2>2. q \in Nat /\ j = w * q + r /\ r \in 0 .. w - 1
    BY <2>1, DivRest, Zenon
  <2>3. p \in Nat /\ j - 1 = w * p + s /\ s \in 0 .. w - 1
    BY <2>1, DivRest, Zenon
  <2> QED BY <2>1, <2>2, <2>3
<1>2. p <= w * p
  BY <1>1
<1> HIDE DEF q, r, p, s
<1>3. p <= j - 1
  BY <1>1, <1>2
<1>4. w * (q - p) = s - r + 1
  BY <1>1
<1> DEFINE d == q - p
<1>5. d \in Int /\ w * d = s - r + 1
  BY <1>1, <1>4
<1> HIDE DEF d
<1>6. d >= 0
  <2> SUFFICES ASSUME d <= -1 PROVE FALSE
    BY <1>5
  <2>1. w * d <= -w
    BY <1>5
  <2> QED BY <1>1, <1>5, <2>1
<1>7. d <= 1
  <2> SUFFICES ASSUME d >= 2 PROVE FALSE
    BY <1>5
  <2>1. w * d >= 2 * w
    BY <1>5
  <2> QED BY <1>1, <1>5, <2>1
<1>8. d = 0 \/ d = 1
  BY <1>5, <1>6, <1>7
<1>9. r = 0 => d = 1
  <2>1. d = 0 => w * d = 0
    OBVIOUS
  <2> QED BY <1>1, <1>5, <1>8, <2>1
<1>10. r # 0 => d = 0
  <2>1. d = 1 => w * d = w
    OBVIOUS
  <2> QED BY <1>1, <1>5, <1>8, <2>1
<1>11. q = p + d
  BY <1>1 DEF d
<1> QED BY <1>1, <1>3, <1>9, <1>10, <1>11 DEF q, r, p

\* Characters other than line feeds among the first j of a text.
InText(doc_, m, j) ==
  LET every == IF m <= 1 THEN j ELSE j - j \div (B64!Width + 1)
  IN  IF every < 4 * B64!Groups(Len(doc_)) THEN every ELSE 4 * B64!Groups(Len(doc_))

LEMMA WidthIs == B64!Width \in Nat \ {0} /\ B64!Width % 4 = 0 /\ B64!Width + 1 \in Nat \ {0}
<1>1. LineLen \in Nat \ {0}
  BY SerialAssumption
<1> QED BY <1>1 DEF B64!Width

\* The line feeds that are written are those that are counted.
LEMMA FeedsCounted ==
  ASSUME NEW n \in Nat \ {0}, NEW m \in Int, m > 1
  PROVE  /\ B64!EncodedLen(n, m) \in Nat
         /\ B64!EncodedLen(n, m) - B64!EncodedLen(n, m) \div (B64!Width + 1) >= 4 * B64!Groups(n)
<1> DEFINE W == B64!Width
           t == 4 * (n \div 3)
           w == t \div W
           g == 4 * B64!Groups(n)
           E == B64!EncodedLen(n, m)
<1>1. W \in Nat \ {0} /\ W % 4 = 0 /\ W + 1 \in Nat \ {0}
  BY WidthIs
<1>2. t \in Nat /\ g \in Nat /\ t <= g /\ g <= t + 4 /\ t % 4 = 0
  BY DEF B64!Groups
<1>3. w \in Nat /\ t = W * w + (t % W) /\ t % W \in 0 .. W - 1
  BY <1>1, <1>2, DivRest
<1>4. t % 4 = 0 /\ t < W * w + W
  BY <1>1, <1>2, <1>3
<1> DEFINE b == B64!Breaks(n, m)
<1>5. b \in {w, w + 1} /\ E = g + b
  <2>1. ~(m <= 1)
    OBVIOUS
  <2>2. b = w + (IF m > 2 /\ g > w * W THEN 1 ELSE 0)
    BY <2>1 DEF B64!Breaks
  <2>3. E = g + b
    BY DEF B64!EncodedLen
  <2> HIDE DEF w, b, g, W, E
  <2> QED BY <1>3, <2>2, <2>3
<1> HIDE DEF W, t, w, g, E, b
<1>6. g <= W * w + W
  <2>1. PICK v \in Nat : W = 4 * v
    BY <1>1
  <2>2. PICK u \in Nat : t = 4 * u
    BY <1>2
  <2>3. v * w \in Nat /\ W * w = 4 * (v * w)
    BY <1>3, <2>1
  <2>4. PICK x \in Nat : x = v * w
    BY <2>3
  <2>5. 4 * u < 4 * x + 4 * v
    BY <1>4, <2>1, <2>2, <2>3, <2>4
  <2>6. 4 * u + 4 <= 4 * x + 4 * v
    BY <2>1, <2>5
  <2> QED BY <1>2, <2>1, <2>2, <2>3, <2>4, <2>6
<1> DEFINE V == W + 1
           k == E \div V
<1>7. E \in Nat /\ b \in Nat /\ V \in Nat \ {0}
  BY <1>1, <1>2, <1>3, <1>5
<1>8. k \in Nat /\ V * k <= E
  <2>1. k \in Nat /\ E = V * k + (E % V) /\ E % V \in 0 .. V - 1
    BY <1>7, DivRest, Zenon
  <2> HIDE DEF k, V
  <2>2. V * k \in Nat
    BY <1>7, <2>1
  <2> QED BY <1>7, <2>1, <2>2
<1> HIDE DEF k, V
<1>9. k <= b
  <2> SUFFICES ASSUME k >= b + 1 PROVE FALSE
    BY <1>7, <1>8
  <2>1. V * (b + 1) <= V * k
    BY <1>7, <1>8
  <2>2. V * (b + 1) = W * b + b + W + 1
    BY <1>1, <1>7 DEF V
  <2>3. W * w <= W * b
    BY <1>1, <1>3, <1>5
  <2>4. W * b \in Int /\ W * w \in Int /\ V * k \in Int /\ V * (b + 1) \in Int
    BY <1>1, <1>3, <1>7, <1>8
  <2> QED BY <1>1, <1>2, <1>5, <1>6, <1>7, <1>8, <2>1, <2>2, <2>3, <2>4
<1>10. E - k >= g
  BY <1>2, <1>5, <1>7, <1>8, <1>9
<1> QED BY <1>7, <1>10 DEF k, V, W, E, g

\* A document and how its line feeds are set.
Writable(doc_, m) == doc_ \in Seq(Octets) /\ Len(doc_) > 0 /\ m \in Int

\* A place of the packed text: a character of base64, '=' behind the last byte only.
LEMMA PackedChar ==
  ASSUME NEW doc_, NEW m, Writable(doc_, m), NEW k \in 1 .. 4 * B64!Groups(Len(doc_))
  PROVE  B64!Counted(B64!Packed(doc_, k))
<1> DEFINE g == (k - 1) \div 4
           r == (k - 1) % 4
           Byte(b) == IF b <= Len(doc_) THEN doc_[b] ELSE 0
           quad == B64!Quad(Byte(3 * g + 1), Byte(3 * g + 2), Byte(3 * g + 3))
<1>1. Len(doc_) \in Nat /\ doc_ \in Seq(Octets)
  BY DEF Writable
<1>2. k \in Nat /\ k >= 1
  BY <1>1 DEF B64!Groups
<1>3. g \in Nat /\ r \in 0 .. 3
  BY <1>2
<1>4. ASSUME NEW b \in Nat \ {0} PROVE Byte(b) \in Octets
  <2>1. CASE b <= Len(doc_)
    <3>1. b \in 1 .. Len(doc_)
      BY <1>1, <2>1
    <3>2. doc_[b] \in Octets
      BY <1>1, <3>1
    <3> QED BY <2>1, <3>2
  <2>2. CASE ~(b <= Len(doc_))
    BY <2>2 DEF Octets
  <2> QED BY <2>1, <2>2
<1>5. Byte(3 * g + 1) \in Octets /\ Byte(3 * g + 2) \in Octets /\ Byte(3 * g + 3) \in Octets
  <2> HIDE DEF g, Byte
  <2>1. 3 * g + 1 \in Nat \ {0} /\ 3 * g + 2 \in Nat \ {0} /\ 3 * g + 3 \in Nat \ {0}
    BY <1>3
  <2> QED BY <1>4, <2>1
<1>6. quad[r + 1] \in 0 .. 63
  <2> DEFINE a == Byte(3 * g + 1)
             b == Byte(3 * g + 2)
             c == Byte(3 * g + 3)
  <2>1. a \in Octets /\ b \in Octets /\ c \in Octets
    BY <1>5
  <2>2. quad = B64!Quad(a, b, c)
    OBVIOUS
  <2> HIDE DEF a, b, c, r, quad
  <2>3. quad[1] \in 0 .. 63 /\ quad[2] \in 0 .. 63 /\ quad[3] \in 0 .. 63 /\ quad[4] \in 0 .. 63
    BY <2>1, <2>2, QuadChars DEF B64!Quad
  <2>4. r + 1 \in {1, 2, 3, 4}
    BY <1>3
  <2> QED BY <2>3, <2>4
<1>7. B64!Packed(doc_, k) = IF 3 * g + r > Len(doc_) THEN B64!Equals ELSE quad[r + 1]
  BY DEF B64!Packed
<1> HIDE DEF g, r, quad
<1>8. \A v \in 0 .. 63 : B64!Counted(v)
  BY DEF B64!Counted, B64!Equals
<1>9. B64!Counted(B64!Equals)
  BY DEF B64!Counted, B64!Equals
<1> QED BY <1>6, <1>7, <1>8, <1>9

\* What is written: a line feed, or the next character.
LEMMA WrittenNext ==
  ASSUME NEW doc_, NEW m, Writable(doc_, m), NEW j \in 1 .. B64!EncodedLen(Len(doc_), m)
  PROVE  LET c == B64!Encode(doc_, m)[j]
             n == InText(doc_, m, j)
             before == InText(doc_, m, j - 1)
         IN  /\ before \in 0 .. 4 * B64!Groups(Len(doc_))
             /\ \/ n = before /\ ~B64!Counted(c)
                \/ n = before + 1 /\ n <= 4 * B64!Groups(Len(doc_)) /\ c = B64!Packed(doc_, n)
<1> DEFINE G == 4 * B64!Groups(Len(doc_))
           V == B64!Width + 1
           feeds == IF m <= 1 THEN 0 ELSE (j - 1) \div V
           feed == j - feeds > G \/ (m > 1 /\ j % V = 0)
           c == B64!Encode(doc_, m)[j]
           n == InText(doc_, m, j)
           before == InText(doc_, m, j - 1)
           p == (j - 1) \div V
           q == j \div V
<1>1. Len(doc_) \in Nat \ {0} /\ m \in Int /\ V \in Nat \ {0} /\ G \in Nat
  BY WidthIs DEF Writable, B64!Groups
<1>2. c = IF feed THEN B64!Newline ELSE B64!Packed(doc_, j - feeds)
  BY DEF B64!Encode
<1>3. m <= 1 => B64!EncodedLen(Len(doc_), m) = G
  BY <1>1 DEF B64!EncodedLen, B64!Breaks
<1>4. B64!EncodedLen(Len(doc_), m) \in Nat
  <2>1. CASE m <= 1
    BY <1>1, <1>3, <2>1
  <2>2. CASE m > 1
    BY <1>1, <2>2, FeedsCounted
  <2> QED BY <1>1, <2>1, <2>2
<1>5. j \in Nat \ {0} /\ (m <= 1 => j <= G)
  BY <1>3, <1>4
<1>6. /\ j % V = 0 => q = p + 1
      /\ j % V # 0 => q = p
      /\ p \in Nat /\ p <= j - 1
  BY <1>1, <1>5, DivNext, Zenon
<1>7. /\ n = IF m <= 1 THEN (IF j < G THEN j ELSE G) ELSE IF j - q < G THEN j - q ELSE G
      /\ before = IF m <= 1 THEN (IF j - 1 < G THEN j - 1 ELSE G)
                  ELSE IF (j - 1) - p < G THEN (j - 1) - p ELSE G
  BY DEF InText
<1>8. feed => ~B64!Counted(c)
  BY <1>2 DEF B64!Newline, B64!Counted, B64!Equals
<1>9. /\ before \in 0 .. G
      /\ feed => n = before
      /\ ~feed => n = before + 1 /\ n <= G /\ n = j - feeds
  <2>1. feeds = IF m <= 1 THEN 0 ELSE p
    OBVIOUS
  <2> DEFINE multiple == j % V = 0
  <2>2. feed <=> (j - feeds > G \/ (m > 1 /\ multiple))
    OBVIOUS
  <2>3. (multiple => q = p + 1) /\ (~multiple => q = p)
    BY <1>6
  <2> HIDE DEF G, V, feeds, feed, n, before, p, q, multiple
  <2>4. CASE m <= 1
    BY <1>1, <1>5, <1>7, <2>1, <2>2, <2>4
  <2>5. CASE m > 1
    BY <1>1, <1>5, <1>6, <1>7, <2>1, <2>2, <2>3, <2>5
  <2> QED BY <1>1, <2>4, <2>5
<1> HIDE DEF feed, feeds, c, n, before
<1>10. \/ n = before /\ ~B64!Counted(c)
       \/ n = before + 1 /\ n <= G /\ c = B64!Packed(doc_, n)
  BY <1>2, <1>8, <1>9
<1> QED BY <1>9, <1>10 DEF c, n, before

\* base64_decode keeps of a text exactly what base64_encode packed.
LEMMA KeptPacked ==
  ASSUME NEW doc_, NEW m, Writable(doc_, m)
  PROVE  B64!Kept(B64!Encode(doc_, m)) = [k \in 1 .. 4 * B64!Groups(Len(doc_)) |-> B64!Packed(doc_, k)]
<1> DEFINE G == 4 * B64!Groups(Len(doc_))
           E == B64!EncodedLen(Len(doc_), m)
           t == B64!Encode(doc_, m)
           Upto(n) == [k \in 1 .. n |-> B64!Packed(doc_, k)]
           f == [i \in 0 .. E |-> Upto(InText(doc_, m, i))]
<1>1. Len(doc_) \in Nat \ {0} /\ m \in Int /\ G \in Nat
  BY DEF Writable, B64!Groups
<1>2. E \in Nat /\ InText(doc_, m, E) = G /\ InText(doc_, m, 0) = 0
  <2>1. CASE m <= 1
    BY <1>1, <2>1 DEF B64!EncodedLen, B64!Breaks, InText
  <2>2. CASE m > 1
    <3>1. E \in Nat /\ E - E \div (B64!Width + 1) >= G
      BY <1>1, <2>2, FeedsCounted
    <3>2. E \div (B64!Width + 1) \in Nat /\ 0 \div (B64!Width + 1) = 0
      <4> DEFINE V == B64!Width + 1
      <4>1. V \in Nat \ {0}
        BY WidthIs
      <4> HIDE DEF V
      <4>2. E \div V \in Nat
        BY <3>1, <4>1, DivRest
      <4>3. (1 - 1) \div V \in Nat /\ (1 - 1) \div V <= 1 - 1
        BY <4>1, DivNext
      <4>4. 0 \div V = 0
        BY <4>3
      <4> QED BY <4>2, <4>4 DEF V
    <3>3. ~(E - E \div (B64!Width + 1) < G) /\ ~(m <= 1)
      BY <1>1, <2>2, <3>1, <3>2
    <3> QED BY <1>1, <3>1, <3>2, <3>3 DEF InText
  <2> QED BY <1>1, <2>1, <2>2
<1>3. Len(t) = E
  BY <1>2 DEF B64!Encode
<1> HIDE DEF E, t
<1>4. ASSUME NEW i \in 1 .. E
      PROVE  f[i] = IF B64!Counted(t[i]) THEN Append(f[i - 1], t[i]) ELSE f[i - 1]
  <2>1. i \in 0 .. E /\ i - 1 \in 0 .. E
    BY <1>2
  <2> DEFINE n == InText(doc_, m, i)
             before == InText(doc_, m, i - 1)
             c == t[i]
  <2>2. f[i] = Upto(n) /\ f[i - 1] = Upto(before)
    BY <2>1
  <2>3. /\ before \in 0 .. G
        /\ \/ n = before /\ ~B64!Counted(c)
           \/ n = before + 1 /\ n <= G /\ c = B64!Packed(doc_, n)
    BY WrittenNext DEF E, t
  <2> HIDE DEF n, before, c, f
  <2>4. CASE n = before /\ ~B64!Counted(c)
    BY <2>2, <2>4 DEF c
  <2>5. CASE n = before + 1 /\ n <= G /\ c = B64!Packed(doc_, n)
    <3>1. before \in Nat /\ n \in 1 .. G
      BY <1>1, <2>3, <2>5
    <3>2. B64!Counted(c)
      BY <2>5, <3>1, PackedChar
    <3> HIDE DEF G
    <3>3. Upto(n) = Append(Upto(before), c)
      BY <2>5, <3>1
    <3> QED BY <2>2, <3>2, <3>3 DEF c
  <2> QED BY <2>3, <2>4, <2>5
<1>5. f[0] = <<>>
  <2>1. 0 \in 0 .. E
    BY <1>2
  <2> QED BY <1>2, <2>1
<1>6. KeptSoFar(f, t)
  <2>1. f = [i \in 0 .. E |-> f[i]]
    OBVIOUS
  <2> HIDE DEF f
  <2>2. \A i \in 0 .. E : f[i] = IF i = 0 THEN <<>>
                                 ELSE IF B64!Counted(t[i]) THEN Append(f[i - 1], t[i]) ELSE f[i - 1]
    <3> TAKE i \in 0 .. E
    <3>1. CASE i = 0
      BY <1>5, <3>1
    <3>2. CASE i # 0
      <4>1. i \in 1 .. E
        BY <1>2, <3>2
      <4> QED BY <1>4, <3>2, <4>1
    <3> QED BY <3>1, <3>2
  <2> QED BY <1>3, <2>1, <2>2 DEF KeptSoFar
<1>7. B64!Kept(t) = f[E]
  <2>1. Len(t) \in Nat
    BY <1>2, <1>3
  <2> HIDE DEF f
  <2> QED BY <1>3, <1>6, <2>1, KeptIs
<1>8. f[E] = Upto(G)
  BY <1>2
<1> QED BY <1>7, <1>8 DEF t

\* A byte of the document, or the zero that fills up the last three.
OrZero(doc_, b) == IF b <= Len(doc_) THEN doc_[b] ELSE 0

\* The i-th character of the b-th four.
LEMMA PackedFour ==
  ASSUME NEW doc_, NEW m, Writable(doc_, m), NEW b \in 1 .. B64!Groups(Len(doc_)), NEW i \in 1 .. 4
  PROVE  B64!Packed(doc_, 4 * b - 4 + i) =
           IF 3 * b - 4 + i > Len(doc_) THEN B64!Equals
           ELSE B64!Quad(OrZero(doc_, 3 * b - 2), OrZero(doc_, 3 * b - 1), OrZero(doc_, 3 * b))[i]
<1> DEFINE k == 4 * b - 4 + i
           g == (k - 1) \div 4
           r == (k - 1) % 4
<1>1. Len(doc_) \in Nat
  BY DEF Writable
<1>2. b \in Int /\ i \in Int
  BY <1>1 DEF B64!Groups
<1>3. g = b - 1 /\ r = i - 1
  BY <1>2
<1>4. B64!Packed(doc_, k) =
        IF 3 * g + r > Len(doc_) THEN B64!Equals
        ELSE B64!Quad(OrZero(doc_, 3 * g + 1), OrZero(doc_, 3 * g + 2), OrZero(doc_, 3 * g + 3))[r + 1]
  BY DEF B64!Packed, OrZero
<1> HIDE DEF k, g, r
<1>5. /\ 3 * g + 1 = 3 * b - 2 /\ 3 * g + 2 = 3 * b - 1 /\ 3 * g + 3 = 3 * b
      /\ 3 * g + r = 3 * b - 4 + i /\ r + 1 = i
  BY <1>2, <1>3
<1>6. B64!Packed(doc_, k) =
        IF 3 * b - 4 + i > Len(doc_) THEN B64!Equals
        ELSE B64!Quad(OrZero(doc_, 3 * b - 2), OrZero(doc_, 3 * b - 1), OrZero(doc_, 3 * b))[i]
  BY <1>4, <1>5, Zenon
<1> QED BY <1>6 DEF k

\* base64_decode, from the characters that count: the document.
LEMMA PackedDecodes ==
  ASSUME NEW doc_, NEW m, Writable(doc_, m), NEW t,
         B64!Kept(t) = [k \in 1 .. 4 * B64!Groups(Len(doc_)) |-> B64!Packed(doc_, k)]
  PROVE  B64!Decode(t) = doc_
<1> DEFINE n == Len(doc_)
           G == B64!Groups(n)
           kept == B64!Kept(t)
           Block(b) == SubSeq(kept, 4 * b - 3, 4 * b)
           Pads(b) == B64!Pad(Block(b)[1]) + B64!Pad(Block(b)[2])
                        + B64!Pad(Block(b)[3]) + B64!Pad(Block(b)[4])
           A(b) == OrZero(doc_, 3 * b - 2)
           B(b) == OrZero(doc_, 3 * b - 1)
           C(b) == OrZero(doc_, 3 * b)
           quad(b) == B64!Quad(A(b), B(b), C(b))
<1>1. n \in Nat \ {0} /\ doc_ \in Seq(Octets) /\ doc_ = [i \in 1 .. n |-> doc_[i]]
  BY DEF Writable
<1>2. G \in Nat \ {0} /\ 3 * G - 3 < n /\ n <= 3 * G
  BY <1>1 DEF B64!Groups
<1>3. Len(kept) = 4 * G /\ \A k \in 1 .. 4 * G : kept[k] = B64!Packed(doc_, k)
  BY <1>2
<1> DEFINE Chars == {B64!Packed(doc_, k) : k \in 1 .. 4 * G}
<1>15. kept \in Seq(Chars)
  BY <1>2
<1> HIDE DEF n, G, kept, Chars
<1>4. ASSUME NEW b \in 1 .. G, NEW i \in 1 .. 4
      PROVE  Block(b)[i] = IF 3 * b - 4 + i > n THEN B64!Equals ELSE quad(b)[i]
  <2>1. b \in Int /\ i \in Int /\ 4 * b - 3 >= 1 /\ 4 * b <= 4 * G /\ 4 * b - 4 + i \in 1 .. 4 * G
    BY <1>2
  <2>2. Block(b)[i] = kept[4 * b - 4 + i]
    <3>1. 4 * b - 3 \in Int /\ 4 * b \in Int /\ i \in 1 .. 4 * b + 1 - (4 * b - 3)
      BY <2>1
    <3>2. Block(b)[i] = kept[i + (4 * b - 3) - 1]
      BY <1>3, <1>15, <2>1, <3>1
    <3>3. i + (4 * b - 3) - 1 = 4 * b - 4 + i
      BY <2>1
    <3> QED BY <3>2, <3>3
  <2>3. B64!Packed(doc_, 4 * b - 4 + i) = IF 3 * b - 4 + i > n THEN B64!Equals ELSE quad(b)[i]
    BY PackedFour DEF G, n
  <2> QED BY <1>3, <2>1, <2>2, <2>3
<1>5. ASSUME NEW b \in 1 .. G
      PROVE  /\ A(b) \in Octets /\ B(b) \in Octets /\ C(b) \in Octets
             /\ \A i \in 1 .. 4 : quad(b)[i] \in 0 .. 63
             /\ quad(b)[1] = A(b) \div 4 /\ quad(b)[2] = (A(b) % 4) * 16 + B(b) \div 16
             /\ quad(b)[3] = (B(b) % 16) * 4 + C(b) \div 64 /\ quad(b)[4] = C(b) % 64
  <2>1. \A x \in Nat \ {0} : OrZero(doc_, x) \in Octets
    <3> TAKE x \in Nat \ {0}
    <3>1. CASE x <= n
      <4>1. x \in 1 .. Len(doc_)
        BY <1>1, <3>1 DEF n
      <4> QED BY <1>1, <3>1, <4>1 DEF OrZero, n
    <3>2. CASE ~(x <= n)
      BY <3>2 DEF OrZero, Octets, n
    <3> QED BY <3>1, <3>2
  <2>2. 3 * b - 2 \in Nat \ {0} /\ 3 * b - 1 \in Nat \ {0} /\ 3 * b \in Nat \ {0}
    BY <1>2
  <2>3. A(b) \in Octets /\ B(b) \in Octets /\ C(b) \in Octets
    BY <2>1, <2>2
  <2> HIDE DEF A, B, C
  <2>4. /\ quad(b)[1] = A(b) \div 4 /\ quad(b)[2] = (A(b) % 4) * 16 + B(b) \div 16
        /\ quad(b)[3] = (B(b) % 16) * 4 + C(b) \div 64 /\ quad(b)[4] = C(b) % 64
    BY DEF B64!Quad
  <2>5. quad(b)[1] \in 0 .. 63 /\ quad(b)[2] \in 0 .. 63 /\ quad(b)[3] \in 0 .. 63 /\ quad(b)[4] \in 0 .. 63
    BY <2>3, <2>4, QuadChars
  <2> HIDE DEF quad
  <2>6. \A i \in 1 .. 4 : quad(b)[i] \in 0 .. 63
    <3> TAKE i \in 1 .. 4
    <3>1. i \in {1, 2, 3, 4}
      OBVIOUS
    <3> QED BY <2>5, <3>1
  <2> QED BY <2>3, <2>4, <2>6
<1> HIDE DEF A, B, C, quad, Block
<1>16. \A v \in 0 .. 63 : v # B64!Equals
  BY DEF B64!Equals
<1>6. ASSUME NEW b \in 1 .. G, NEW i \in 1 .. 4
      PROVE  B64!Pad(Block(b)[i]) = IF 3 * b - 4 + i > n THEN 1 ELSE 0
  <2>1. quad(b)[i] \in 0 .. 63
    BY <1>5
  <2>2. quad(b)[i] # B64!Equals
    BY <1>16, <2>1
  <2>3. Block(b)[i] = B64!Equals <=> 3 * b - 4 + i > n
    BY <1>4, <2>2
  <2> QED BY <2>3 DEF B64!Pad
<1>17. ASSUME NEW b \in 1 .. G
       PROVE  /\ B64!Pad(Block(b)[1]) = IF 3 * b - 3 > n THEN 1 ELSE 0
              /\ B64!Pad(Block(b)[2]) = IF 3 * b - 2 > n THEN 1 ELSE 0
              /\ B64!Pad(Block(b)[3]) = IF 3 * b - 1 > n THEN 1 ELSE 0
              /\ B64!Pad(Block(b)[4]) = IF 3 * b > n THEN 1 ELSE 0
  <2>1. b \in Int /\ 1 \in 1 .. 4 /\ 2 \in 1 .. 4 /\ 3 \in 1 .. 4 /\ 4 \in 1 .. 4
    BY <1>2
  <2>2. /\ B64!Pad(Block(b)[1]) = IF 3 * b - 4 + 1 > n THEN 1 ELSE 0
        /\ B64!Pad(Block(b)[2]) = IF 3 * b - 4 + 2 > n THEN 1 ELSE 0
        /\ B64!Pad(Block(b)[3]) = IF 3 * b - 4 + 3 > n THEN 1 ELSE 0
        /\ B64!Pad(Block(b)[4]) = IF 3 * b - 4 + 4 > n THEN 1 ELSE 0
    BY <1>6, <2>1
  <2>3. 3 * b - 4 + 1 = 3 * b - 3 /\ 3 * b - 4 + 2 = 3 * b - 2 /\ 3 * b - 4 + 3 = 3 * b - 1
        /\ 3 * b - 4 + 4 = 3 * b
    BY <2>1
  <2> QED BY <2>2, <2>3, Zenon
<1>7. ASSUME NEW b \in 1 .. G, b < G PROVE Pads(b) = 0
  <2>1. ~(3 * b - 3 > n) /\ ~(3 * b - 2 > n) /\ ~(3 * b - 1 > n) /\ ~(3 * b > n)
    BY <1>1, <1>2, <1>7
  <2> QED BY <1>17, <2>1
<1>8. G \in 1 .. G /\ Pads(G) = 3 * G - n
  <2>1. G \in 1 .. G
    BY <1>2
  <2> DEFINE p(i) == B64!Pad(Block(G)[i])
  <2>2. /\ p(1) = IF 3 * G - 3 > n THEN 1 ELSE 0
        /\ p(2) = IF 3 * G - 2 > n THEN 1 ELSE 0
        /\ p(3) = IF 3 * G - 1 > n THEN 1 ELSE 0
        /\ p(4) = IF 3 * G > n THEN 1 ELSE 0
    BY <1>17, <2>1
  <2>3. Pads(G) = p(1) + p(2) + p(3) + p(4)
    OBVIOUS
  <2> HIDE DEF Pads, p
  <2> QED BY <1>1, <1>2, <2>1, <2>2, <2>3
<1> HIDE DEF Pads
<1> DEFINE last == CHOOSE b \in 1 .. G : /\ \A a \in 1 .. b - 1 : Pads(a) = 0
                                         /\ Pads(b) > 0 \/ b = G
<1>9. last = G
  <2> DEFINE Last(b) == (\A a \in 1 .. b - 1 : Pads(a) = 0) /\ (Pads(b) > 0 \/ b = G)
  <2>1. Last(G)
    BY <1>2, <1>7
  <2>2. \A b \in 1 .. G : Last(b) => b = G
    BY <1>2, <1>7
  <2> QED BY <1>8, <2>1, <2>2
<1>10. ASSUME NEW i \in 1 .. n
       PROVE  B64!Triple(Block((i - 1) \div 3 + 1))[((i - 1) % 3) + 1] = doc_[i]
  <2> DEFINE b == (i - 1) \div 3 + 1
             r == ((i - 1) % 3) + 1
  <2>1. i \in Nat /\ b \in 1 .. G /\ b \in Int /\ r \in {1, 2, 3} /\ i = 3 * b - 3 + r
    <3>1. i \in Nat /\ 1 <= i /\ i <= 3 * G
      BY <1>1, <1>2
    <3>2. b \in Int /\ b >= 1 /\ r \in {1, 2, 3} /\ i = 3 * b - 3 + r
      BY <3>1
    <3> HIDE DEF b, r
    <3>3. b <= G
      BY <1>2, <3>1, <3>2
    <3> QED BY <1>2, <3>1, <3>2, <3>3
  <2> HIDE DEF b, r
  <2>2. \A j \in 1 .. 4 : j <= r + 1 => B64!Value(Block(b)[j]) = quad(b)[j]
    <3> SUFFICES ASSUME NEW j \in 1 .. 4, j <= r + 1 PROVE B64!Value(Block(b)[j]) = quad(b)[j]
      OBVIOUS
    <3>1. ~(3 * b - 4 + j > n)
      BY <1>1, <2>1
    <3>2. Block(b)[j] = quad(b)[j]
      BY <1>4, <2>1, <3>1
    <3>3. quad(b)[j] \in 0 .. 63
      BY <1>5, <2>1
    <3>4. quad(b)[j] # B64!Equals
      BY <1>16, <3>3
    <3> QED BY <3>2, <3>4 DEF B64!Value
  <2>3. /\ r = 1 => i = 3 * b - 2 /\ doc_[i] = A(b)
        /\ r = 2 => i = 3 * b - 1 /\ doc_[i] = B(b)
        /\ r = 3 => i = 3 * b /\ doc_[i] = C(b)
    BY <1>1, <2>1 DEF A, B, C, OrZero, n
  <2>4. /\ A(b) \in Octets /\ B(b) \in Octets /\ C(b) \in Octets
        /\ quad(b)[1] = A(b) \div 4 /\ quad(b)[2] = (A(b) % 4) * 16 + B(b) \div 16
        /\ quad(b)[3] = (B(b) % 16) * 4 + C(b) \div 64 /\ quad(b)[4] = C(b) % 64
    BY <1>5, <2>1
  <2>5. /\ (quad(b)[1] * 4 + quad(b)[2] \div 16) % 256 = A(b)
        /\ (quad(b)[2] * 16 + quad(b)[3] \div 4) % 256 = B(b)
        /\ (quad(b)[3] * 64 + quad(b)[4]) % 256 = C(b)
    <3> DEFINE d == A(b)
               e == B(b)
               f == C(b)
    <3>1. d \in Octets /\ e \in Octets /\ f \in Octets
      BY <2>4
    <3> HIDE DEF d, e, f
    <3>2. /\ ((d \div 4) * 4 + ((d % 4) * 16 + e \div 16) \div 16) % 256 = d
          /\ (((d % 4) * 16 + e \div 16) * 16 + ((e % 16) * 4 + f \div 64) \div 4) % 256 = e
          /\ (((e % 16) * 4 + f \div 64) * 64 + (f % 64)) % 256 = f
      BY <3>1, QuadBack
    <3>3. /\ quad(b)[1] = d \div 4 /\ quad(b)[2] = (d % 4) * 16 + e \div 16
          /\ quad(b)[3] = (e % 16) * 4 + f \div 64 /\ quad(b)[4] = f % 64
      BY <2>4 DEF d, e, f
    <3>4. /\ (quad(b)[1] * 4 + quad(b)[2] \div 16) % 256 = d
          /\ (quad(b)[2] * 16 + quad(b)[3] \div 4) % 256 = e
          /\ (quad(b)[3] * 64 + quad(b)[4]) % 256 = f
      BY <3>2, <3>3, Zenon
    <3> QED BY <3>4 DEF d, e, f
  <2> DEFINE x == Block(b)
  <2>6. B64!Triple(x) = << (B64!Value(x[1]) * 4 + B64!Value(x[2]) \div 16) % 256,
                           (B64!Value(x[2]) * 16 + B64!Value(x[3]) \div 4) % 256,
                           (B64!Value(x[3]) * 64 + B64!Value(x[4])) % 256 >>
    BY DEF B64!Triple
  <2>7. /\ B64!Triple(x)[1] = (B64!Value(x[1]) * 4 + B64!Value(x[2]) \div 16) % 256
        /\ B64!Triple(x)[2] = (B64!Value(x[2]) * 16 + B64!Value(x[3]) \div 4) % 256
        /\ B64!Triple(x)[3] = (B64!Value(x[3]) * 64 + B64!Value(x[4])) % 256
    <3> DEFINE u == (B64!Value(x[1]) * 4 + B64!Value(x[2]) \div 16) % 256
               v == (B64!Value(x[2]) * 16 + B64!Value(x[3]) \div 4) % 256
               w == (B64!Value(x[3]) * 64 + B64!Value(x[4])) % 256
    <3>1. B64!Triple(x) = <<u, v, w>>
      BY <2>6
    <3> HIDE DEF u, v, w
    <3>2. B64!Triple(x)[1] = u /\ B64!Triple(x)[2] = v /\ B64!Triple(x)[3] = w
      BY <3>1
    <3> QED BY <3>2 DEF u, v, w
  <2>8. B64!Triple(x)[r] = doc_[i]
    <3>1. CASE r = 1
      <4>1. B64!Value(x[1]) = quad(b)[1] /\ B64!Value(x[2]) = quad(b)[2]
        BY <2>2, <3>1
      <4>2. B64!Triple(x)[1] = (quad(b)[1] * 4 + quad(b)[2] \div 16) % 256
        BY <2>7, <4>1, Zenon
      <4>3. B64!Triple(x)[1] = A(b)
        BY <2>5, <4>2, Zenon
      <4> QED BY <2>3, <3>1, <4>3, Zenon
    <3>2. CASE r = 2
      <4>1. B64!Value(x[2]) = quad(b)[2] /\ B64!Value(x[3]) = quad(b)[3]
        BY <2>2, <3>2
      <4>2. B64!Triple(x)[2] = (quad(b)[2] * 16 + quad(b)[3] \div 4) % 256
        BY <2>7, <4>1, Zenon
      <4>3. B64!Triple(x)[2] = B(b)
        BY <2>5, <4>2, Zenon
      <4> QED BY <2>3, <3>2, <4>3, Zenon
    <3>3. CASE r = 3
      <4>1. B64!Value(x[3]) = quad(b)[3] /\ B64!Value(x[4]) = quad(b)[4]
        BY <2>2, <3>3
      <4>2. B64!Triple(x)[3] = (quad(b)[3] * 64 + quad(b)[4]) % 256
        BY <2>7, <4>1, Zenon
      <4>3. B64!Triple(x)[3] = C(b)
        BY <2>5, <4>2, Zenon
      <4> QED BY <2>3, <3>3, <4>3, Zenon
    <3> QED BY <2>1, <3>1, <3>2, <3>3
  <2> QED BY <2>8 DEF b, r
<1>11. Len(kept) \div 4 = G /\ Len(kept) % 4 = 0
  BY <1>2, <1>3
<1>12. B64!Decode(t) = IF G = 0 \/ Len(kept) % 4 # 0 THEN B64!Refused
                       ELSE IF Pads(last) > 2 THEN B64!Refused
                       ELSE [i \in 1 .. 3 * last - Pads(last) |->
                               B64!Triple(Block((i - 1) \div 3 + 1))[((i - 1) % 3) + 1]]
  <2> DEFINE blocks == Len(kept) \div 4
             lst == CHOOSE b \in 1 .. blocks : /\ \A a \in 1 .. b - 1 : Pads(a) = 0
                                               /\ Pads(b) > 0 \/ b = blocks
  <2>1. B64!Decode(t) = IF blocks = 0 \/ Len(kept) % 4 # 0 THEN B64!Refused
                        ELSE IF Pads(lst) > 2 THEN B64!Refused
                        ELSE [i \in 1 .. 3 * lst - Pads(lst) |->
                               B64!Triple(Block((i - 1) \div 3 + 1))[((i - 1) % 3) + 1]]
    BY DEF B64!Decode, kept, Pads, Block
  <2>2. blocks = G
    BY <1>11
  <2> HIDE DEF blocks
  <2> QED BY <2>1, <2>2, Zenon
<1> HIDE DEF last
<1>13. ~(Pads(last) > 2) /\ 3 * last - Pads(last) = n
  BY <1>1, <1>2, <1>8, <1>9
<1>14. B64!Decode(t) = [i \in 1 .. n |-> B64!Triple(Block((i - 1) \div 3 + 1))[((i - 1) % 3) + 1]]
  BY <1>2, <1>11, <1>12, <1>13
<1> QED BY <1>1, <1>10, <1>14

\* base64_decode of what base64_encode wrote.
LEMMA EncodedDecodes ==
  ASSUME NEW doc_, NEW m, Writable(doc_, m), NEW t, B64!Kept(t) = B64!Kept(B64!Encode(doc_, m))
  PROVE  B64!Decode(t) = doc_
<1>1. B64!Kept(t) = [k \in 1 .. 4 * B64!Groups(Len(doc_)) |-> B64!Packed(doc_, k)]
  BY KeptPacked
<1> QED BY <1>1, PackedDecodes

\* A sound text is one of those.
LEMMA SoundText ==
  ASSUME NEW i \in Base64Inputs, i.fate = "sound"
  PROVE  B64!Decode(i.text) = i.doc
<1>1. /\ i.doc \in Seq(0 .. 255) /\ Len(i.doc) > 0
      /\ \E m \in Modes : B64!Kept(i.text) = B64!Kept(B64!Encode(i.doc, m))
  BY TextAssumption
<1>2. PICK m \in Modes : B64!Kept(i.text) = B64!Kept(B64!Encode(i.doc, m))
  BY <1>1
<1>3. Writable(i.doc, m)
  BY <1>1, SerialAssumption DEF Writable, Octets
<1> QED BY <1>2, <1>3, EncodedDecodes

\* zmatlib.c: base64_decode gives back every document that base64_encode was given, whatever
\* its length, the left-over bytes, the mode and length of its lines, and the characters
\* between that are not base64.
THEOREM SerialRoundTrip == SerialSpec => []RoundTrip
<1>1. SerialInv => RoundTrip
  <2> SUFFICES ASSUME SerialInv, pc = "ended", codec = "base64", rc = 0, doc.fate = "sound"
               PROVE  B64!Decode(text) = bytes
    BY DEF RoundTrip
  <2>1. CASE op = "encode"
    <3>1. text = B64!Encode(bytes, mode) /\ bytes \in Documents /\ mode \in Modes
      BY <2>1 DEF SerialInv, Base64Inv
    <3>2. bytes \in Seq(Octets) /\ mode \in Int
      BY <3>1, SerialAssumption, TextAssumption DEF Octets
    <3>3. Len(bytes) > 0
      <4> SUFFICES ASSUME Len(bytes) = 0 PROVE FALSE
        BY <3>2
      <4>1. B64!EncodedLen(0, mode) = 0
        <5>1. B64!Groups(0) = 0 /\ 4 * (0 \div 3) = 0
          BY DEF B64!Groups
        <5>2. 0 \div B64!Width = 0
          BY WidthIs
        <5>3. B64!Width \in Nat \ {0} /\ 0 * B64!Width = 0
          BY WidthIs
        <5>4. ~(4 * B64!Groups(0) > 0 * B64!Width)
          BY <5>1, <5>3
        <5>5. B64!Breaks(0, mode) = 0
          BY <5>1, <5>2, <5>4 DEF B64!Breaks
        <5> QED BY <5>1, <5>5 DEF B64!EncodedLen
      <4>2. Len(B64!Encode(bytes, mode)) = 0
        BY <4>1 DEF B64!Encode
      <4>3. Len(B64!Encode(bytes, mode)) \in Lengths
        BY <3>1 DEF Lengths
      <4> QED BY <4>2, <4>3, SerialAssumption
    <3>4. Writable(bytes, mode)
      BY <3>2, <3>3 DEF Writable
    <3> QED BY <3>1, <3>4, EncodedDecodes
  <2>2. CASE op # "encode"
    <3>1. PICK i \in Base64Inputs :
                 bytes = i.doc /\ text = i.text /\ doc = [size |-> i.size, fate |-> i.fate]
      BY <2>2 DEF SerialInv, TextInv
    <3>2. i.fate = "sound"
      BY <3>1
    <3> QED BY <3>1, <3>2, SoundText
  <2> QED BY <2>1, <2>2
<1> QED BY <1>1, SerialInitInv, SerialStepInv, PTL DEF SerialSpec

-----------------------------------------------------------------------------
(* What the gzip reader answers *)

\* Where each field of the header begins.
AtName(i) == 10 + (IF "FEXTRA" \in i.flags THEN i.fields + 2 ELSE 0)
AtComment(i) == AtName(i) + (IF "FNAME" \in i.flags THEN i.fields + 1 ELSE 0)
AtHcrc(i) == AtComment(i) + (IF "FCOMMENT" \in i.flags THEN i.fields + 1 ELSE 0)

Roles == {"base", "xlen", "any", "char", "nul", "hcrc", "data", "crc", "len"}

\* One sequence behind another.
LEMMA Joined ==
  \A s, t \in Seq(Roles) :
    /\ s \o t \in Seq(Roles) /\ Len(s \o t) = Len(s) + Len(t)
    /\ \A k \in 1 .. Len(s) + Len(t) : (s \o t)[k] = IF k <= Len(s) THEN s[k] ELSE t[k - Len(s)]
<1> SUFFICES ASSUME NEW s \in Seq(Roles), NEW t \in Seq(Roles)
             PROVE  /\ s \o t \in Seq(Roles) /\ Len(s \o t) = Len(s) + Len(t)
                    /\ \A k \in 1 .. Len(s) + Len(t) :
                         (s \o t)[k] = IF k <= Len(s) THEN s[k] ELSE t[k - Len(s)]
  OBVIOUS
<1>1. s \o t \in Seq(Roles) /\ Len(s \o t) = Len(s) + Len(t)
  OBVIOUS
<1>2. \A k \in 1 .. Len(s) + Len(t) : (s \o t)[k] = IF k <= Len(s) THEN s[k] ELSE t[k - Len(s)]
  OBVIOUS
<1> QED BY <1>1, <1>2

\* One byte, n times.
LEMMA RepIs ==
  \A n \in Nat, b \in Roles :
    /\ Gzip!Rep(n, b) \in Seq(Roles) /\ Len(Gzip!Rep(n, b)) = n
    /\ \A k \in 1 .. n : Gzip!Rep(n, b)[k] = b
BY DEF Gzip!Rep

\* The roles that headers are made of.
LEMMA RolesAre ==
  /\ "base" \in Roles /\ "xlen" \in Roles /\ "any" \in Roles /\ "char" \in Roles /\ "nul" \in Roles
  /\ "hcrc" \in Roles /\ "data" \in Roles /\ "crc" \in Roles /\ "len" \in Roles
BY DEF Roles

\* A text in the header and the zero that ends it.
LEMMA TextIs ==
  ASSUME NEW n \in Nat
  PROVE  LET s == Gzip!Rep(n, "char") \o <<"nul">>
         IN  /\ s \in Seq(Roles) /\ Len(s) = n + 1
             /\ \A k \in 1 .. n : s[k] = "char"
             /\ s[n + 1] = "nul"
<1> DEFINE r == Gzip!Rep(n, "char")
           z == <<"nul">>
<1>1. r \in Seq(Roles) /\ Len(r) = n /\ \A k \in 1 .. n : r[k] = "char"
  BY RolesAre, RepIs
<1>2. z \in Seq(Roles) /\ Len(z) = 1 /\ z[1] = "nul"
  BY DEF Roles
<1> HIDE DEF r, z
<1>3. /\ r \o z \in Seq(Roles) /\ Len(r \o z) = n + 1
      /\ \A k \in 1 .. n + 1 : (r \o z)[k] = IF k <= n THEN r[k] ELSE z[k - n]
  BY <1>1, <1>2, Joined
<1>4. (r \o z)[n + 1] = "nul"
  BY <1>2, <1>3
<1>5. \A k \in 1 .. n : (r \o z)[k] = "char"
  BY <1>1, <1>3
<1> QED BY <1>3, <1>4, <1>5 DEF r, z

\* The fields of a header, each where it is.
LEMMA HeaderIs ==
  ASSUME NEW i, i.fields \in Nat
  PROVE  LET h == Gzip!HeaderOf(i.flags, i.fields)
         IN  /\ h \in Seq(Roles)
             /\ Len(h) = AtHcrc(i) + (IF "FHCRC" \in i.flags THEN 2 ELSE 0)
             /\ {AtName(i), AtComment(i), AtHcrc(i)} \subseteq Nat
             /\ "FNAME" \in i.flags =>
                  /\ \A k \in 1 .. i.fields : h[AtName(i) + k] = "char"
                  /\ h[AtName(i) + i.fields + 1] = "nul"
             /\ "FCOMMENT" \in i.flags =>
                  /\ \A k \in 1 .. i.fields : h[AtComment(i) + k] = "char"
                  /\ h[AtComment(i) + i.fields + 1] = "nul"
             /\ "FHCRC" \in i.flags => h[AtHcrc(i) + 1] = "hcrc" /\ h[AtHcrc(i) + 2] = "hcrc"
<1> DEFINE n == i.fields
           base == Gzip!Rep(10, "base")
           extra == IF "FEXTRA" \in i.flags THEN Gzip!Rep(2, "xlen") \o Gzip!Rep(n, "any") ELSE <<>>
           name == IF "FNAME" \in i.flags THEN Gzip!Rep(n, "char") \o <<"nul">> ELSE <<>>
           comment == IF "FCOMMENT" \in i.flags THEN Gzip!Rep(n, "char") \o <<"nul">> ELSE <<>>
           hcrc == IF "FHCRC" \in i.flags THEN Gzip!Rep(2, "hcrc") ELSE <<>>
           h == Gzip!HeaderOf(i.flags, n)
<1>1. base \in Seq(Roles) /\ Len(base) = 10
  <2>1. 10 \in Nat
    OBVIOUS
  <2> QED BY <2>1, RolesAre, RepIs
<1>2. extra \in Seq(Roles) /\ Len(extra) = IF "FEXTRA" \in i.flags THEN n + 2 ELSE 0
  <2>1. CASE "FEXTRA" \in i.flags
    <3> DEFINE x == Gzip!Rep(2, "xlen")
               y == Gzip!Rep(n, "any")
    <3>1. x \in Seq(Roles) /\ Len(x) = 2 /\ y \in Seq(Roles) /\ Len(y) = n
      <4>1. 2 \in Nat
        OBVIOUS
      <4> QED BY <4>1, RolesAre, RepIs
    <3>2. extra = x \o y
      BY <2>1
    <3> HIDE DEF x, y, extra
    <3>3. x \o y \in Seq(Roles) /\ Len(x \o y) = Len(x) + Len(y)
      BY <3>1, Joined, Zenon
    <3>4. Len(x) + Len(y) = n + 2
      BY <3>1
    <3> QED BY <2>1, <3>2, <3>3, <3>4, Zenon
  <2>2. CASE ~("FEXTRA" \in i.flags)
    BY <2>2
  <2> QED BY <2>1, <2>2
<1> DEFINE t == Gzip!Rep(n, "char") \o <<"nul">>
<1>17. t \in Seq(Roles) /\ Len(t) = n + 1 /\ (\A k \in 1 .. n : t[k] = "char") /\ t[n + 1] = "nul"
  BY TextIs
<1>18. /\ name = IF "FNAME" \in i.flags THEN t ELSE <<>>
       /\ comment = IF "FCOMMENT" \in i.flags THEN t ELSE <<>>
  OBVIOUS
<1> HIDE DEF t, name, comment
<1>19. <<>> \in Seq(Roles) /\ Len(<<>>) = 0
  OBVIOUS
<1>3. /\ name \in Seq(Roles) /\ Len(name) = IF "FNAME" \in i.flags THEN n + 1 ELSE 0
      /\ "FNAME" \in i.flags => (\A k \in 1 .. n : name[k] = "char") /\ name[n + 1] = "nul"
  <2>1. CASE "FNAME" \in i.flags
    <3>1. name = t
      BY <1>18, <2>1
    <3> QED BY <1>17, <2>1, <3>1
  <2>2. CASE ~("FNAME" \in i.flags)
    <3>1. name = <<>>
      BY <1>18, <2>2
    <3> QED BY <1>19, <2>2, <3>1
  <2> QED BY <2>1, <2>2
<1>4. /\ comment \in Seq(Roles) /\ Len(comment) = IF "FCOMMENT" \in i.flags THEN n + 1 ELSE 0
      /\ "FCOMMENT" \in i.flags => (\A k \in 1 .. n : comment[k] = "char") /\ comment[n + 1] = "nul"
  <2>1. CASE "FCOMMENT" \in i.flags
    <3>1. comment = t
      BY <1>18, <2>1
    <3> QED BY <1>17, <2>1, <3>1
  <2>2. CASE ~("FCOMMENT" \in i.flags)
    <3>1. comment = <<>>
      BY <1>18, <2>2
    <3> QED BY <1>19, <2>2, <3>1
  <2> QED BY <2>1, <2>2
<1>5. /\ hcrc \in Seq(Roles) /\ Len(hcrc) = IF "FHCRC" \in i.flags THEN 2 ELSE 0
      /\ "FHCRC" \in i.flags => hcrc[1] = "hcrc" /\ hcrc[2] = "hcrc"
  <2> DEFINE x == Gzip!Rep(2, "hcrc")
  <2>1. x \in Seq(Roles) /\ Len(x) = 2 /\ \A k \in 1 .. 2 : x[k] = "hcrc"
    <3>1. 2 \in Nat
      OBVIOUS
    <3> QED BY <3>1, RolesAre, RepIs
  <2>2. hcrc = IF "FHCRC" \in i.flags THEN x ELSE <<>>
    OBVIOUS
  <2> HIDE DEF x, hcrc
  <2>3. CASE "FHCRC" \in i.flags
    <3>1. hcrc = x
      BY <2>2, <2>3
    <3> QED BY <2>1, <2>3, <3>1
  <2>4. CASE ~("FHCRC" \in i.flags)
    <3>1. hcrc = <<>>
      BY <2>2, <2>4
    <3> QED BY <1>19, <2>4, <3>1
  <2> QED BY <2>3, <2>4
<1> USE DEF name, comment
<1>6. h = base \o extra \o name \o comment \o hcrc
  BY DEF Gzip!HeaderOf, Gzip!HeaderSize
<1> HIDE DEF base, extra, name, comment, hcrc, h
<1> DEFINE h2 == base \o extra
           h3 == h2 \o name
           h4 == h3 \o comment
<1>7. h2 \in Seq(Roles) /\ Len(h2) = AtName(i) /\ AtName(i) \in Nat
  <2>1. h2 \in Seq(Roles) /\ Len(h2) = Len(base) + Len(extra)
    BY <1>1, <1>2, Joined
  <2> HIDE DEF h2
  <2> QED BY <2>1, <1>1, <1>2 DEF AtName
<1> HIDE DEF h2
<1>8. /\ h3 \in Seq(Roles) /\ Len(h3) = AtComment(i) /\ AtComment(i) \in Nat
      /\ \A k \in 1 .. Len(name) : h3[AtName(i) + k] = name[k]
  <2>1. /\ h3 \in Seq(Roles) /\ Len(h3) = Len(h2) + Len(name)
        /\ \A k \in 1 .. Len(h2) + Len(name) : h3[k] = IF k <= Len(h2) THEN h2[k] ELSE name[k - Len(h2)]
    BY <1>3, <1>7, Joined
  <2> HIDE DEF h3
  <2>2. Len(name) \in Nat
    BY <1>3
  <2>3. AtComment(i) = AtName(i) + Len(name) /\ AtComment(i) \in Nat
    BY <1>3, <1>7 DEF AtComment
  <2>4. \A k \in 1 .. Len(name) : h3[AtName(i) + k] = name[k]
    BY <1>7, <2>1, <2>2
  <2> QED BY <1>7, <2>1, <2>3, <2>4
<1> HIDE DEF h3
<1>9. /\ h4 \in Seq(Roles) /\ Len(h4) = AtHcrc(i) /\ AtHcrc(i) \in Nat
      /\ \A k \in 1 .. Len(comment) : h4[AtComment(i) + k] = comment[k]
      /\ \A k \in 1 .. AtComment(i) : h4[k] = h3[k]
  <2>1. /\ h4 \in Seq(Roles) /\ Len(h4) = Len(h3) + Len(comment)
        /\ \A k \in 1 .. Len(h3) + Len(comment) : h4[k] = IF k <= Len(h3) THEN h3[k] ELSE comment[k - Len(h3)]
    BY <1>4, <1>8, Joined
  <2> HIDE DEF h4
  <2>2. Len(comment) \in Nat
    BY <1>4
  <2>3. AtHcrc(i) = AtComment(i) + Len(comment) /\ AtHcrc(i) \in Nat
    BY <1>4, <1>8 DEF AtHcrc
  <2>4. \A k \in 1 .. Len(comment) : h4[AtComment(i) + k] = comment[k]
    BY <1>8, <2>1, <2>2
  <2>5. \A k \in 1 .. AtComment(i) : h4[k] = h3[k]
    BY <1>8, <2>1, <2>2
  <2> QED BY <1>8, <2>1, <2>3, <2>4, <2>5
<1> HIDE DEF h4
<1>10. /\ h \in Seq(Roles) /\ Len(h) = AtHcrc(i) + Len(hcrc)
       /\ \A k \in 1 .. Len(hcrc) : h[AtHcrc(i) + k] = hcrc[k]
       /\ \A k \in 1 .. AtHcrc(i) : h[k] = h4[k]
  <2>1. h = h4 \o hcrc
    BY <1>6 DEF h4, h3, h2
  <2>2. /\ h \in Seq(Roles) /\ Len(h) = Len(h4) + Len(hcrc)
        /\ \A k \in 1 .. Len(h4) + Len(hcrc) : h[k] = IF k <= Len(h4) THEN h4[k] ELSE hcrc[k - Len(h4)]
    <3>1. h4 \in Seq(Roles) /\ hcrc \in Seq(Roles)
      BY <1>5, <1>9
    <3> QED BY <2>1, <3>1, Joined
  <2>3. Len(hcrc) \in Nat
    BY <1>5
  <2> QED BY <1>9, <2>2, <2>3
<1>11. "FNAME" \in i.flags => \A k \in 1 .. n + 1 : h[AtName(i) + k] = name[k]
  <2> SUFFICES ASSUME "FNAME" \in i.flags, NEW k \in 1 .. n + 1 PROVE h[AtName(i) + k] = name[k]
    OBVIOUS
  <2>1. AtComment(i) = AtName(i) + n + 1 /\ AtHcrc(i) >= AtComment(i)
    BY <1>7, <1>8 DEF AtComment, AtHcrc
  <2>2. AtName(i) + k \in 1 .. AtComment(i) /\ AtName(i) + k \in 1 .. AtHcrc(i)
    BY <1>7, <1>8, <1>9, <2>1
  <2>3. h[AtName(i) + k] = h3[AtName(i) + k]
    BY <1>9, <1>10, <2>2
  <2> QED BY <1>3, <1>8, <2>3
<1>12. "FCOMMENT" \in i.flags => \A k \in 1 .. n + 1 : h[AtComment(i) + k] = comment[k]
  <2> SUFFICES ASSUME "FCOMMENT" \in i.flags, NEW k \in 1 .. n + 1 PROVE h[AtComment(i) + k] = comment[k]
    OBVIOUS
  <2>1. AtHcrc(i) = AtComment(i) + n + 1
    BY <1>8 DEF AtHcrc
  <2>2. AtComment(i) + k \in 1 .. AtHcrc(i)
    BY <1>8, <2>1
  <2> QED BY <1>4, <1>9, <1>10, <2>2
<1>20. \A k \in 1 .. n : k \in 1 .. n + 1
  OBVIOUS
<1>21. n + 1 \in 1 .. n + 1 /\ AtName(i) + n + 1 = AtName(i) + (n + 1)
       /\ AtComment(i) + n + 1 = AtComment(i) + (n + 1)
  BY <1>7, <1>8
<1>13. "FNAME" \in i.flags =>
         (\A k \in 1 .. n : h[AtName(i) + k] = "char") /\ h[AtName(i) + n + 1] = "nul"
  BY <1>3, <1>11, <1>20, <1>21, Zenon
<1>14. "FCOMMENT" \in i.flags =>
         (\A k \in 1 .. n : h[AtComment(i) + k] = "char") /\ h[AtComment(i) + n + 1] = "nul"
  BY <1>4, <1>12, <1>20, <1>21, Zenon
<1>15. "FHCRC" \in i.flags => h[AtHcrc(i) + 1] = "hcrc" /\ h[AtHcrc(i) + 2] = "hcrc"
  BY <1>5, <1>10
<1>16. Len(h) = AtHcrc(i) + (IF "FHCRC" \in i.flags THEN 2 ELSE 0)
  BY <1>5, <1>10
<1> QED BY <1>7, <1>8, <1>9, <1>10, <1>13, <1>14, <1>15, <1>16 DEF h

\* A member: its header, the packed data, a checksum and a length.
LEMMA MemberIs ==
  ASSUME NEW i, Gzip!IsGzip(i)
  PROVE  LET m == Gzip!Member(i.flags, i.fields, i.packed)
         IN  /\ i.at \in Nat /\ i.at >= 10 /\ i.packed \in Nat /\ Len(m) = i.at + i.packed + 8
             /\ \A k \in 1 .. i.at : m[k] = Gzip!HeaderOf(i.flags, i.fields)[k]
<1> DEFINE h == Gzip!HeaderOf(i.flags, i.fields)
           d == Gzip!Rep(i.packed, "data")
           c == Gzip!Rep(4, "crc")
           l == Gzip!Rep(4, "len")
           m == Gzip!Member(i.flags, i.fields, i.packed)
<1>1. i.fields \in Nat /\ i.packed \in Nat /\ i.at = Len(h)
  BY DEF Gzip!IsGzip
<1>2. h \in Seq(Roles) /\ Len(h) >= 10
  <2>1. h \in Seq(Roles) /\ Len(h) = AtHcrc(i) + (IF "FHCRC" \in i.flags THEN 2 ELSE 0)
    BY <1>1, HeaderIs
  <2>2. AtHcrc(i) >= 10
    BY <1>1 DEF AtHcrc, AtComment, AtName
  <2>3. AtHcrc(i) \in Nat
    BY <1>1, HeaderIs
  <2> HIDE DEF h
  <2> QED BY <2>1, <2>2, <2>3
<1>3. d \in Seq(Roles) /\ Len(d) = i.packed
  BY <1>1, RolesAre, RepIs
<1>4. c \in Seq(Roles) /\ Len(c) = 4 /\ l \in Seq(Roles) /\ Len(l) = 4
  <2>1. 4 \in Nat
    OBVIOUS
  <2> QED BY <2>1, RolesAre, RepIs
<1>5. m = h \o d \o c \o l
  BY DEF Gzip!Member
<1> HIDE DEF h, d, c, l, m
<1> DEFINE a == h \o d
           b == a \o c
<1>6. a \in Seq(Roles) /\ Len(a) = Len(h) + Len(d)
      /\ \A k \in 1 .. Len(h) + Len(d) : a[k] = IF k <= Len(h) THEN h[k] ELSE d[k - Len(h)]
  BY <1>2, <1>3, Joined, Zenon
<1> HIDE DEF a
<1>7. b \in Seq(Roles) /\ Len(b) = Len(a) + Len(c)
      /\ \A k \in 1 .. Len(a) + Len(c) : b[k] = IF k <= Len(a) THEN a[k] ELSE c[k - Len(a)]
  BY <1>4, <1>6, Joined, Zenon
<1> HIDE DEF b
<1>8. m \in Seq(Roles) /\ Len(m) = Len(b) + Len(l)
      /\ \A k \in 1 .. Len(b) + Len(l) : m[k] = IF k <= Len(b) THEN b[k] ELSE l[k - Len(b)]
  <2>1. m = b \o l
    BY <1>5 DEF a, b
  <2> QED BY <2>1, <1>4, <1>7, Joined, Zenon
<1>9. Len(h) \in Nat /\ Len(a) \in Nat /\ Len(b) \in Nat /\ i.packed \in Nat
  BY <1>1, <1>2, <1>6, <1>7
<1>10. Len(m) = i.at + i.packed + 8
  <2>1. Len(m) = Len(b) + 4 /\ Len(b) = Len(a) + 4 /\ Len(a) = i.at + i.packed
    <3>1. Len(m) = Len(b) + Len(l) /\ Len(b) = Len(a) + Len(c) /\ Len(a) = Len(h) + Len(d)
      BY <1>6, <1>7, <1>8, Zenon
    <3> QED BY <1>1, <1>3, <1>4, <3>1, Zenon
  <2> QED BY <1>1, <1>2, <1>9, <2>1
<1>11. ASSUME NEW k \in 1 .. Len(h) PROVE m[k] = h[k]
  <2>1. /\ k \in 1 .. Len(h) + Len(d) /\ k <= Len(h)
        /\ k \in 1 .. Len(a) + Len(c) /\ k <= Len(a)
        /\ k \in 1 .. Len(b) + Len(l) /\ k <= Len(b)
    BY <1>3, <1>4, <1>6, <1>7, <1>9
  <2> QED BY <1>6, <1>7, <1>8, <2>1
<1> QED BY <1>1, <1>2, <1>9, <1>10, <1>11 DEF h, m

\* What the walk over the fields has to find in a sound stream.
LEMMA SoundBytes ==
  ASSUME NEW i, Gzip!IsGzip(i), i.fate = "sound", Len(i.bytes) \in Nat
  PROVE  /\ i.damage = "none" /\ Gzip!EndsLikeOne(i.bytes)
         /\ i.at + i.packed + 8 <= Len(i.bytes)
         /\ {AtName(i), AtComment(i), AtHcrc(i), i.fields, i.packed, i.at, i.size} \subseteq Nat
         /\ i.at = AtHcrc(i) + (IF "FHCRC" \in i.flags THEN 2 ELSE 0)
         /\ "FNAME" \in i.flags =>
              /\ \A k \in 1 .. i.fields : i.bytes[AtName(i) + k] = "char"
              /\ i.bytes[AtName(i) + i.fields + 1] = "nul"
         /\ "FCOMMENT" \in i.flags =>
              /\ \A k \in 1 .. i.fields : i.bytes[AtComment(i) + k] = "char"
              /\ i.bytes[AtComment(i) + i.fields + 1] = "nul"
         /\ "FHCRC" \in i.flags => i.bytes[AtHcrc(i) + 1] = "hcrc" /\ i.bytes[AtHcrc(i) + 2] = "hcrc"
<1> DEFINE h == Gzip!HeaderOf(i.flags, i.fields)
           m == Gzip!Member(i.flags, i.fields, i.packed)
           n == i.fields
           len == Len(i.bytes)
           here == AtName(i)
           there == AtComment(i)
           last == AtHcrc(i)
<1>1. /\ {n, i.packed, i.size} \subseteq Nat /\ i.at = Len(h)
      /\ \A k \in 1 .. len : k <= Len(m) => i.bytes[k] = m[k]
  BY DEF Gzip!IsGzip
<1>2. i.damage = "none" /\ ~(len < Len(m)) /\ Gzip!EndsLikeOne(i.bytes)
  BY DEF Gzip!IsGzip, Gzip!GzipFate
<1>3. i.at \in Nat /\ Len(m) = i.at + i.packed + 8 /\ \A k \in 1 .. i.at : m[k] = h[k]
  BY MemberIs
<1>4. /\ Len(h) = last + (IF "FHCRC" \in i.flags THEN 2 ELSE 0)
      /\ {here, there, last} \subseteq Nat
      /\ "FNAME" \in i.flags => (\A k \in 1 .. n : h[here + k] = "char") /\ h[here + n + 1] = "nul"
      /\ "FCOMMENT" \in i.flags => (\A k \in 1 .. n : h[there + k] = "char") /\ h[there + n + 1] = "nul"
      /\ "FHCRC" \in i.flags => h[last + 1] = "hcrc" /\ h[last + 2] = "hcrc"
  BY <1>1, HeaderIs
<1>5. /\ there = here + (IF "FNAME" \in i.flags THEN n + 1 ELSE 0)
      /\ last = there + (IF "FCOMMENT" \in i.flags THEN n + 1 ELSE 0)
  BY DEF AtComment, AtHcrc
<1> HIDE DEF h, m, n, len, here, there, last
<1>6. len \in Nat /\ i.at + i.packed + 8 <= len
  BY <1>1, <1>2, <1>3 DEF len
<1>7. \A k \in 1 .. i.at : i.bytes[k] = h[k]
  <2> TAKE k \in 1 .. i.at
  <2>1. k \in 1 .. len /\ k <= Len(m)
    BY <1>1, <1>3, <1>6
  <2> QED BY <1>1, <1>3, <2>1
<1>8. ASSUME "FNAME" \in i.flags
      PROVE  (\A k \in 1 .. n : i.bytes[here + k] = "char") /\ i.bytes[here + n + 1] = "nul"
  <2>1. here + n + 1 <= i.at
    BY <1>1, <1>4, <1>5, <1>8
  <2>2. \A k \in 1 .. n + 1 : here + k \in 1 .. i.at
    <3>1. n \in Nat /\ here \in Nat /\ i.at \in Nat
      BY <1>1, <1>3, <1>4
    <3> QED BY <2>1, <3>1
  <2>3. n + 1 \in 1 .. n + 1 /\ here + n + 1 = here + (n + 1)
    <3>1. n \in Nat /\ here \in Nat
      BY <1>1, <1>4
    <3> QED BY <3>1
  <2>4. \A k \in 1 .. n : k \in 1 .. n + 1
    BY <1>1
  <2>5. h[here + (n + 1)] = "nul"
    BY <1>4, <1>8, <2>3
  <2> QED BY <1>4, <1>7, <1>8, <2>2, <2>3, <2>4, <2>5
<1>9. ASSUME "FCOMMENT" \in i.flags
      PROVE  (\A k \in 1 .. n : i.bytes[there + k] = "char") /\ i.bytes[there + n + 1] = "nul"
  <2>1. there + n + 1 <= i.at
    BY <1>1, <1>4, <1>5, <1>9
  <2>2. \A k \in 1 .. n + 1 : there + k \in 1 .. i.at
    <3>1. n \in Nat /\ there \in Nat /\ i.at \in Nat
      BY <1>1, <1>3, <1>4
    <3> QED BY <2>1, <3>1
  <2>3. n + 1 \in 1 .. n + 1 /\ there + n + 1 = there + (n + 1)
    <3>1. n \in Nat /\ there \in Nat
      BY <1>1, <1>4
    <3> QED BY <3>1
  <2>4. \A k \in 1 .. n : k \in 1 .. n + 1
    BY <1>1
  <2>5. h[there + (n + 1)] = "nul"
    BY <1>4, <1>9, <2>3
  <2> QED BY <1>4, <1>7, <1>9, <2>2, <2>3, <2>4, <2>5
<1>10. ASSUME "FHCRC" \in i.flags
       PROVE  i.bytes[last + 1] = "hcrc" /\ i.bytes[last + 2] = "hcrc"
  <2>1. last + 1 \in 1 .. i.at /\ last + 2 \in 1 .. i.at
    BY <1>1, <1>4, <1>10
  <2> QED BY <1>4, <1>7, <1>10, <2>1
<1> QED BY <1>1, <1>2, <1>3, <1>4, <1>6, <1>8, <1>9, <1>10 DEF n, here, there, last, len

\* The last eight bytes as the reader looks at them.
LEMMA EndIs ==
  ASSUME Gzip!InLen \in Nat, Gzip!InLen >= 8
  PROVE  /\ Gzip!HasAll(Gzip!InLen - 8, 4, "crc")
              <=> \A k \in 1 .. 4 : stream.bytes[Gzip!InLen - 8 + k] = "crc"
         /\ Gzip!HasAll(Gzip!InLen - 4, 4, "len")
              <=> \A k \in 1 .. 4 : stream.bytes[Gzip!InLen - 4 + k] = "len"
<1> DEFINE n == Gzip!InLen
           B(k) == stream.bytes[k]
<1> HIDE DEF n, B
<1>1. ASSUME NEW m \in Nat, m + 4 <= n, n \in Nat, NEW role
      PROVE  Gzip!HasAll(m, 4, role) <=> \A k \in 1 .. 4 : B(m + k) = role
  <2>1. Gzip!HasAll(m, 4, role) <=> \A j \in m .. m + 4 - 1 : j \in 0 .. n - 1 /\ B(j + 1) = role
    BY DEF Gzip!HasAll, Gzip!Has, n, B
  <2>2. ASSUME Gzip!HasAll(m, 4, role), NEW k \in 1 .. 4 PROVE B(m + k) = role
    <3>1. m + k - 1 \in m .. m + 4 - 1 /\ (m + k - 1) + 1 = m + k
      OBVIOUS
    <3> QED BY <2>1, <2>2, <3>1
  <2>3. ASSUME \A k \in 1 .. 4 : B(m + k) = role, NEW j \in m .. m + 4 - 1
        PROVE  j \in 0 .. n - 1 /\ B(j + 1) = role
    <3>1. j - m + 1 \in 1 .. 4 /\ m + (j - m + 1) = j + 1 /\ j \in 0 .. n - 1
      BY <1>1
    <3> QED BY <2>3, <3>1
  <2> QED BY <2>1, <2>2, <2>3
<1>2. n \in Nat /\ n - 8 \in Nat /\ n - 4 \in Nat /\ (n - 8) + 4 <= n /\ (n - 4) + 4 <= n
  BY DEF n
<1>3. /\ Gzip!HasAll(n - 8, 4, "crc") <=> \A k \in 1 .. 4 : B((n - 8) + k) = "crc"
      /\ Gzip!HasAll(n - 4, 4, "len") <=> \A k \in 1 .. 4 : B((n - 4) + k) = "len"
  BY <1>1, <1>2
<1> QED BY <1>3 DEF n, B

Behind == {"trailer", "alloc", "inflate", "verify"}

\* Where the walk is in a stream that is sound.
WalkInv ==
  stream.fate = "sound" =>
    /\ gpc = "extra" => start = 10
    /\ gpc = "name" =>
         /\ AtName(stream) <= start
         /\ start <= AtName(stream) + (IF "FNAME" \in stream.flags THEN stream.fields ELSE 0)
    /\ gpc = "comment" =>
         /\ AtComment(stream) <= start
         /\ start <= AtComment(stream) + (IF "FCOMMENT" \in stream.flags THEN stream.fields ELSE 0)
    /\ gpc = "hcrc" => start = AtHcrc(stream)
    /\ gpc \in Behind => start = stream.at

\* What has been found so far.
FoundInv ==
  /\ gpc \notin {"check", "done"} => stream.damage \notin {"magic", "method", "reserved"}
  /\ gpc \in Behind => stream.damage # "hcrc"
  /\ gpc \in Behind \ {"trailer"} =>
       /\ dlen \in Nat /\ (stream.fate = "sound" => crcHolds)
       /\ crcHolds => stream.damage # "crc" /\ Gzip!HasAll(Gzip!InLen - 8, 4, "crc")
       /\ Gzip!HasAll(Gzip!InLen - 4, 4, "len") =>
            IF stream.damage = "len" THEN dlen # stream.size ELSE dlen = stream.size % UIntMod
  /\ gpc = "verify" /\ start = stream.at /\ stream.damage # "data" =>
       /\ ginflated.end <=> Gzip!InLen - start - 8 >= stream.packed /\ dlen >= stream.size
       /\ ginflated.total = stream.size

\* What the answer says.
AnswerInv ==
  /\ gmem \in BOOLEAN /\ (gpc # "done" => ~gmem)
  /\ gpc = "done" /\ gret = 0 => stream.fate = "sound" /\ dlen = stream.size /\ stream.size < UIntMod
  /\ gpc = "done" /\ gret # 0 => gmem \/ stream.fate # "sound" \/ stream.size >= UIntMod

MeansInv == stream \in GzipInputs => WalkInv /\ FoundInv /\ AnswerInv

\* An answer with an error, for a stream that is not sound.
LEMMA GiveUp ==
  ASSUME NEW code, code # 0, Gzip!Give(code), stream' = stream, gmem' = gmem, gmem \in BOOLEAN,
         stream.fate # "sound"
  PROVE  WalkInv' /\ FoundInv' /\ AnswerInv'
<1>1. gpc' = "done" /\ gret' = code
  BY DEF Gzip!Give
<1>2. "done" \notin Behind
  BY DEF Behind
<1> QED BY <1>1, <1>2 DEF WalkInv, FoundInv, AnswerInv

\* Where the reader may be.
Labels == {"check", "extra", "name", "comment", "hcrc", "trailer", "alloc", "inflate", "verify", "done"}

\* miniz_gzip_uncompress: each step, for a stream and what its fate says of it.
LEMMA MeansStep == GzipInv /\ MeansInv /\ Gzip!GzipStep => MeansInv'
<1> SUFFICES ASSUME GzipInv, MeansInv, Gzip!GzipStep, stream' \in GzipInputs
             PROVE  WalkInv' /\ FoundInv' /\ AnswerInv'
  BY DEF MeansInv
<1>1. stream' = stream /\ Gzip!InLen' = Gzip!InLen
  BY DEF Gzip!GzipStep, Gzip!CheckBase, Gzip!SkipExtra, Gzip!SkipName, Gzip!SkipComment, Gzip!SkipText,
         Gzip!CheckHeaderCrc, Gzip!ReadTrailer, Gzip!Allocate, Gzip!Inflate, Gzip!Verify, Gzip!InLen
<1> DEFINE len == Gzip!InLen
           n == stream.fields
           at == stream.at
           size == stream.size
           plen == stream.packed
           here == AtName(stream)
           there == AtComment(stream)
           last == AtHcrc(stream)
           F(f) == f \in stream.flags
           sound == stream.fate = "sound"
<1>2. stream \in GzipInputs /\ Gzip!IsGzip(stream) /\ len \in Nat /\ len = Len(stream.bytes)
  BY <1>1, SerialAssumption, StreamAssumption DEF Gzip!InLen
<1>3. /\ WalkInv /\ FoundInv /\ AnswerInv /\ start \in Nat
      /\ gpc \notin {"check", "done"} => len >= 18
      /\ gpc = "extra" => start = 10
  BY <1>2 DEF MeansInv, GzipInv
<1>4. UIntMod \in Nat \ {0} /\ {n, plen, size} \subseteq Nat /\ at \in Nat /\ at >= 10
  BY <1>2, RunAssumption, MemberIs DEF Gzip!IsGzip
<1>5. sound =>
        /\ stream.damage = "none" /\ Gzip!EndsLikeOne(stream.bytes) /\ at + plen + 8 <= len
        /\ {here, there, last} \subseteq Nat
        /\ there = here + (IF F("FNAME") THEN n + 1 ELSE 0)
        /\ last = there + (IF F("FCOMMENT") THEN n + 1 ELSE 0)
        /\ at = last + (IF F("FHCRC") THEN 2 ELSE 0)
  BY <1>2, SoundBytes DEF AtComment, AtHcrc
<1>6. sound /\ F("FNAME") => /\ \A k \in 1 .. n : stream.bytes[here + k] = "char"
                             /\ stream.bytes[here + n + 1] = "nul"
  BY <1>2, SoundBytes
<1>7. sound /\ F("FCOMMENT") => /\ \A k \in 1 .. n : stream.bytes[there + k] = "char"
                                /\ stream.bytes[there + n + 1] = "nul"
  BY <1>2, SoundBytes
<1>8. sound /\ F("FHCRC") => stream.bytes[last + 1] = "hcrc" /\ stream.bytes[last + 2] = "hcrc"
  BY <1>2, SoundBytes
<1>9. len >= 8 => /\ sound => Gzip!HasAll(len - 8, 4, "crc") /\ Gzip!HasAll(len - 4, 4, "len")
                  /\ Gzip!HasAll(len - 8, 4, "crc") /\ Gzip!HasAll(len - 4, 4, "len")
                       => Gzip!EndsLikeOne(stream.bytes)
                  /\ Gzip!HasAll(len - 8, 4, "crc") <=> \A k \in 1 .. 4 : stream.bytes[len - 8 + k] = "crc"
  BY <1>2, <1>5, EndIs DEF Gzip!EndsLikeOne
<1>10. here = 10 + (IF F("FEXTRA") THEN n + 2 ELSE 0)
  BY DEF AtName
<1>11. n \in Nat /\ plen \in Nat /\ size \in Nat
  BY <1>4
<1>21. sound => /\ at + plen + 8 <= len
                /\ there = here + (IF F("FNAME") THEN n + 1 ELSE 0)
                /\ last = there + (IF F("FCOMMENT") THEN n + 1 ELSE 0)
                /\ at = last + (IF F("FHCRC") THEN 2 ELSE 0)
  BY <1>5
<1>12. sound => here \in Nat /\ there \in Nat /\ last \in Nat
  BY <1>5
<1>20. WalkInv => (sound =>
         /\ gpc = "name" => here <= start /\ start <= here + (IF F("FNAME") THEN n ELSE 0)
         /\ gpc = "comment" => there <= start /\ start <= there + (IF F("FCOMMENT") THEN n ELSE 0)
         /\ gpc = "hcrc" => start = last
         /\ gpc \in Behind => start = at)
  BY DEF WalkInv
<1> HIDE DEF len, n, at, size, plen, here, there, last, sound
<1>22. sound => here <= there /\ there <= last /\ last <= at
  <2>1. CASE sound
    <3>1. there = here \/ there = here + n + 1
      BY <1>11, <1>12, <1>21, <2>1
    <3>2. last = there \/ last = there + n + 1
      BY <1>11, <1>12, <1>21, <2>1
    <3>3. at = last \/ at = last + 2
      BY <1>11, <1>12, <1>21, <2>1
    <3> QED BY <1>4, <1>11, <1>12, <2>1, <3>1, <3>2, <3>3
  <2> QED BY <2>1
<1>23. sound => at + plen + 8 <= len /\ at + 8 <= len
  BY <1>2, <1>4, <1>11, <1>21
<1>13. ASSUME NEW label \in Labels \ {"check", "done", "alloc", "inflate", "verify"}, gpc' = label, len >= 18,
              UNCHANGED gmem, gpc # "done",
              stream.damage \notin {"magic", "method", "reserved"},
              label = "trailer" => stream.damage # "hcrc"
       PROVE  FoundInv' /\ AnswerInv'
  BY <1>1, <1>3, <1>13 DEF FoundInv, AnswerInv, Behind, Labels
<1>14. CASE Gzip!CheckBase
  <2>1. gpc = "check" /\ UNCHANGED gmem
    BY <1>14 DEF Gzip!CheckBase
  <2>2. CASE len < 18 /\ Gzip!Give(-1)
    <3>1. ~sound
      BY <1>2, <1>4, <1>11, <1>21, <2>2
    <3> QED BY <1>1, <1>3, <2>1, <2>2, <3>1, GiveUp DEF sound, AnswerInv
  <2>3. CASE len >= 18 /\ stream.damage \in {"magic", "method", "reserved"}
    <3>1. Gzip!Give(-2) \/ Gzip!Give(-3) \/ Gzip!Give(-4)
      <4>1. /\ stream.damage = "magic" => Gzip!Give(-2)
            /\ stream.damage = "method" => Gzip!Give(-3)
            /\ stream.damage = "reserved" => Gzip!Give(-4)
        <5>1. ~(len < 18)
          BY <1>2, <2>3
        <5> QED BY <1>14, <5>1 DEF Gzip!CheckBase, Gzip!MinLength, len
      <4> QED BY <2>3, <4>1
    <3>2. ~sound
      BY <1>5, <2>3
    <3> QED BY <1>1, <1>3, <2>1, <3>1, <3>2, GiveUp DEF sound, AnswerInv
  <2>4. CASE len >= 18 /\ stream.damage \notin {"magic", "method", "reserved"}
    <3>1. gpc' = "extra" /\ start' = 10
      BY <1>14, <1>2, <2>4 DEF Gzip!CheckBase, Gzip!MinLength, Gzip!Goto, Gzip!HeaderSize, len
    <3>2. FoundInv' /\ AnswerInv'
      BY <1>13, <2>1, <2>4, <3>1 DEF Labels
    <3> QED BY <1>1, <3>1, <3>2 DEF WalkInv, Behind
  <2> QED BY <1>2, <1>14, <2>2, <2>3, <2>4 DEF Gzip!CheckBase, Gzip!MinLength, len
<1>15. CASE Gzip!SkipExtra
  <2>1. gpc = "extra" /\ start = 10 /\ UNCHANGED gmem /\ len >= 18
        /\ stream.damage \notin {"magic", "method", "reserved"}
    BY <1>3, <1>15 DEF Gzip!SkipExtra, FoundInv
  <2>2. CASE ~F("FEXTRA") /\ gpc' = "name" /\ start' = start
    <3>1. FoundInv' /\ AnswerInv'
      BY <1>13, <2>1, <2>2 DEF Labels
    <3>2. start' = here
      BY <1>10, <2>1, <2>2
    <3>3. sound => here <= start' /\ start' <= here + (IF F("FNAME") THEN n ELSE 0)
      BY <1>11, <1>12, <3>2
    <3> QED BY <1>1, <2>2, <3>1, <3>3 DEF WalkInv, Behind, sound, here, F, n
  <2>3. CASE F("FEXTRA") /\ (start + 2 > len \/ n > len - start - 2) /\ Gzip!Give(-5)
    <3>1. ~sound
      <4> SUFFICES ASSUME sound PROVE FALSE
        OBVIOUS
      <4>1. here = 12 + n
        BY <1>10, <1>11, <2>3
      <4>2. here <= at /\ at + 8 <= len
        BY <1>4, <1>12, <1>22, <1>23
      <4> QED BY <1>2, <1>4, <1>11, <2>1, <2>3, <4>1, <4>2
    <3> QED BY <1>1, <1>3, <2>1, <2>3, <3>1, GiveUp DEF sound, AnswerInv
  <2>4. CASE F("FEXTRA") /\ gpc' = "name" /\ start' = start + n + 2
    <3>1. FoundInv' /\ AnswerInv'
      BY <1>13, <2>1, <2>4 DEF Labels
    <3>2. start' = here
      BY <1>10, <1>11, <2>1, <2>4
    <3>3. sound => here <= start' /\ start' <= here + (IF F("FNAME") THEN n ELSE 0)
      BY <1>11, <1>12, <3>2
    <3> QED BY <1>1, <2>4, <3>1, <3>3 DEF WalkInv, Behind, sound, here, F, n
  <2> QED BY <1>15, <2>2, <2>3, <2>4 DEF Gzip!SkipExtra, Gzip!Flag, Gzip!Goto, F, n, len
<1>16. CASE Gzip!SkipName
  <2>1. gpc = "name" /\ UNCHANGED gmem /\ len >= 18
        /\ stream.damage \notin {"magic", "method", "reserved"}
    BY <1>3, <1>16 DEF Gzip!SkipName, Gzip!SkipText, FoundInv
  <2>8. sound => here <= start /\ start <= here + (IF F("FNAME") THEN n ELSE 0)
    BY <1>3, <1>20, <2>1
  <2>2. CASE ~F("FNAME") /\ gpc' = "comment" /\ start' = start
    <3>1. FoundInv' /\ AnswerInv'
      BY <1>13, <2>1, <2>2 DEF Labels
    <3>2. sound => there <= start' /\ start' <= there + (IF F("FCOMMENT") THEN n ELSE 0)
      BY <1>3, <1>5, <1>11, <1>12, <2>2, <2>8
    <3> QED BY <1>1, <2>2, <3>1, <3>2 DEF WalkInv, Behind, sound, there, F, n
  <2>3. CASE F("FNAME") /\ start >= len /\ Gzip!Give(-6)
    <3>1. ~sound
      <4> SUFFICES ASSUME sound PROVE FALSE
        OBVIOUS
      <4>1. start <= here + n /\ there = here + n + 1
        BY <1>11, <1>12, <1>21, <2>3, <2>8
      <4>2. there <= at /\ at + 8 <= len
        BY <1>4, <1>12, <1>22, <1>23
      <4> QED BY <1>2, <1>3, <1>4, <1>11, <1>12, <2>3, <4>1, <4>2
    <3> QED BY <1>1, <1>3, <2>1, <2>3, <3>1, GiveUp DEF sound, AnswerInv
  <2>4. CASE F("FNAME") /\ start < len /\ start' = start + 1
             /\ gpc' = IF Gzip!Has(start, "nul") THEN "comment" ELSE "name"
    <3>1. FoundInv' /\ AnswerInv'
      BY <1>13, <2>1, <2>4 DEF Labels
    <3>2. Gzip!Has(start, "nul") <=> stream.bytes[start + 1] = "nul"
      BY <1>2, <1>3, <2>4 DEF Gzip!Has, len
    <3>3. ASSUME sound
          PROVE  /\ gpc' = "comment" => start' = there
                 /\ gpc' = "name" => here <= start' /\ start' <= here + n
      <4>1. here <= start /\ start <= here + n /\ here \in Nat /\ there = here + n + 1
        BY <1>11, <1>12, <1>21, <2>4, <2>8, <3>3
      <4>2. CASE start = here + n
        <5>1. Gzip!Has(start, "nul")
          BY <1>6, <2>4, <3>2, <3>3, <4>2
        <5> QED BY <1>11, <2>4, <4>1, <4>2, <5>1
      <4>3. CASE start < here + n
        <5>1. start - here + 1 \in 1 .. n /\ here + (start - here + 1) = start + 1
          BY <1>3, <1>11, <4>1, <4>3
        <5>2. stream.bytes[start + 1] = "char"
          BY <1>6, <2>4, <3>3, <5>1
        <5>3. ~Gzip!Has(start, "nul")
          BY <3>2, <5>2
        <5> QED BY <1>3, <1>11, <2>4, <4>1, <4>3, <5>3
      <4> QED BY <1>3, <1>11, <4>1, <4>2, <4>3
    <3>4. sound => /\ gpc' = "comment" => /\ there <= start'
                                          /\ start' <= there + (IF F("FCOMMENT") THEN n ELSE 0)
                   /\ gpc' = "name" => here <= start' /\ start' <= here + (IF F("FNAME") THEN n ELSE 0)
      BY <1>11, <1>12, <2>4, <3>3
    <3> QED BY <1>1, <2>4, <3>1, <3>4 DEF WalkInv, Behind, sound, here, there, F, n
  <2>5. \/ ~F("FNAME") /\ gpc' = "comment" /\ start' = start
        \/ F("FNAME") /\ start >= len /\ Gzip!Give(-6)
        \/ /\ F("FNAME") /\ ~(start >= len) /\ start' = start + 1
           /\ gpc' = IF Gzip!Has(start, "nul") THEN "comment" ELSE "name"
    BY <1>16, Zenon DEF Gzip!SkipName, Gzip!SkipText, Gzip!PastEnd, Gzip!Flag, Gzip!Goto, F, len
  <2>6. ~(start >= len) => start < len
    BY <1>2, <1>3
  <2> QED BY <2>2, <2>3, <2>4, <2>5, <2>6
<1>17. CASE Gzip!SkipComment
  <2>1. gpc = "comment" /\ UNCHANGED gmem /\ len >= 18
        /\ stream.damage \notin {"magic", "method", "reserved"}
    BY <1>3, <1>17 DEF Gzip!SkipComment, Gzip!SkipText, FoundInv
  <2>8. sound => there <= start /\ start <= there + (IF F("FCOMMENT") THEN n ELSE 0)
    BY <1>3, <1>20, <2>1
  <2>2. CASE ~F("FCOMMENT") /\ gpc' = "hcrc" /\ start' = start
    <3>1. FoundInv' /\ AnswerInv'
      BY <1>13, <2>1, <2>2 DEF Labels
    <3>2. sound => start' = last
      BY <1>3, <1>5, <1>11, <1>12, <2>2, <2>8
    <3> QED BY <1>1, <2>2, <3>1, <3>2 DEF WalkInv, Behind, sound, last, F, n
  <2>3. CASE F("FCOMMENT") /\ start >= len /\ Gzip!Give(-6)
    <3>1. ~sound
      <4> SUFFICES ASSUME sound PROVE FALSE
        OBVIOUS
      <4>1. start <= there + n /\ last = there + n + 1
        BY <1>11, <1>12, <1>21, <2>3, <2>8
      <4>2. last <= at /\ at + 8 <= len
        BY <1>4, <1>12, <1>22, <1>23
      <4> QED BY <1>2, <1>3, <1>4, <1>11, <1>12, <2>3, <4>1, <4>2
    <3> QED BY <1>1, <1>3, <2>1, <2>3, <3>1, GiveUp DEF sound, AnswerInv
  <2>4. CASE F("FCOMMENT") /\ start < len /\ start' = start + 1
             /\ gpc' = IF Gzip!Has(start, "nul") THEN "hcrc" ELSE "comment"
    <3>1. FoundInv' /\ AnswerInv'
      BY <1>13, <2>1, <2>4 DEF Labels
    <3>2. Gzip!Has(start, "nul") <=> stream.bytes[start + 1] = "nul"
      BY <1>2, <1>3, <2>4 DEF Gzip!Has, len
    <3>3. ASSUME sound
          PROVE  /\ gpc' = "hcrc" => start' = last
                 /\ gpc' = "comment" => there <= start' /\ start' <= there + n
      <4>1. there <= start /\ start <= there + n /\ there \in Nat /\ last = there + n + 1
        BY <1>11, <1>12, <1>21, <2>4, <2>8, <3>3
      <4>2. CASE start = there + n
        <5>1. Gzip!Has(start, "nul")
          BY <1>7, <2>4, <3>2, <3>3, <4>2
        <5> QED BY <1>11, <2>4, <4>1, <4>2, <5>1
      <4>3. CASE start < there + n
        <5>1. start - there + 1 \in 1 .. n /\ there + (start - there + 1) = start + 1
          BY <1>3, <1>11, <4>1, <4>3
        <5>2. stream.bytes[start + 1] = "char"
          BY <1>7, <2>4, <3>3, <5>1
        <5>3. ~Gzip!Has(start, "nul")
          BY <3>2, <5>2
        <5> QED BY <1>3, <1>11, <2>4, <4>1, <4>3, <5>3
      <4> QED BY <1>3, <1>11, <4>1, <4>2, <4>3
    <3>4. sound => /\ gpc' = "hcrc" => start' = last
                   /\ gpc' = "comment" => there <= start' /\ start' <= there + (IF F("FCOMMENT") THEN n ELSE 0)
      BY <1>11, <1>12, <2>4, <3>3
    <3> QED BY <1>1, <2>4, <3>1, <3>4 DEF WalkInv, Behind, sound, there, last, F, n
  <2>5. \/ ~F("FCOMMENT") /\ gpc' = "hcrc" /\ start' = start
        \/ F("FCOMMENT") /\ start >= len /\ Gzip!Give(-6)
        \/ /\ F("FCOMMENT") /\ ~(start >= len) /\ start' = start + 1
           /\ gpc' = IF Gzip!Has(start, "nul") THEN "hcrc" ELSE "comment"
    BY <1>17, Zenon DEF Gzip!SkipComment, Gzip!SkipText, Gzip!PastEnd, Gzip!Flag, Gzip!Goto, F, len
  <2>6. ~(start >= len) => start < len
    BY <1>2, <1>3
  <2> QED BY <2>2, <2>3, <2>4, <2>5, <2>6
<1>24. /\ (Gzip!HasAll(Gzip!InLen - 8, 4, "crc"))' <=> Gzip!HasAll(len - 8, 4, "crc")
       /\ (Gzip!HasAll(Gzip!InLen - 4, 4, "len"))' <=> Gzip!HasAll(len - 4, 4, "len")
  BY <1>1 DEF Gzip!HasAll, Gzip!Has, len
<1>18. CASE Gzip!CheckHeaderCrc
  <2>1. gpc = "hcrc" /\ UNCHANGED gmem /\ len >= 18
        /\ stream.damage \notin {"magic", "method", "reserved"}
    BY <1>3, <1>18 DEF Gzip!CheckHeaderCrc, FoundInv
  <2>2. sound => start = last
    BY <1>3, <1>20, <2>1
  <2>3. ASSUME gpc' = "trailer", stream.damage # "hcrc", sound => start' = at
        PROVE  WalkInv' /\ FoundInv' /\ AnswerInv'
    <3>1. FoundInv' /\ AnswerInv'
      BY <1>13, <2>1, <2>3 DEF Labels
    <3> QED BY <1>1, <2>3, <3>1 DEF WalkInv, Behind, sound, at
  <2>4. CASE ~F("FHCRC") /\ gpc' = "trailer" /\ start' = start
    <3>1. stream.damage # "hcrc"
      BY <1>2, <2>4 DEF Gzip!IsGzip
    <3>2. sound => start' = at
      BY <1>12, <1>21, <2>2, <2>4
    <3> QED BY <2>3, <2>4, <3>1, <3>2
  <2>5. CASE F("FHCRC") /\ start > len - 2 /\ Gzip!Give(-7)
    <3>1. ~sound
      <4> SUFFICES ASSUME sound PROVE FALSE
        OBVIOUS
      <4>1. start = last /\ at = last + 2
        BY <1>21, <2>2, <2>5
      <4>2. last \in Nat /\ at \in Nat /\ len \in Nat /\ at + 8 <= len
        BY <1>2, <1>4, <1>12, <1>23
      <4>3. start > len - 2
        BY <2>5
      <4> QED BY <4>1, <4>2, <4>3
    <3> QED BY <1>1, <1>3, <2>1, <2>5, <3>1, GiveUp DEF sound, AnswerInv
  <2>6. CASE F("FHCRC") /\ start <= len - 2 /\ gpc' = "trailer" /\ start' = start + 2 /\ stream.damage # "hcrc"
    <3>1. sound => start' = at
      BY <1>21, <2>2, <2>6
    <3> QED BY <2>3, <2>6, <3>1
  <2>7. CASE /\ F("FHCRC") /\ start <= len - 2 /\ Gzip!Give(-8)
             /\ ~(Gzip!HasAll(start, 2, "hcrc") /\ stream.damage # "hcrc")
    <3>1. ~sound
      <4> SUFFICES ASSUME sound PROVE FALSE
        OBVIOUS
      <4>1. start = last /\ stream.damage # "hcrc"
        BY <1>5, <2>2
      <4>2. Gzip!HasAll(start, 2, "hcrc")
        <5> SUFFICES ASSUME NEW k \in start .. start + 2 - 1 PROVE Gzip!Has(k, "hcrc")
          BY DEF Gzip!HasAll
        <5>1. k = start \/ k = start + 1
          BY <1>3
        <5>2. k \in 0 .. len - 1
          BY <1>2, <1>3, <2>7
        <5>3. stream.bytes[k + 1] = "hcrc"
          <6>1. start + 1 = last + 1 /\ (start + 1) + 1 = last + 2
            BY <1>3, <4>1
          <6> QED BY <1>8, <2>7, <5>1, <6>1
        <5> QED BY <5>2, <5>3 DEF Gzip!Has, len
      <4> QED BY <2>7, <4>1, <4>2
    <3> QED BY <1>1, <1>3, <2>1, <2>7, <3>1, GiveUp DEF sound, AnswerInv
  <2> QED BY <1>18, <2>4, <2>5, <2>6, <2>7, Zenon DEF Gzip!CheckHeaderCrc, Gzip!Flag, Gzip!Goto, F, len
<1>19. CASE Gzip!ReadTrailer
  <2>1. /\ gpc = "trailer" /\ UNCHANGED <<gmem, start>> /\ len >= 18
        /\ stream.damage \notin {"magic", "method", "reserved", "hcrc"}
        /\ sound => start = at
    BY <1>3, <1>19, <1>20 DEF Gzip!ReadTrailer, FoundInv, Behind
  <2>2. CASE len - start < 8 /\ Gzip!Give(-9)
    <3>1. ~sound
      BY <1>2, <1>3, <1>4, <1>23, <2>1, <2>2
    <3> QED BY <1>1, <1>3, <2>1, <2>2, <3>1, GiveUp DEF sound, AnswerInv
  <2>3. CASE gpc' = "alloc"
    <3>1. WalkInv'
      BY <1>1, <2>1, <2>3 DEF WalkInv, Behind, sound, at
    <3>2. /\ crcHolds' <=> Gzip!HasAll(len - 8, 4, "crc") /\ stream.damage # "crc"
          /\ dlen' \in IF ~Gzip!HasAll(len - 4, 4, "len") THEN 0 .. (size + 1)
                       ELSE IF stream.damage = "len" THEN (0 .. (size + 1)) \ {size}
                       ELSE {size % UIntMod}
      BY <1>19 DEF Gzip!ReadTrailer, Gzip!TrailerSize, len, size
    <3>3. dlen' \in Nat
      <4>1. size % UIntMod \in Nat
        BY <1>4, <1>11
      <4> QED BY <1>11, <3>2, <4>1
    <3>4. sound => crcHolds'
      BY <1>2, <1>5, <1>9, <2>1, <3>2
    <3>5. Gzip!HasAll(len - 4, 4, "len") =>
            IF stream.damage = "len" THEN dlen' # size ELSE dlen' = size % UIntMod
      BY <3>2
    <3>6. FoundInv'
      BY <1>1, <1>24, <2>1, <2>3, <3>2, <3>3, <3>4, <3>5 DEF FoundInv, Behind, sound, size
    <3>7. AnswerInv'
      BY <1>1, <1>3, <2>1, <2>3 DEF AnswerInv
    <3> QED BY <3>1, <3>6, <3>7
  <2> QED BY <1>19, <2>2, <2>3 DEF Gzip!ReadTrailer, Gzip!TrailerSize, Gzip!Goto, len
<1>25. ASSUME gpc \in {"alloc", "inflate", "verify"}
       PROVE  /\ stream.damage \notin {"magic", "method", "reserved", "hcrc"}
              /\ sound => start = at /\ crcHolds
              /\ dlen \in Nat
              /\ crcHolds => stream.damage # "crc" /\ Gzip!HasAll(len - 8, 4, "crc")
              /\ Gzip!HasAll(len - 4, 4, "len") =>
                   IF stream.damage = "len" THEN dlen # size ELSE dlen = size % UIntMod
              /\ len >= 18
  BY <1>3, <1>20, <1>25 DEF FoundInv, Behind, sound, len, size
<1>26. ASSUME gpc \in {"alloc", "inflate"}, gpc' \in {"inflate", "verify"}, UNCHANGED <<start, dlen, crcHolds, gmem>>,
              gpc' = "verify" /\ start = at /\ stream.damage # "data" =>
                /\ ginflated'.end <=> len - start - 8 >= plen /\ dlen >= size
                /\ ginflated'.total = size
       PROVE  WalkInv' /\ FoundInv' /\ AnswerInv'
  <2>1. WalkInv'
    BY <1>1, <1>25, <1>26 DEF WalkInv, Behind, sound, at
  <2>2. FoundInv'
    BY <1>1, <1>24, <1>25, <1>26 DEF FoundInv, Behind, sound, size, plen, at, len
  <2>3. AnswerInv'
    BY <1>1, <1>3, <1>26 DEF AnswerInv
  <2> QED BY <2>1, <2>2, <2>3
<1>27. CASE Gzip!Allocate
  <2>1. gpc = "alloc" /\ UNCHANGED <<start, dlen, crcHolds>>
    BY <1>27 DEF Gzip!Allocate
  <2>2. CASE gpc' = "inflate" /\ UNCHANGED gmem
    BY <1>26, <2>1, <2>2
  <2>3. CASE gpc' = "done" /\ gret' \in {-10, -11} /\ gmem' = TRUE
    BY <1>1, <2>3 DEF WalkInv, FoundInv, AnswerInv, Behind
  <2> QED BY <1>27, <2>2, <2>3 DEF Gzip!Allocate, Gzip!Give, Gzip!Goto
<1>28. CASE Gzip!Inflate
  <2>1. gpc = "inflate" /\ gpc' = "verify" /\ UNCHANGED <<start, dlen, crcHolds, gmem>>
    BY <1>28 DEF Gzip!Inflate, Gzip!Goto
  <2>2. start = at /\ stream.damage # "data" =>
          /\ ginflated'.end <=> len - start - 8 >= plen /\ dlen >= size
          /\ ginflated'.total = size
    BY <1>28 DEF Gzip!Inflate, Gzip!TrailerSize, at, len, plen, size
  <2> QED BY <1>26, <2>1, <2>2
<1>29. CASE Gzip!Verify
  <2>1. gpc = "verify" /\ gpc' = "done" /\ UNCHANGED <<stream, dlen, gmem>>
    BY <1>29 DEF Gzip!Verify, Gzip!Give
  <2> DEFINE right == start = at /\ stream.damage # "data"
  <2>2. right => /\ ginflated.end <=> len - start - 8 >= plen /\ dlen >= size
                 /\ ginflated.total = size
    BY <1>3, <2>1 DEF FoundInv, at, len, plen, size
  <2>3. gret' = CASE ~ginflated.end -> -12 [] ginflated.total # dlen -> -13
                  [] ~(crcHolds /\ right) -> -14 [] OTHER -> 0
    BY <1>29 DEF Gzip!Verify, Gzip!Give, at
  <2>4. gret' = 0 <=> ginflated.end /\ ginflated.total = dlen /\ crcHolds /\ right
    BY <2>3
  <2> HIDE DEF right
  <2>5. ASSUME gret' = 0 PROVE sound /\ dlen = size /\ size < UIntMod
    <3>1. right /\ crcHolds /\ len - start - 8 >= plen /\ dlen = size
      BY <2>2, <2>4, <2>5
    <3>2. Gzip!EndsLikeOne(stream.bytes) /\ Gzip!HasAll(len - 4, 4, "len") /\ Gzip!HasAll(len - 8, 4, "crc")
      <4>1. Gzip!HasAll(len - 8, 4, "crc") /\ len >= 18 /\ len >= 8
        BY <1>2, <1>25, <2>1, <3>1
      <4>2. len >= at + plen + 8
        BY <1>2, <1>4, <1>11, <3>1 DEF right
      <4>3. len >= Len(Gzip!Member(stream.flags, stream.fields, stream.packed))
        BY <1>2, <4>2, MemberIs DEF at, plen
      <4>4. \A k \in 1 .. 4 : stream.bytes[len - 8 + k] = "crc"
        BY <1>9, <4>1
      <4>5. Gzip!EndsLikeOne(stream.bytes)
        BY <1>2, <4>3, <4>4 DEF Gzip!IsGzip
      <4>6. Gzip!HasAll(len - 4, 4, "len")
        BY <1>2, <4>1, <4>5, EndIs DEF Gzip!EndsLikeOne, len
      <4> QED BY <4>1, <4>5, <4>6
    <3>3. stream.damage # "len" /\ dlen = size % UIntMod
      BY <1>25, <2>1, <3>1, <3>2
    <3>4. stream.damage = "none"
      <4>1. stream.damage \notin {"magic", "method", "reserved", "hcrc", "crc", "len", "data"}
        BY <1>25, <2>1, <3>1, <3>3 DEF right
      <4> QED BY <1>2, <4>1 DEF Gzip!IsGzip, Gzip!Damages
    <3>5. stream.fate = "sound"
      <4>1. ~(Len(stream.bytes) < Len(Gzip!Member(stream.flags, stream.fields, stream.packed)))
        BY <1>2, <1>4, <1>11, <3>1, MemberIs DEF at, plen, right
      <4> QED BY <1>2, <3>2, <3>4, <4>1 DEF Gzip!IsGzip, Gzip!GzipFate
    <3>6. size < UIntMod
      BY <1>4, <1>11, <3>1, <3>3
    <3> QED BY <3>1, <3>5, <3>6 DEF sound
  <2>6. ASSUME sound, size < UIntMod PROVE gret' = 0
    <3>1. start = at /\ crcHolds /\ stream.damage = "none" /\ len >= 18 /\ len >= 8
      BY <1>2, <1>5, <1>25, <2>1, <2>6
    <3>2. right /\ Gzip!HasAll(len - 4, 4, "len")
      BY <1>9, <2>6, <3>1 DEF right
    <3>3. dlen = size
      <4>1. dlen = size % UIntMod
        BY <1>25, <2>1, <3>1, <3>2
      <4> QED BY <1>4, <1>11, <2>6, <4>1
    <3>4. len - start - 8 >= plen
      BY <1>2, <1>4, <1>11, <1>23, <2>6, <3>1
    <3> QED BY <1>11, <2>2, <2>4, <3>1, <3>2, <3>3, <3>4
  <2>7. gret' # 0 => ~sound \/ size >= UIntMod
    BY <1>4, <1>11, <2>6
  <2>8. WalkInv' /\ FoundInv'
    BY <1>1, <2>1 DEF WalkInv, FoundInv, Behind
  <2>9. AnswerInv'
    BY <1>3, <2>1, <2>5, <2>7 DEF AnswerInv, sound, size
  <2> QED BY <2>8, <2>9
<1> QED BY <1>14, <1>15, <1>16, <1>17, <1>18, <1>19, <1>27, <1>28, <1>29 DEF Gzip!GzipStep

-----------------------------------------------------------------------------
(* What the xz reader answers *)

PartCount == Len(parts)
Kind(k) == parts[k].kind
Sum == Xz!Given(parts)

\* What the reader is given.
PartsAre ==
  /\ PartCount \in Nat
  /\ \A k \in 1 .. PartCount : parts[k].gives \in Nat /\ (Kind(k) # "data" => parts[k].gives = 0)

SumUpTo(f, n) == f = [i \in 0 .. n |-> IF i = 0 THEN 0 ELSE f[i - 1] + parts[i].gives]

\* There is such a sum ...
LEMMA SumThere == ASSUME PartsAre PROVE \A n \in Nat : \E f : SumUpTo(f, n)
<1> DEFINE S == {n \in Nat : \E f : SumUpTo(f, n)}
<1>1. 0 \in S
  <2> DEFINE f == [i \in 0 .. 0 |-> 0]
  <2>1. f = [i \in 0 .. 0 |-> IF i = 0 THEN 0 ELSE f[i - 1] + parts[i].gives]
    OBVIOUS
  <2> QED BY <2>1 DEF SumUpTo
<1>2. ASSUME NEW n \in Nat, n \in S PROVE n + 1 \in S
  <2>1. PICK f : SumUpTo(f, n)
    BY <1>2
  <2> DEFINE g == [i \in 0 .. n + 1 |-> IF i = n + 1 THEN f[n] + parts[n + 1].gives ELSE f[i]]
  <2>2. ASSUME NEW i \in 0 .. n + 1
        PROVE  g[i] = IF i = 0 THEN 0 ELSE g[i - 1] + parts[i].gives
    <3>1. CASE i = n + 1
      <4>1. g[i] = f[n] + parts[n + 1].gives /\ i # 0 /\ i - 1 = n /\ n \in 0 .. n + 1 /\ n # n + 1
        BY <3>1
      <4>2. g[n] = f[n]
        BY <4>1
      <4> QED BY <3>1, <4>1, <4>2
    <3>2. CASE i # n + 1
      <4>1. i \in 0 .. n /\ g[i] = f[i]
        BY <3>2
      <4>2. f[i] = IF i = 0 THEN 0 ELSE f[i - 1] + parts[i].gives
        BY <2>1, <4>1 DEF SumUpTo
      <4>3. i # 0 => i - 1 \in 0 .. n + 1 /\ i - 1 # n + 1 /\ g[i - 1] = f[i - 1]
        BY <4>1
      <4> QED BY <4>1, <4>2, <4>3
    <3> QED BY <3>1, <3>2
  <2>3. g = [i \in 0 .. n + 1 |-> g[i]]
    OBVIOUS
  <2> HIDE DEF g
  <2>4. SumUpTo(g, n + 1)
    BY <2>2, <2>3 DEF SumUpTo
  <2> QED BY <2>4
<1>3. Nat \subseteq S
  <2>1. \A n \in Nat : n \in S => n + 1 \in S
    BY <1>2
  <2> HIDE DEF S
  <2> QED BY <1>1, <2>1, Induction
<1> QED BY <1>3

\* ... and Given is it.
LEMMA SumIsGiven == ASSUME PartsAre PROVE SumUpTo(Sum, PartCount)
<1>1. PICK f : SumUpTo(f, PartCount)
  BY SumThere DEF PartsAre
<1>2. Sum = CHOOSE h : SumUpTo(h, PartCount)
  BY DEF Sum, Xz!Given, SumUpTo, PartCount
<1> QED BY <1>1, <1>2

\* It is a number that only grows, part by part.
LEMMA SumGrows ==
  ASSUME PartsAre
  PROVE  /\ Sum[0] = 0 /\ \A k \in 0 .. PartCount : Sum[k] \in Nat /\ Sum[k] <= Sum[PartCount]
         /\ \A k \in 0 .. PartCount - 1 : Sum[k + 1] = Sum[k] + parts[k + 1].gives
<1> DEFINE n == PartCount
           S == {k \in Nat : k <= n => Sum[k] \in Nat}
           T == {k \in Nat : k <= n => Sum[n - k] <= Sum[n]}
<1>1. n \in Nat
  BY DEF PartsAre
<1>2. Sum = [i \in 0 .. n |-> IF i = 0 THEN 0 ELSE Sum[i - 1] + parts[i].gives]
  BY SumIsGiven DEF SumUpTo
<1>3. \A i \in 0 .. n : Sum[i] = IF i = 0 THEN 0 ELSE Sum[i - 1] + parts[i].gives
  BY <1>2, Zenon
<1> HIDE DEF n
<1>4. Sum[0] = 0
  <2>1. 0 \in 0 .. n
    BY <1>1
  <2> HIDE DEF Sum
  <2> QED BY <1>3, <2>1, Zenon
<1>5. ASSUME NEW k \in 0 .. n - 1 PROVE Sum[k + 1] = Sum[k] + parts[k + 1].gives /\ parts[k + 1].gives \in Nat
  <2>1. k + 1 \in 0 .. n /\ k + 1 # 0 /\ (k + 1) - 1 = k /\ k + 1 \in 1 .. n
    BY <1>1
  <2> QED BY <1>3, <2>1 DEF PartsAre, n
<1>6. Nat \subseteq S
  <2>1. 0 \in S
    BY <1>4
  <2>2. ASSUME NEW k \in Nat, k \in S PROVE k + 1 \in S
    <3> SUFFICES ASSUME k + 1 <= n PROVE Sum[k + 1] \in Nat
      OBVIOUS
    <3>1. k \in 0 .. n - 1 /\ Sum[k] \in Nat
      BY <1>1, <2>2
    <3> QED BY <1>5, <3>1
  <2>3. \A k \in Nat : k \in S => k + 1 \in S
    BY <2>2
  <2> HIDE DEF S
  <2> QED BY <2>1, <2>3, Induction
<1>7. \A k \in 0 .. n : Sum[k] \in Nat
  BY <1>1, <1>6
<1>8. Nat \subseteq T
  <2>1. 0 \in T
    BY <1>1, <1>7
  <2>2. ASSUME NEW k \in Nat, k \in T PROVE k + 1 \in T
    <3> SUFFICES ASSUME k + 1 <= n PROVE Sum[n - (k + 1)] <= Sum[n]
      OBVIOUS
    <3> DEFINE m == n - (k + 1)
    <3>1. m \in 0 .. n - 1 /\ m + 1 = n - k /\ m \in 0 .. n /\ n - k \in 0 .. n /\ n \in 0 .. n
      BY <1>1
    <3>2. Sum[n - k] <= Sum[n]
      BY <1>1, <2>2
    <3> HIDE DEF m
    <3>3. Sum[m + 1] = Sum[m] + parts[m + 1].gives /\ parts[m + 1].gives \in Nat
      BY <1>5, <3>1
    <3>4. Sum[m] \in Nat /\ Sum[n] \in Nat
      BY <1>7, <3>1
    <3>5. Sum[m] <= Sum[n]
      BY <3>1, <3>2, <3>3, <3>4
    <3> QED BY <3>5 DEF m
  <2>3. \A k \in Nat : k \in T => k + 1 \in T
    BY <2>2
  <2> HIDE DEF T
  <2> QED BY <2>1, <2>3, Induction
<1>9. \A k \in 0 .. n : Sum[k] <= Sum[n]
  <2> TAKE k \in 0 .. n
  <2>1. n - k \in Nat /\ n - k <= n /\ n - (n - k) = k
    BY <1>1
  <2>2. n - k \in T
    BY <1>8, <2>1
  <2> QED BY <2>1, <2>2
<1> QED BY <1>4, <1>5, <1>7, <1>9 DEF n

-----------------------------------------------------------------------------
\* The parts up to the n-th are in an order the format has.
OrderedTo(n) ==
  /\ n > 0 => Kind(1) = "header"
  /\ \A i \in 1 .. n - 1 : <<Kind(i), Kind(i + 1)>> \in Xz!Follows
  /\ \A i \in 1 .. n, j \in 1 .. n - 1 :
       i < j /\ Xz!PaddedFrom(parts, i, j) /\ Kind(j + 1) # "pad" => (j - i) % 4 = 0

PaddedByFour(n) == \A i \in 1 .. n : i < n /\ Xz!PaddedFrom(parts, i, n) => (n - i) % 4 = 0

StateInv ==
  /\ state \in {"STREAM_HEADER", "BLOCK_HEADER", "BLOCK", "BLOCK_FOOTER", "STREAM_FOOTER", "STREAM_PADDING"}
  /\ state = "STREAM_HEADER" =>
       \/ src = 0
       \/ /\ src > 0 /\ src < PartCount /\ Kind(src) \in {"footer", "pad"} /\ Kind(src + 1) # "pad"
          /\ PaddedByFour(src)
  /\ state # "STREAM_HEADER" => src > 0
  /\ state = "BLOCK_HEADER" => Kind(src) \in {"header", "check"}
  /\ state = "BLOCK" => Kind(src) \in {"block", "data"}
  /\ state = "BLOCK_FOOTER" => Kind(src) = "mark"
  /\ state = "STREAM_FOOTER" => Kind(src) = "index"
  /\ state = "STREAM_PADDING" =>
       /\ Kind(src) \in {"footer", "pad"}
       /\ \E i \in 1 .. src : Xz!PaddedFrom(parts, i, src) /\ padSize = src - i

\* Padding has one beginning.
LEMMA OnePadding ==
  ASSUME NEW n \in Nat, NEW i \in 1 .. n, NEW j \in 1 .. n,
         Xz!PaddedFrom(parts, i, n), Xz!PaddedFrom(parts, j, n)
  PROVE  i = j
<1>1. ASSUME NEW a \in 1 .. n, NEW b \in 1 .. n, a < b, Xz!PaddedFrom(parts, a, n), Xz!PaddedFrom(parts, b, n)
      PROVE  FALSE
  <2>1. b \in a + 1 .. n
    BY <1>1
  <2>2. parts[b].kind = "pad" /\ parts[b].kind = "footer"
    BY <1>1, <2>1 DEF Xz!PaddedFrom
  <2> QED BY <2>2
<1>2. ~(i < j) /\ ~(j < i)
  BY <1>1
<1> QED BY <1>2

\* One more part in an order the format has.
LEMMA OneMore ==
  ASSUME NEW n \in Nat, OrderedTo(n), n = 0 => Kind(1) = "header",
         n > 0 => <<Kind(n), Kind(n + 1)>> \in Xz!Follows,
         Kind(n) = "pad" /\ Kind(n + 1) # "pad" => PaddedByFour(n)
  PROVE  OrderedTo(n + 1)
<1>1. n + 1 > 0 => Kind(1) = "header"
  BY DEF OrderedTo
<1>2. \A i \in 1 .. (n + 1) - 1 : <<Kind(i), Kind(i + 1)>> \in Xz!Follows
  <2> TAKE i \in 1 .. (n + 1) - 1
  <2>1. i \in 1 .. n - 1 \/ (i = n /\ n > 0)
    OBVIOUS
  <2> QED BY <2>1 DEF OrderedTo
<1>3. ASSUME NEW i \in 1 .. n + 1, NEW j \in 1 .. (n + 1) - 1,
             i < j, Xz!PaddedFrom(parts, i, j), Kind(j + 1) # "pad"
      PROVE  (j - i) % 4 = 0
  <2>1. CASE j = n
    <3>1. n \in i + 1 .. n /\ i \in 1 .. n /\ i < n
      BY <1>3, <2>1
    <3>2. Kind(n) = "pad"
      BY <1>3, <2>1, <3>1 DEF Xz!PaddedFrom, Kind
    <3> QED BY <1>3, <2>1, <3>1, <3>2 DEF PaddedByFour
  <2>2. CASE j # n
    <3>1. i \in 1 .. n /\ j \in 1 .. n - 1
      BY <1>3, <2>2
    <3> QED BY <1>3, <3>1 DEF OrderedTo
  <2> QED BY <2>1, <2>2
<1> QED BY <1>1, <1>2, <1>3 DEF OrderedTo

IsFile == Xz!IsXzFile(parts)
Whole == Sum[PartCount]

\* What each part is worth so far: collected, put out, or held by the decoder.
AmountInv ==
  /\ xtotal \in Nat /\ xtotal <= MaxAlloc /\ destLen \in 0 .. OutBuf /\ pending \in Nat
  /\ xpc = "loop" => xtotal + pending = Sum[src]
  /\ xpc \in {"code", "called"} => xtotal + destLen + pending = Sum[src]
  /\ state # "BLOCK" => pending = 0
  /\ xpc = "called" => destLen = OutBuf \/ (src = PartCount /\ pending = 0)
  /\ xpc \in {"loop", "called"} /\ status # "NOT_FINISHED" => pending = 0
  /\ xpc = "end" /\ xret = 1 => src = PartCount /\ xtotal = Whole

\* Why it answers what it does.
ReasonInv ==
  /\ xpc \in {"loop", "code", "called", "end", "done"}
  /\ xret \in {-2, -1, 0, 1}
  /\ xpc \notin {"end", "done"} => xret = 1
  /\ xpc = "end" => xret # 0
  /\ xpc = "done" => xret # 1
  /\ xmem \in BOOLEAN
  /\ xret < 0 => xmem \/ ~IsFile \/ Whole > MaxAlloc
  /\ xret = 0 => IsFile /\ xtotal = Whole

PartInv ==
  /\ PartsAre
  /\ src \in 0 .. PartCount /\ padSize \in Nat /\ from \in Nat
  /\ OrderedTo(src) /\ StateInv

XzInv == PartInv /\ AmountInv /\ ReasonInv

\* What comes next is not what the state takes: no xz file looks like this.
LEMMA NotAFile ==
  ASSUME PartInv, src < PartCount, IsFile
  PROVE  /\ state = "STREAM_HEADER" => Kind(src + 1) = "header"
         /\ state = "BLOCK_HEADER" => Kind(src + 1) \in {"block", "index"}
         /\ state = "BLOCK" => Kind(src + 1) \in {"data", "mark"}
         /\ state = "BLOCK_FOOTER" => Kind(src + 1) = "check"
         /\ state = "STREAM_FOOTER" => Kind(src + 1) = "footer"
         /\ state = "STREAM_PADDING" /\ Kind(src + 1) # "pad" => padSize % 4 = 0
<1>1. src \in Nat /\ PartCount \in Nat /\ src < PartCount /\ padSize \in Nat
  BY DEF PartInv, PartsAre
<1>2. src > 0 => <<Kind(src), Kind(src + 1)>> \in Xz!Follows
  <2> SUFFICES ASSUME src > 0 PROVE <<Kind(src), Kind(src + 1)>> \in Xz!Follows
    OBVIOUS
  <2>1. src \in 1 .. PartCount - 1
    BY <1>1
  <2> QED BY <2>1 DEF IsFile, Xz!IsXzFile, Kind, PartCount
<1>3. Kind(1) = "header"
  BY DEF IsFile, Xz!IsXzFile, Kind
<1>4. state = "STREAM_HEADER" => Kind(src + 1) = "header"
  <2> SUFFICES ASSUME state = "STREAM_HEADER" PROVE Kind(src + 1) = "header"
    OBVIOUS
  <2>1. src = 0 \/ (src > 0 /\ Kind(src) \in {"footer", "pad"} /\ Kind(src + 1) # "pad")
    BY DEF PartInv, StateInv
  <2>2. CASE src = 0
    <3>1. src + 1 = 1
      BY <2>2
    <3> QED BY <1>3, <3>1
  <2>3. CASE src # 0
    BY <1>2, <2>1, <2>3 DEF Xz!Follows
  <2> QED BY <2>2, <2>3
<1>5. state = "STREAM_PADDING" /\ Kind(src + 1) # "pad" => padSize % 4 = 0
  <2> SUFFICES ASSUME state = "STREAM_PADDING", Kind(src + 1) # "pad" PROVE padSize % 4 = 0
    OBVIOUS
  <2>1. PICK i \in 1 .. src : Xz!PaddedFrom(parts, i, src) /\ padSize = src - i
    BY DEF PartInv, StateInv
  <2>2. CASE i = src
    <3>1. padSize = 0
      BY <1>1, <2>1, <2>2
    <3> QED BY <3>1
  <2>3. CASE i # src
    <3>1. i < src /\ i \in 1 .. PartCount /\ src \in 1 .. PartCount
      BY <1>1, <2>3
    <3> HIDE DEF Xz!PaddedFrom
    <3>2. (src - i) % 4 = 0
      BY <2>1, <3>1 DEF IsFile, Xz!IsXzFile, Kind, PartCount
    <3> QED BY <2>1, <3>2
  <2> QED BY <2>2, <2>3
<1>6. /\ state = "BLOCK_HEADER" => Kind(src + 1) \in {"block", "index"}
      /\ state = "BLOCK" => Kind(src + 1) \in {"data", "mark"}
      /\ state = "BLOCK_FOOTER" => Kind(src + 1) = "check"
      /\ state = "STREAM_FOOTER" => Kind(src + 1) = "footer"
  BY <1>2 DEF PartInv, StateInv, Xz!Follows
<1> QED BY <1>4, <1>5, <1>6

\* All parts are taken: it is an xz file exactly when a stream was finished.
LEMMA FileAtEnd ==
  ASSUME PartInv, src = PartCount
  PROVE  Xz!StreamWasFinished <=> IsFile
<1>1. src \in Nat /\ PartCount \in Nat /\ padSize \in Nat
  BY DEF PartInv, PartsAre
<1>2. ASSUME Xz!StreamWasFinished PROVE IsFile
  <2>1. state = "STREAM_PADDING" /\ padSize % 4 = 0
    BY <1>2 DEF Xz!StreamWasFinished
  <2>2. src > 0 /\ Kind(src) \in {"footer", "pad"}
    BY <2>1 DEF PartInv, StateInv
  <2>3. PICK m \in 1 .. src : Xz!PaddedFrom(parts, m, src) /\ padSize = src - m
    BY <2>1 DEF PartInv, StateInv
  <2>4. ASSUME NEW i \in 1 .. PartCount, NEW j \in 1 .. PartCount, i < j, Xz!PaddedFrom(parts, i, j),
               j = PartCount \/ Kind(j + 1) # "pad"
        PROVE  (j - i) % 4 = 0
    <3>1. CASE j = PartCount
      <4>1. i \in 1 .. src /\ j = src
        BY <2>4, <3>1
      <4>2. i = m
        BY <1>1, <2>3, <2>4, <4>1, OnePadding
      <4> QED BY <2>1, <2>3, <4>1, <4>2
    <3>2. CASE j # PartCount
      <4>1. i \in 1 .. src /\ j \in 1 .. src - 1
        BY <1>1, <2>4, <3>2
      <4> QED BY <2>4, <3>2, <4>1 DEF PartInv, OrderedTo
    <3> QED BY <3>1, <3>2
  <2>5. /\ \A i \in 1 .. PartCount - 1 : <<Kind(i), Kind(i + 1)>> \in Xz!Follows
        /\ Kind(1) = "header" /\ PartCount > 0 /\ Kind(PartCount) \in {"footer", "pad"}
    BY <2>2 DEF PartInv, OrderedTo
  <2> HIDE DEF Xz!PaddedFrom, Xz!Follows
  <2> QED BY <2>4, <2>5 DEF IsFile, Xz!IsXzFile, Kind, PartCount
<1>3. ASSUME IsFile PROVE Xz!StreamWasFinished
  <2>1. PartCount > 0 /\ Kind(PartCount) \in {"footer", "pad"}
    BY <1>3 DEF IsFile, Xz!IsXzFile, Kind, PartCount
  <2>2. state = "STREAM_PADDING"
    <3>1. src # 0 /\ ~(src < PartCount) /\ Kind(src) \in {"footer", "pad"}
      BY <1>1, <2>1
    <3> QED BY <3>1 DEF PartInv, StateInv
  <2>3. PICK i \in 1 .. src : Xz!PaddedFrom(parts, i, src) /\ padSize = src - i
    BY <2>2 DEF PartInv, StateInv
  <2>4. padSize % 4 = 0
    <3>1. CASE i = src
      <4>1. padSize = 0
        BY <1>1, <2>3, <3>1
      <4> QED BY <4>1
    <3>2. CASE i # src
      <4>1. i < src /\ i \in 1 .. PartCount /\ src \in 1 .. PartCount
        BY <1>1, <3>2
      <4>2. (src - i) % 4 = 0
        BY <1>3, <2>3, <4>1 DEF IsFile, Xz!IsXzFile, PartCount
      <4> QED BY <2>3, <4>2
    <3> QED BY <3>1, <3>2
  <2> QED BY <2>2, <2>4 DEF Xz!StreamWasFinished
<1> QED BY <1>2, <1>3

\* A part that is taken is the next in order.
Taken ==
  Xz!Transition \cup {<<"BLOCK", "data", "BLOCK">>, <<"BLOCK", "mark", "BLOCK_FOOTER">>}

\* However a part is taken, what is taken stays in order.
LEMMA TakesOne ==
  ASSUME PartInv, src < PartCount, UNCHANGED parts, src' = src + 1, from' \in Nat,
         \E t \in Taken : t[1] = state /\ t[2] = Kind(src + 1) /\ state' = t[3],
         padSize' = IF Kind(src + 1) = "pad" THEN padSize + 1
                    ELSE IF Kind(src + 1) = "footer" THEN 0 ELSE padSize
  PROVE  PartInv'
<1> DEFINE next == Kind(src + 1)
<1>1. src \in Nat /\ PartCount \in Nat /\ padSize \in Nat
  BY DEF PartInv, PartsAre
<1>2. \/ state = "STREAM_HEADER" /\ next = "header" /\ state' = "BLOCK_HEADER"
      \/ state = "BLOCK_HEADER" /\ next = "block" /\ state' = "BLOCK"
      \/ state = "BLOCK_HEADER" /\ next = "index" /\ state' = "STREAM_FOOTER"
      \/ state = "BLOCK_FOOTER" /\ next = "check" /\ state' = "BLOCK_HEADER"
      \/ state = "STREAM_FOOTER" /\ next = "footer" /\ state' = "STREAM_PADDING"
      \/ state = "STREAM_PADDING" /\ next = "pad" /\ state' = "STREAM_PADDING"
      \/ state = "BLOCK" /\ next = "data" /\ state' = "BLOCK"
      \/ state = "BLOCK" /\ next = "mark" /\ state' = "BLOCK_FOOTER"
  BY DEF Taken, Xz!Transition
<1>3. OrderedTo(src + 1)
  <2>1. src = 0 => Kind(1) = "header"
    <3> SUFFICES ASSUME src = 0 PROVE Kind(1) = "header"
      OBVIOUS
    <3>1. state = "STREAM_HEADER" /\ src + 1 = 1
      BY DEF PartInv, StateInv
    <3> QED BY <1>2, <3>1
  <2>2. src > 0 => <<Kind(src), Kind(src + 1)>> \in Xz!Follows
    <3> SUFFICES ASSUME src > 0 PROVE <<Kind(src), next>> \in Xz!Follows
      OBVIOUS
    <3>1. /\ state = "STREAM_HEADER" => Kind(src) \in {"footer", "pad"}
          /\ state = "BLOCK_HEADER" => Kind(src) \in {"header", "check"}
          /\ state = "BLOCK" => Kind(src) \in {"block", "data"}
          /\ state = "BLOCK_FOOTER" => Kind(src) = "mark"
          /\ state = "STREAM_FOOTER" => Kind(src) = "index"
          /\ state = "STREAM_PADDING" => Kind(src) \in {"footer", "pad"}
      BY <1>1 DEF PartInv, StateInv
    <3> HIDE DEF next
    <3> QED BY <1>2, <3>1 DEF Xz!Follows
  <2>3. Kind(src) = "pad" /\ Kind(src + 1) # "pad" => PaddedByFour(src)
    <3> SUFFICES ASSUME Kind(src) = "pad", next # "pad" PROVE PaddedByFour(src)
      OBVIOUS
    <3> HIDE DEF next
    <3>1. CASE src = 0
      BY <1>1, <3>1 DEF PaddedByFour
    <3>2. CASE src # 0
      <4>1. state = "STREAM_HEADER"
        BY <1>2, <3>2 DEF PartInv, StateInv
      <4> QED BY <3>2, <4>1 DEF PartInv, StateInv
    <3> QED BY <3>1, <3>2
  <2>4. OrderedTo(src)
    BY DEF PartInv
  <2> QED BY <1>1, <2>1, <2>2, <2>3, <2>4, OneMore
<1>4. state' = "STREAM_PADDING" =>
        \E i \in 1 .. src + 1 : Xz!PaddedFrom(parts, i, src + 1) /\ padSize' = src + 1 - i
  <2> SUFFICES ASSUME state' = "STREAM_PADDING"
               PROVE  \E i \in 1 .. src + 1 : Xz!PaddedFrom(parts, i, src + 1) /\ padSize' = src + 1 - i
    OBVIOUS
  <2>1. next = "footer" \/ (next = "pad" /\ state = "STREAM_PADDING")
    BY <1>2
  <2>2. CASE next = "footer"
    <3>1. padSize' = 0 /\ src + 1 - (src + 1) = 0 /\ src + 1 \in 1 .. src + 1
      BY <1>1, <2>2
    <3>2. Xz!PaddedFrom(parts, src + 1, src + 1)
      <4>1. (src + 1) + 1 .. src + 1 = {}
        BY <1>1
      <4> QED BY <2>2, <4>1 DEF Xz!PaddedFrom, Kind
    <3> QED BY <3>1, <3>2
  <2>3. CASE next = "pad" /\ state = "STREAM_PADDING"
    <3>1. PICK i \in 1 .. src : Xz!PaddedFrom(parts, i, src) /\ padSize = src - i
      BY <2>3 DEF PartInv, StateInv
    <3>2. Xz!PaddedFrom(parts, i, src + 1)
      <4>1. \A k \in i + 1 .. src + 1 : k \in i + 1 .. src \/ k = src + 1
        BY <1>1
      <4> QED BY <2>3, <3>1, <4>1 DEF Xz!PaddedFrom, Kind
    <3>3. padSize' = src + 1 - i /\ i \in 1 .. src + 1
      BY <1>1, <2>3, <3>1
    <3> QED BY <3>2, <3>3
  <2> QED BY <2>1, <2>2, <2>3
<1>5. StateInv'
  <2>1. Kind(src)' = next /\ src' > 0 /\ src' = src + 1
    BY <1>1 DEF Kind
  <2> HIDE DEF next, Xz!PaddedFrom
  <2>2. state' = "STREAM_PADDING" =>
          \E i \in 1 .. src' : Xz!PaddedFrom(parts', i, src') /\ padSize' = src' - i
    <3> SUFFICES ASSUME state' = "STREAM_PADDING"
                 PROVE  \E i \in 1 .. src' : Xz!PaddedFrom(parts', i, src') /\ padSize' = src' - i
      OBVIOUS
    <3>1. PICK i \in 1 .. src + 1 : Xz!PaddedFrom(parts, i, src + 1) /\ padSize' = src + 1 - i
      BY <1>4
    <3>2. parts' = parts /\ src' = src + 1
      OBVIOUS
    <3>3. Xz!PaddedFrom(parts', i, src')
      BY <3>1, <3>2 DEF Xz!PaddedFrom
    <3>4. i \in 1 .. src'
      BY <3>1, <3>2
    <3>5. padSize' = src' - i
      <4>1. padSize' = src + 1 - i
        BY <3>1, Zenon
      <4>2. src' = src + 1
        OBVIOUS
      <4>3. src \in Int /\ i \in Int
        BY <1>1
      <4> QED BY <4>1, <4>2, <4>3
    <3> QED BY <3>3, <3>4, <3>5
  <2>3. state' # "STREAM_HEADER"
    BY <1>2
  <2>4. /\ state' = "BLOCK_HEADER" => next \in {"header", "check"}
        /\ state' = "BLOCK" => next \in {"block", "data"}
        /\ state' = "BLOCK_FOOTER" => next = "mark"
        /\ state' = "STREAM_FOOTER" => next = "index"
        /\ state' = "STREAM_PADDING" => next \in {"footer", "pad"}
        /\ state' \in {"STREAM_HEADER", "BLOCK_HEADER", "BLOCK", "BLOCK_FOOTER", "STREAM_FOOTER", "STREAM_PADDING"}
    BY <1>2
  <2> QED BY <2>1, <2>2, <2>3, <2>4 DEF StateInv
<1>6. OrderedTo(src)'
  <2> HIDE DEF Xz!PaddedFrom
  <2> QED BY <1>3 DEF OrderedTo, Kind
<1>7. PartsAre' /\ src' \in 0 .. PartCount' /\ padSize' \in Nat
  <2>1. PartsAre'
    BY DEF PartInv, PartsAre, PartCount, Kind
  <2>2. PartCount' = PartCount
    BY DEF PartCount
  <2> QED BY <1>1, <2>1, <2>2
<1> QED BY <1>5, <1>6, <1>7 DEF PartInv

\* xzDecompress and XzUnpacker_Code: the parts taken are in order, and the state says where.
LEMMA PartStep == PartInv /\ AmountInv /\ Xz!XzStep => PartInv'
<1> SUFFICES ASSUME PartInv, AmountInv, Xz!XzStep PROVE PartInv'
  OBVIOUS
<1>1. src \in Nat /\ PartCount \in Nat /\ padSize \in Nat /\ from \in Nat
  BY DEF PartInv, PartsAre
<1>2. ASSUME UNCHANGED <<parts, src, state, padSize>>, from' \in Nat PROVE PartInv'
  <2> HIDE DEF Xz!PaddedFrom
  <2>1. PartsAre' /\ PartCount' = PartCount
    BY <1>2 DEF PartInv, PartsAre, PartCount, Kind
  <2>2. OrderedTo(src)' /\ StateInv'
    BY <1>2, <2>1 DEF PartInv, OrderedTo, StateInv, Kind, PaddedByFour
  <2>3. src' \in 0 .. PartCount' /\ padSize' \in Nat
    BY <1>2, <2>1 DEF PartInv
  <2> QED BY <1>2, <2>1, <2>2, <2>3 DEF PartInv
<1>3. CASE Xz!Call
  BY <1>1, <1>2, <1>3 DEF Xz!Call
<1>4. CASE Xz!LoopEnds
  BY <1>1, <1>2, <1>4 DEF Xz!LoopEnds
<1>5. CASE Xz!PutOut
  BY <1>1, <1>2, <1>5 DEF Xz!PutOut
<1>6. CASE Xz!TakeIn
  <2>1. /\ src < PartCount /\ UNCHANGED <<parts, from, padSize>> /\ src' = src + 1 /\ state = "BLOCK"
        /\ \/ Kind(src + 1) = "data" /\ state' = "BLOCK"
           \/ Kind(src + 1) = "mark" /\ state' = "BLOCK_FOOTER"
    BY <1>1, <1>6 DEF Xz!TakeIn, Xz!Is, Xz!SrcLeft, Xz!Ahead, Kind, PartCount
  <2>2. \E t \in Taken : t[1] = state /\ t[2] = Kind(src + 1) /\ state' = t[3]
    <3>1. <<"BLOCK", "data", "BLOCK">> \in Taken /\ <<"BLOCK", "mark", "BLOCK_FOOTER">> \in Taken
      BY DEF Taken
    <3>2. CASE Kind(src + 1) = "data" /\ state' = "BLOCK"
      <4> DEFINE t == <<"BLOCK", "data", "BLOCK">>
      <4>1. t[1] = state /\ t[2] = Kind(src + 1) /\ state' = t[3]
        BY <2>1, <3>2
      <4> QED BY <3>1, <4>1
    <3>3. CASE Kind(src + 1) = "mark" /\ state' = "BLOCK_FOOTER"
      <4> DEFINE t == <<"BLOCK", "mark", "BLOCK_FOOTER">>
      <4>1. t[1] = state /\ t[2] = Kind(src + 1) /\ state' = t[3]
        BY <2>1, <3>3
      <4> QED BY <3>1, <4>1
    <3> QED BY <2>1, <3>2, <3>3
  <2>3. Kind(src + 1) # "pad" /\ Kind(src + 1) # "footer"
    BY <2>1
  <2> QED BY <1>1, <2>1, <2>2, <2>3, TakesOne
<1>7. CASE Xz!BlockReturns
  BY <1>1, <1>2, <1>7 DEF Xz!BlockReturns
<1>8. CASE Xz!Take
  <2>1. /\ src < PartCount /\ UNCHANGED <<parts, from>> /\ src' = src + 1
        /\ \E t \in Xz!Transition : t[1] = state /\ t[2] = Kind(src + 1) /\ state' = t[3]
        /\ padSize' = IF Kind(src + 1) = "pad" THEN padSize + 1
                      ELSE IF Kind(src + 1) = "footer" THEN 0 ELSE padSize
    BY <1>1, <1>8 DEF Xz!Take, Xz!SrcLeft, Xz!Ahead, Kind, PartCount
  <2>2. \E t \in Taken : t[1] = state /\ t[2] = Kind(src + 1) /\ state' = t[3]
    BY <2>1 DEF Taken
  <2> QED BY <1>1, <2>1, <2>2, TakesOne
<1>9. CASE Xz!NextStream
  <2>1. /\ src < PartCount /\ UNCHANGED <<parts, src, from, padSize>> /\ Kind(src + 1) # "pad"
        /\ state = "STREAM_PADDING" /\ state' = "STREAM_HEADER" /\ padSize % 4 = 0
    BY <1>1, <1>9 DEF Xz!NextStream, Xz!Is, Xz!SrcLeft, Xz!Ahead, Kind, PartCount
  <2>2. src > 0 /\ Kind(src) \in {"footer", "pad"}
    BY <2>1 DEF PartInv, StateInv
  <2>3. PaddedByFour(src)
    <3>1. PICK i \in 1 .. src : Xz!PaddedFrom(parts, i, src) /\ padSize = src - i
      BY <2>1 DEF PartInv, StateInv
    <3>2. ASSUME NEW k \in 1 .. src, k < src, Xz!PaddedFrom(parts, k, src) PROVE (src - k) % 4 = 0
      <4>1. k = i
        BY <1>1, <3>1, <3>2, OnePadding
      <4> QED BY <2>1, <3>1, <4>1
    <3> QED BY <3>2 DEF PaddedByFour
  <2>4. PartsAre' /\ PartCount' = PartCount
    BY <2>1 DEF PartInv, PartsAre, PartCount, Kind
  <2> HIDE DEF Xz!PaddedFrom
  <2>5. OrderedTo(src)'
    BY <2>1 DEF PartInv, OrderedTo, Kind
  <2>6. PaddedByFour(src)'
    BY <2>1, <2>3 DEF PaddedByFour
  <2>7. StateInv'
    BY <2>1, <2>2, <2>4, <2>6 DEF StateInv, Kind
  <2> QED BY <1>1, <2>1, <2>4, <2>5, <2>7 DEF PartInv
<1>10. CASE Xz!WantsInput
  BY <1>1, <1>2, <1>10 DEF Xz!WantsInput
<1>11. CASE Xz!CodeFails
  BY <1>1, <1>2, <1>11 DEF Xz!CodeFails
<1>12. CASE Xz!Collect
  BY <1>1, <1>2, <1>12 DEF Xz!Collect
<1>13. CASE Xz!XzReturn
  BY <1>1, <1>2, <1>13 DEF Xz!XzReturn
<1> QED BY <1>3, <1>4, <1>5, <1>6, <1>7, <1>8, <1>9, <1>10, <1>11, <1>12, <1>13 DEF Xz!XzStep

\* What the unpacked parts come to so far.
LEMMA AmountStep == XzInv /\ Xz!XzStep => AmountInv'
<1> SUFFICES ASSUME XzInv, Xz!XzStep PROVE AmountInv'
  OBVIOUS
<1> USE DEF XzInv
<1>1. src \in Nat /\ PartCount \in Nat /\ src <= PartCount
  BY DEF PartInv, PartsAre
<1>2. OutBuf \in Nat \ {0} /\ MaxAlloc \in Nat
  BY SerialAssumption, RunAssumption
<1>3. xtotal \in Nat /\ xtotal <= MaxAlloc /\ destLen \in 0 .. OutBuf /\ destLen \in Nat /\ pending \in Nat
  BY <1>2 DEF AmountInv
<1>4. UNCHANGED parts
  BY DEF Xz!XzStep, Xz!Call, Xz!LoopEnds, Xz!PutOut, Xz!TakeIn, Xz!BlockReturns, Xz!Take,
         Xz!NextStream, Xz!WantsInput, Xz!CodeFails, Xz!Collect, Xz!XzReturn
<1>5. Sum' = Sum /\ PartCount' = PartCount /\ Whole' = Whole
  BY <1>4 DEF Sum, PartCount, Whole
<1>6. \A k \in 0 .. PartCount : Sum[k] \in Nat
  BY SumGrows DEF PartInv
<1>7. \A k \in 0 .. PartCount - 1 : Sum[k + 1] = Sum[k] + parts[k + 1].gives
  BY SumGrows DEF PartInv
<1> DEFINE S(k) == Sum[k]
<1>8. S(src) \in Nat /\ S(PartCount) = Whole
  BY <1>1, <1>6 DEF Whole
<1>9. src < PartCount => S(src + 1) = S(src) + parts[src + 1].gives
  <2> SUFFICES ASSUME src < PartCount PROVE S(src + 1) = S(src) + parts[src + 1].gives
    OBVIOUS
  <2>1. src \in 0 .. PartCount - 1
    BY <1>1
  <2> QED BY <1>7, <2>1
<1>10. src < PartCount => parts[src + 1].gives \in Nat /\ (Kind(src + 1) # "data" => parts[src + 1].gives = 0)
  <2> SUFFICES ASSUME src < PartCount
               PROVE  parts[src + 1].gives \in Nat /\ (Kind(src + 1) # "data" => parts[src + 1].gives = 0)
    OBVIOUS
  <2>1. src + 1 \in 1 .. PartCount
    BY <1>1
  <2> QED BY <2>1 DEF PartInv, PartsAre
<1>11. /\ xpc = "loop" => xtotal + pending = S(src)
       /\ xpc \in {"code", "called"} => xtotal + destLen + pending = S(src)
       /\ state # "BLOCK" => pending = 0
       /\ xpc = "called" => destLen = OutBuf \/ (src = PartCount /\ pending = 0)
       /\ xpc \in {"loop", "called"} /\ status # "NOT_FINISHED" => pending = 0
       /\ xpc = "end" /\ xret = 1 => src = PartCount /\ xtotal = Whole
  BY DEF AmountInv
<1>12. /\ xpc' = "loop" => xtotal' + pending' = S(src')
       /\ xpc' \in {"code", "called"} => xtotal' + destLen' + pending' = S(src')
       /\ state' # "BLOCK" => pending' = 0
       /\ xpc' = "called" => destLen' = OutBuf \/ (src' = PartCount /\ pending' = 0)
       /\ xpc' \in {"loop", "called"} /\ status' # "NOT_FINISHED" => pending' = 0
       /\ xpc' = "end" /\ xret' = 1 => src' = PartCount /\ xtotal' = Whole
       /\ xtotal' \in Nat /\ xtotal' <= MaxAlloc /\ destLen' \in 0 .. OutBuf /\ pending' \in Nat
       => AmountInv'
  BY <1>5 DEF AmountInv
<1> HIDE DEF S
<1>13. CASE Xz!Call
  <2>1. UNCHANGED <<src, pending, xtotal, state>> /\ destLen' = 0 /\ xpc = "loop" /\ xpc' = "code"
    BY <1>13 DEF Xz!Call
  <2> QED BY <1>2, <1>3, <1>8, <1>11, <1>12, <2>1
<1>14. CASE Xz!LoopEnds
  <2>1. UNCHANGED <<src, pending, xtotal, state, destLen>> /\ xpc = "loop" /\ xpc' = "end"
    BY <1>14 DEF Xz!LoopEnds
  <2>2. status # "NOT_FINISHED" /\ src = PartCount
    <3>1. status # "NOT_FINISHED" /\ ~(PartCount - src > 0)
      BY <1>14 DEF Xz!LoopEnds, Xz!GoesOn, Xz!SrcLeft, PartCount
    <3> QED BY <1>1, <3>1
  <2> QED BY <1>2, <1>3, <1>8, <1>11, <1>12, <2>1, <2>2
<1>15. CASE Xz!PutOut
  <2> DEFINE room == OutBuf - destLen
             n == IF pending < room THEN pending ELSE room
  <2>1. UNCHANGED <<src, xtotal, state, xpc>> /\ xpc = "code" /\ destLen' = destLen + n /\ pending' = pending - n
        /\ state = "BLOCK" /\ destLen < OutBuf
    BY <1>15 DEF Xz!PutOut, Xz!Least
  <2>2. n \in Nat /\ n <= pending /\ n <= room
    BY <1>2, <1>3
  <2> HIDE DEF n
  <2> QED BY <1>2, <1>3, <1>8, <1>11, <1>12, <2>1, <2>2
<1>16. CASE Xz!TakeIn
  <2>1. /\ src < PartCount /\ UNCHANGED <<xpc, xtotal, destLen>> /\ src' = src + 1 /\ state = "BLOCK"
        /\ pending = 0 /\ pending' = parts[src + 1].gives /\ xpc = "code"
        /\ \/ Kind(src + 1) = "data" /\ state' = "BLOCK"
           \/ Kind(src + 1) = "mark" /\ state' = "BLOCK_FOOTER"
    BY <1>1, <1>16 DEF Xz!TakeIn, Xz!Is, Xz!SrcLeft, Xz!Ahead, Kind, PartCount
  <2>2. state' # "BLOCK" => pending' = 0
    BY <1>10, <2>1
  <2>3. S(src') = S(src) + pending' /\ pending' \in Nat
    BY <1>9, <1>10, <2>1
  <2> QED BY <1>2, <1>3, <1>8, <1>11, <1>12, <2>1, <2>2, <2>3
<1>17. CASE Xz!BlockReturns
  <2>1. /\ UNCHANGED <<src, pending, xtotal, state, destLen>> /\ xpc = "code" /\ xpc' = "called"
        /\ state = "BLOCK"
        /\ \/ destLen = OutBuf /\ status' = "NOT_FINISHED"
           \/ destLen < OutBuf /\ pending = 0 /\ ~(PartCount - src # 0)
    BY <1>17 DEF Xz!BlockReturns, Xz!SrcLeft, PartCount
  <2> QED BY <1>1, <1>2, <1>3, <1>8, <1>11, <1>12, <2>1
<1>18. CASE Xz!Take
  <2>1. /\ src < PartCount /\ UNCHANGED <<xpc, pending, xtotal, destLen>> /\ src' = src + 1 /\ xpc = "code"
        /\ \E t \in Xz!Transition : t[1] = state /\ t[2] = Kind(src + 1) /\ state' = t[3]
    BY <1>1, <1>18 DEF Xz!Take, Xz!SrcLeft, Xz!Ahead, Kind, PartCount
  <2>2. state # "BLOCK" /\ Kind(src + 1) # "data"
    BY <2>1 DEF Xz!Transition
  <2>3. S(src') = S(src) /\ pending' = 0
    BY <1>8, <1>9, <1>10, <1>11, <2>1, <2>2
  <2> QED BY <1>2, <1>3, <1>8, <1>11, <1>12, <2>1, <2>2, <2>3
<1>19. CASE Xz!NextStream
  <2>1. UNCHANGED <<xpc, src, pending, xtotal, destLen>> /\ state = "STREAM_PADDING" /\ xpc = "code"
    BY <1>19 DEF Xz!NextStream
  <2> QED BY <1>2, <1>3, <1>8, <1>11, <1>12, <2>1
<1>20. CASE Xz!WantsInput
  <2>1. /\ UNCHANGED <<src, pending, xtotal, state, destLen>> /\ xpc = "code" /\ xpc' = "called"
        /\ state # "BLOCK" /\ PartCount - src = 0
    BY <1>20 DEF Xz!WantsInput, Xz!SrcLeft, PartCount
  <2> QED BY <1>1, <1>2, <1>3, <1>8, <1>11, <1>12, <2>1
<1>21. CASE Xz!CodeFails
  <2>1. UNCHANGED <<src, pending, xtotal, state, destLen>> /\ xpc' = "end" /\ xret' = -1
    BY <1>21 DEF Xz!CodeFails
  <2> QED BY <1>2, <1>3, <1>8, <1>11, <1>12, <2>1
<1>22. CASE Xz!Collect
  <2>1. UNCHANGED <<src, pending, state, destLen, status>> /\ xpc = "called"
    BY <1>22 DEF Xz!Collect
  <2>2. CASE xret' = -2 /\ xpc' = "end" /\ UNCHANGED xtotal
    BY <1>2, <1>3, <1>8, <1>11, <1>12, <2>1, <2>2
  <2>3. CASE /\ destLen = 0 \/ ~(destLen > MaxAlloc - xtotal)
             /\ xtotal' = xtotal + destLen
             /\ xpc' = IF Xz!Moved THEN "loop" ELSE "end"
             /\ UNCHANGED xret
    <3>1. xtotal' \in Nat /\ xtotal' <= MaxAlloc /\ xtotal' + pending' = S(src')
      BY <1>2, <1>3, <1>8, <1>11, <2>1, <2>3
    <3>2. xpc' = "end" => src = PartCount /\ pending = 0
      <4> SUFFICES ASSUME xpc' = "end" PROVE src = PartCount /\ pending = 0
        OBVIOUS
      <4>1. ~(destLen > 0)
        BY <2>3 DEF Xz!Moved
      <4> QED BY <1>2, <1>3, <1>11, <2>1, <4>1
    <3>3. xpc' = "loop" \/ xpc' = "end"
      BY <2>3
    <3>4. xpc' = "end" => xtotal' = Whole
      BY <1>2, <1>3, <1>8, <2>1, <3>1, <3>2
    <3> QED BY <1>2, <1>3, <1>8, <1>11, <1>12, <2>1, <3>1, <3>2, <3>3, <3>4
  <2> QED BY <1>22, <2>2, <2>3 DEF Xz!Collect, Xz!TooMuch
<1>23. CASE Xz!XzReturn
  <2>1. UNCHANGED <<src, pending, xtotal, state, destLen>> /\ xpc' = "done"
    BY <1>23 DEF Xz!XzReturn
  <2> QED BY <1>2, <1>3, <1>8, <1>11, <1>12, <2>1
<1> QED BY <1>13, <1>14, <1>15, <1>16, <1>17, <1>18, <1>19, <1>20, <1>21, <1>22, <1>23 DEF Xz!XzStep

\* ... and each answer has its reason.
LEMMA ReasonStep == XzInv /\ Xz!XzStep => ReasonInv'
<1> SUFFICES ASSUME XzInv, Xz!XzStep PROVE ReasonInv'
  OBVIOUS
<1> USE DEF XzInv
<1>1. src \in Nat /\ PartCount \in Nat /\ src <= PartCount
  BY DEF PartInv, PartsAre
<1>2. OutBuf \in Nat \ {0} /\ MaxAlloc \in Nat
  BY SerialAssumption, RunAssumption
<1>3. xtotal \in Nat /\ destLen \in Nat /\ pending \in Nat
  BY <1>2 DEF AmountInv
<1>4. UNCHANGED parts
  BY DEF Xz!XzStep, Xz!Call, Xz!LoopEnds, Xz!PutOut, Xz!TakeIn, Xz!BlockReturns, Xz!Take,
         Xz!NextStream, Xz!WantsInput, Xz!CodeFails, Xz!Collect, Xz!XzReturn
<1>5. IsFile' = IsFile /\ Whole' = Whole
  BY <1>4 DEF Sum, PartCount, Whole, IsFile
<1>6. CASE UNCHANGED <<xret, xmem>> /\ xpc \notin {"end", "done"} /\ xpc' \in {"loop", "code", "called", "end"}
  BY <1>5, <1>6 DEF ReasonInv
<1>7. CASE Xz!CodeFails
  <2>1. src < PartCount /\ xret' = -1 /\ xpc' = "end"
    BY <1>1, <1>7 DEF Xz!CodeFails, Xz!SrcLeft, PartCount
  <2>2. CASE Xz!Unexpected /\ UNCHANGED xmem
    <3>1. ASSUME IsFile PROVE FALSE
      <4>1. state \in {"STREAM_HEADER", "BLOCK_HEADER", "BLOCK", "BLOCK_FOOTER", "STREAM_FOOTER", "STREAM_PADDING"}
        BY DEF PartInv, StateInv
      <4>2. CASE state = "BLOCK"
        <5>1. Kind(src + 1) \in {"data", "mark"}
          BY <2>1, <3>1, <4>2, NotAFile
        <5> QED BY <1>1, <2>1, <2>2, <4>2, <5>1
                DEF Xz!Unexpected, Xz!Is, Xz!SrcLeft, Xz!Ahead, Kind, PartCount
      <4>3. CASE state = "STREAM_PADDING"
        <5>1. Kind(src + 1) # "pad" /\ padSize % 4 # 0
          BY <1>1, <2>1, <2>2, <4>3 DEF Xz!Unexpected, Xz!Is, Xz!SrcLeft, Xz!Ahead, Kind, PartCount
        <5> QED BY <2>1, <3>1, <4>3, <5>1, NotAFile
      <4>4. CASE state \notin {"BLOCK", "STREAM_PADDING"}
        <5>1. \A t \in Xz!Transition : ~(t[1] = state /\ t[2] = Kind(src + 1))
          BY <2>2, <4>4 DEF Xz!Unexpected, Xz!Ahead, Kind
        <5>2. \/ state = "STREAM_HEADER" /\ Kind(src + 1) = "header"
              \/ state = "BLOCK_HEADER" /\ Kind(src + 1) = "block"
              \/ state = "BLOCK_HEADER" /\ Kind(src + 1) = "index"
              \/ state = "BLOCK_FOOTER" /\ Kind(src + 1) = "check"
              \/ state = "STREAM_FOOTER" /\ Kind(src + 1) = "footer"
          BY <2>1, <3>1, <4>1, <4>4, NotAFile
        <5> QED BY <5>1, <5>2 DEF Xz!Transition
      <4> QED BY <4>2, <4>3, <4>4
    <3> QED BY <1>5, <2>1, <2>2, <3>1 DEF ReasonInv
  <2>3. CASE xmem' = TRUE
    BY <1>5, <2>1, <2>3 DEF ReasonInv
  <2> QED BY <1>7, <2>2, <2>3 DEF Xz!CodeFails
<1>8. CASE Xz!Collect
  <2>1. xpc = "called" /\ xret = 1
    BY <1>8 DEF Xz!Collect, ReasonInv
  <2>2. CASE destLen > MaxAlloc - xtotal /\ xret' = -2 /\ xpc' = "end" /\ UNCHANGED xmem
    <3>1. xtotal + destLen + pending = Sum[src]
      BY <2>1 DEF AmountInv
    <3>2. Sum[src] <= Whole /\ Sum[src] \in Nat /\ Whole \in Nat
      <4>1. /\ Sum[0] = 0
            /\ \A k \in 0 .. PartCount : Sum[k] \in Nat /\ Sum[k] <= Sum[PartCount]
        BY SumGrows DEF PartInv
      <4>2. src \in 0 .. PartCount /\ PartCount \in 0 .. PartCount
        BY <1>1
      <4> QED BY <4>1, <4>2 DEF Whole
    <3>3. Whole > MaxAlloc
      BY <1>2, <1>3, <2>2, <3>1, <3>2
    <3> QED BY <1>5, <2>2, <3>3 DEF ReasonInv
  <2>3. CASE xret' = -2 /\ xpc' = "end" /\ xmem' = TRUE
    BY <1>5, <2>3 DEF ReasonInv
  <2>4. CASE UNCHANGED <<xret, xmem>> /\ xpc' \in {"loop", "end"}
    BY <1>6, <2>1, <2>4
  <2> QED BY <1>8, <2>2, <2>3, <2>4 DEF Xz!Collect, Xz!TooMuch
<1>9. CASE Xz!XzReturn
  <2>1. /\ xpc = "end" /\ xpc' = "done" /\ UNCHANGED <<xmem, xtotal>>
        /\ xret' = IF xret = 1 THEN (IF Xz!StreamWasFinished THEN 0 ELSE -1) ELSE xret
    BY <1>9 DEF Xz!XzReturn, Xz!Running
  <2>2. CASE xret = 1
    <3>1. src = PartCount /\ xtotal = Whole
      BY <2>1, <2>2 DEF AmountInv
    <3>2. Xz!StreamWasFinished <=> IsFile
      BY <3>1, FileAtEnd
    <3> QED BY <1>5, <2>1, <2>2, <3>1, <3>2 DEF ReasonInv
  <2>3. CASE xret # 1
    BY <1>5, <2>1, <2>3 DEF ReasonInv
  <2> QED BY <2>2, <2>3
<1>10. CASE Xz!Call \/ Xz!LoopEnds \/ Xz!PutOut \/ Xz!TakeIn \/ Xz!BlockReturns \/ Xz!Take
            \/ Xz!NextStream \/ Xz!WantsInput
  <2>1. UNCHANGED <<xret, xmem>> /\ xpc \notin {"end", "done"} /\ xpc' \in {"loop", "code", "called", "end"}
    BY <1>10 DEF Xz!Call, Xz!LoopEnds, Xz!PutOut, Xz!TakeIn, Xz!BlockReturns, Xz!Take,
                 Xz!NextStream, Xz!WantsInput
  <2> QED BY <1>6, <2>1
<1> QED BY <1>7, <1>8, <1>9, <1>10 DEF Xz!XzStep

\* xzDecompress: each step.
LEMMA XzStepInv == XzInv /\ Xz!XzStep => XzInv'
BY PartStep, AmountStep, ReasonStep DEF XzInv

-----------------------------------------------------------------------------
(* zmat_run with its readers in detail implements ZmatRun *)

\* What the readers are given is what the call is about.
GivenInv ==
  /\ codec = "gzip" /\ op = "decode" =>
       stream \in GzipInputs /\ doc = [size |-> stream.size, fate |-> stream.fate]
  /\ codec = "xz" /\ op = "decode" =>
       /\ XzInv
       /\ \E i \in XzInputs : parts = i.parts /\ doc = [size |-> i.size, fate |-> i.fate]

FullInv == RInv /\ SerialInv /\ MeansInv /\ GivenInv

\* miniz_gzip_uncompress answers as an owner may.
LEMMA GzipAnswers == FullInv /\ GzipReturns => Abstract!RunOwner
<1> SUFFICES ASSUME FullInv, GzipReturns PROVE Abstract!RunOwner
  OBVIOUS
<1>1. pc = "owner" /\ codec = "gzip" /\ gpc = "done" /\ OwnerReturns(gret = 0, dlen, gmem)
  BY DEF GzipReturns
<1>2. op = "decode"
  BY <1>1 DEF FullInv, RInv, PathInv, InputInv, Owners
<1>3. stream \in GzipInputs /\ doc.size = stream.size /\ doc.fate = stream.fate
  BY <1>1, <1>2 DEF FullInv, GivenInv
<1>4. AnswerInv
  BY <1>3 DEF FullInv, MeansInv
<1>5. doc.size \in Nat /\ UIntMod \in Nat
  BY RunAssumption DEF FullInv, RInv, InputInv
<1>6. CASE gret = 0
  <2>1. doc.fate = "sound" /\ ~Abstract!TooLarge /\ dlen = doc.size
    BY <1>1, <1>3, <1>4, <1>5, <1>6 DEF AnswerInv, Abstract!TooLarge
  <2>2. Abstract!OwnerGives(doc.size) /\ UNCHANGED fault /\ pc' = "owned"
        /\ UNCHANGED <<input, zs, left, total, packed, rounds, rc>>
    BY <1>1, <1>6, <2>1 DEF OwnerReturns, OwnerGives, Abstract!OwnerGives, Hands, Abstract!Hands,
         GivesNull, Abstract!GivesNull
  <2> QED BY <1>1, <1>2, <2>1, <2>2 DEF Abstract!RunOwner, Abstract!input, input
<1>7. CASE gret # 0
  <2>1. gmem \in BOOLEAN /\ (doc.fate = "sound" /\ ~Abstract!TooLarge => gmem)
    BY <1>1, <1>2, <1>3, <1>4, <1>5, <1>7 DEF AnswerInv, Abstract!TooLarge
  <2>2. Abstract!OwnerRefuses /\ fault' = gmem /\ pc' = "owned"
        /\ UNCHANGED <<input, zs, left, total, packed, rounds, rc>>
    BY <1>1, <1>7 DEF OwnerReturns, OwnerRefuses, Abstract!OwnerRefuses,
         output, Abstract!output
  <2> QED BY <1>1, <2>1, <2>2 DEF Abstract!RunOwner, Abstract!input, input
<1> QED BY <1>6, <1>7

\* xzDecompress likewise.
LEMMA XzAnswers == FullInv /\ XzReturns => Abstract!RunOwner
<1> SUFFICES ASSUME FullInv, XzReturns PROVE Abstract!RunOwner
  OBVIOUS
<1>1. pc = "owner" /\ codec = "xz" /\ op = "decode" /\ xpc = "done" /\ OwnerReturns(xret = 0, xtotal, xmem)
  BY DEF XzReturns
<1>2. XzInv
  BY <1>1 DEF FullInv, GivenInv
<1>3. PICK i \in XzInputs : parts = i.parts /\ doc = [size |-> i.size, fate |-> i.fate]
  BY <1>1 DEF FullInv, GivenInv
<1>4. /\ doc.fate = "sound" <=> IsFile
      /\ doc.fate = "sound" => doc.size = Whole
  BY <1>3, StreamAssumption DEF Xz!IsXz, IsFile, Whole, Sum, PartCount
<1>5. doc.size \in Nat /\ MaxAlloc \in Nat
  BY RunAssumption DEF FullInv, RInv, InputInv
<1>6. CASE xret = 0
  <2>1. IsFile /\ xtotal = Whole /\ xtotal \in Nat /\ xtotal <= MaxAlloc
    BY <1>2, <1>6 DEF XzInv, ReasonInv, AmountInv
  <2>2. doc.fate = "sound" /\ xtotal = doc.size /\ ~Abstract!TooLarge
    BY <1>1, <1>4, <1>5, <2>1 DEF Abstract!TooLarge
  <2>3. Abstract!OwnerGives(doc.size) /\ UNCHANGED fault /\ pc' = "owned"
        /\ UNCHANGED <<input, zs, left, total, packed, rounds, rc>>
    BY <1>1, <1>6, <2>2 DEF OwnerReturns, OwnerGives, Abstract!OwnerGives, Hands, Abstract!Hands,
         GivesNull, Abstract!GivesNull
  <2> QED BY <1>1, <2>2, <2>3 DEF Abstract!RunOwner, Abstract!input, input
<1>7. CASE xret # 0
  <2>1. xmem \in BOOLEAN /\ (xmem \/ ~IsFile \/ Whole > MaxAlloc)
    <3>1. xret \in {-2, -1, 0, 1} /\ xret # 1 /\ xmem \in BOOLEAN
      BY <1>1, <1>2 DEF XzInv, ReasonInv
    <3>2. xret < 0
      BY <1>7, <3>1
    <3> QED BY <1>2, <3>1, <3>2 DEF XzInv, ReasonInv
  <2>2. doc.fate = "sound" /\ ~Abstract!TooLarge => xmem
    BY <1>1, <1>4, <1>5, <2>1 DEF Abstract!TooLarge
  <2>3. Abstract!OwnerRefuses /\ fault' = xmem /\ pc' = "owned"
        /\ UNCHANGED <<input, zs, left, total, packed, rounds, rc>>
    BY <1>1, <1>7 DEF OwnerReturns, OwnerRefuses, Abstract!OwnerRefuses,
         output, Abstract!output
  <2> QED BY <1>1, <2>1, <2>2, <2>3 DEF Abstract!RunOwner, Abstract!input, input
<1> QED BY <1>6, <1>7

\* A text has a length.
LEMMA EncodedLength ==
  ASSUME NEW doc_, Len(doc_) \in Nat, NEW m \in Int
  PROVE  Len(B64!Encode(doc_, m)) \in Nat
<1> DEFINE n == Len(doc_)
           within == (4 * (n \div 3)) \div B64!Width
<1>1. B64!Width \in Nat \ {0}
  BY WidthIs
<1>2. n \div 3 \in Nat /\ B64!Groups(n) \in Nat
  BY DEF B64!Groups
<1>3. within \in Nat
  <2> DEFINE k == 4 * (n \div 3)
  <2>1. k \in Nat
    BY <1>2
  <2> HIDE DEF k
  <2>2. k \div B64!Width \in Nat
    BY <1>1, <2>1
  <2> QED BY <2>2 DEF k
<1> HIDE DEF within
<1>4. B64!Breaks(n, m) \in {0, within, within + 1}
  <2>1. B64!Breaks(n, m) \in {0, within + 0, within + 1}
    BY DEF B64!Breaks, within
  <2> QED BY <1>3, <2>1
<1>5. B64!EncodedLen(n, m) \in Nat
  BY <1>2, <1>3, <1>4 DEF B64!EncodedLen
<1> QED BY <1>5 DEF B64!Encode

\* base64_encode and base64_decode likewise.
LEMMA EncodeAnswers == FullInv /\ Base64Encodes => Abstract!RunOwner
<1> SUFFICES ASSUME FullInv, Base64Encodes PROVE Abstract!RunOwner
  OBVIOUS
<1>1. pc = "owner" /\ codec = "base64" /\ op = "encode"
  BY DEF Base64Encodes
<1>2. bytes \in Documents /\ mode \in Modes /\ doc.fate = "sound" /\ ~Abstract!TooLarge
  BY <1>1 DEF FullInv, SerialInv, Base64Inv, RInv, InputInv, Abstract!TooLarge
<1>3. CASE text' = B64!Encode(bytes, mode) /\ OwnerReturns(TRUE, Len(text'), FALSE)
  <2>1. Len(text') \in 1 .. Bound
    <3>1. Len(text') \in Lengths
      BY <1>2, <1>3 DEF Lengths
    <3>2. Len(text') \in Nat
      <4>1. Len(bytes) \in Nat /\ mode \in Int
        BY <1>2, SerialAssumption
      <4> QED BY <1>2, <1>3, <4>1, EncodedLength
    <3> QED BY <3>1, <3>2, SerialAssumption, RunAssumption
  <2>2. Abstract!OwnerGives(Len(text')) /\ UNCHANGED fault /\ pc' = "owned"
        /\ UNCHANGED <<input, zs, left, total, packed, rounds, rc>>
    BY <1>3 DEF OwnerReturns, OwnerGives, Abstract!OwnerGives, Hands, Abstract!Hands,
         GivesNull, Abstract!GivesNull
  <2> QED BY <1>1, <1>2, <2>1, <2>2 DEF Abstract!RunOwner, Abstract!input, input
<1>4. CASE OwnerReturns(FALSE, 0, TRUE)
  <2>1. Abstract!OwnerRefuses /\ fault' = TRUE /\ pc' = "owned"
        /\ UNCHANGED <<input, zs, left, total, packed, rounds, rc>>
    BY <1>4 DEF OwnerReturns, OwnerRefuses, Abstract!OwnerRefuses, output, Abstract!output
  <2> QED BY <1>1, <2>1 DEF Abstract!RunOwner, Abstract!input, input
<1> QED BY <1>3, <1>4 DEF Base64Encodes

\* A text that is not sound may pass, with no more than is said of it.
LEMMA DecodeAnswers == FullInv /\ Base64Decodes => Abstract!RunOwner
<1> SUFFICES ASSUME FullInv, Base64Decodes PROVE Abstract!RunOwner
  OBVIOUS
<1> DEFINE out == B64!Decode(text)
<1>1. pc = "owner" /\ codec = "base64" /\ op = "decode"
  BY DEF Base64Decodes
<1>2. PICK i \in Base64Inputs : text = i.text /\ doc = [size |-> i.size, fate |-> i.fate]
  BY <1>1 DEF FullInv, SerialInv, TextInv
<1>3. doc.size = i.size /\ doc.fate = i.fate /\ out = B64!Decode(i.text)
  BY <1>2
<1>4. ~Abstract!TooLarge /\ codec \notin Abstract!TellsDamage
  BY <1>1 DEF Abstract!TooLarge, Abstract!TellsDamage
<1>5. doc.fate = "sound" => out # B64!Refused /\ Len(out) = doc.size
  <2> SUFFICES ASSUME doc.fate = "sound" PROVE out # B64!Refused /\ Len(out) = doc.size
    OBVIOUS
  <2> HIDE DEF out
  <2>1. out = i.doc
    BY <1>3, SoundText
  <2>2. i.doc \in Seq(0 .. 255) /\ Len(i.doc) > 0 /\ i.size = Len(i.doc)
    BY <1>3, TextAssumption
  <2>3. out[1] \in 0 .. 255
    <3>1. \A S : \A d \in Seq(S) : Len(d) > 0 => d[1] \in S
      OBVIOUS
    <3> QED BY <2>1, <2>2, <3>1
  <2>4. B64!Refused[1] = -1
    BY DEF B64!Refused
  <2>5. out # B64!Refused
    BY <2>3, <2>4
  <2> QED BY <1>3, <2>1, <2>2, <2>5
<1>6. doc.fate # "sound" /\ out # B64!Refused => Len(out) \in 0 .. doc.size
  <2> HIDE DEF out
  <2> QED BY <1>3, TextAssumption
<1>7. OwnerReturns(out # B64!Refused, Len(out), FALSE) \/ OwnerReturns(FALSE, 0, TRUE)
  BY DEF Base64Decodes
<1> HIDE DEF out
<1>8. CASE OwnerReturns(out # B64!Refused, Len(out), FALSE) /\ out # B64!Refused
  <2>1. Abstract!OwnerGives(Len(out)) /\ UNCHANGED fault /\ pc' = "owned"
        /\ UNCHANGED <<input, zs, left, total, packed, rounds, rc>>
    BY <1>8 DEF OwnerReturns, OwnerGives, Abstract!OwnerGives, Hands, Abstract!Hands,
         GivesNull, Abstract!GivesNull
  <2>2. CASE doc.fate = "sound"
    BY <1>1, <1>4, <1>5, <2>1, <2>2 DEF Abstract!RunOwner, Abstract!input, input
  <2>3. CASE doc.fate # "sound"
    BY <1>1, <1>4, <1>6, <1>8, <2>1, <2>3 DEF Abstract!RunOwner, Abstract!Unnoticed, Abstract!input, input
  <2> QED BY <2>2, <2>3
<1>9. ASSUME NEW memory \in BOOLEAN, doc.fate = "sound" => memory, Abstract!OwnerRefuses, fault' = memory,
             pc' = "owned", UNCHANGED <<input, zs, left, total, packed, rounds, rc>>
      PROVE  Abstract!RunOwner
  BY <1>1, <1>9 DEF Abstract!RunOwner, Abstract!input, input
<1>10. CASE OwnerReturns(out # B64!Refused, Len(out), FALSE) /\ out = B64!Refused
  <2>1. Abstract!OwnerRefuses /\ fault' = FALSE /\ pc' = "owned"
        /\ UNCHANGED <<input, zs, left, total, packed, rounds, rc>>
    BY <1>10 DEF OwnerReturns, OwnerRefuses, Abstract!OwnerRefuses, output, Abstract!output
  <2> QED BY <1>5, <1>9, <1>10, <2>1
<1>11. CASE OwnerReturns(FALSE, 0, TRUE)
  <2>1. Abstract!OwnerRefuses /\ fault' = TRUE /\ pc' = "owned"
        /\ UNCHANGED <<input, zs, left, total, packed, rounds, rc>>
    BY <1>11 DEF OwnerReturns, OwnerRefuses, Abstract!OwnerRefuses, output, Abstract!output
  <2> QED BY <1>9, <2>1
<1> QED BY <1>7, <1>8, <1>10, <1>11

\* What else zmat_run does is what it does in ZmatRun.
LEMMA HereWidens == RunHere => Abstract!RunHere
<1>1. PackedSizes \subseteq 1 .. Bound
  BY RunAssumption
<1> USE DEF Abstract!input, input, Abstract!output, output
<1>2. Abstract!Offered = Offered
  BY DEF Offered, Abstract!Offered, Deflating, Abstract!Deflating, Retrying, Abstract!Retrying,
         Lz4, Abstract!Lz4
<1>3. Refuse => Abstract!Refuse
  BY DEF Refuse, Abstract!Refuse, Known, Abstract!Known, Owners, Abstract!Owners, Deflating,
         Abstract!Deflating, Retrying, Abstract!Retrying, Lz4, Abstract!Lz4, Return, Abstract!Return
<1>4. Dispatch => Abstract!Dispatch
  BY DEF Dispatch, Abstract!Dispatch, Known, Abstract!Known, Owners, Abstract!Owners, Deflating,
         Abstract!Deflating, Retrying, Abstract!Retrying, Lz4, Abstract!Lz4
<1>5. OwnerFails => Abstract!OwnerFails
  BY DEF OwnerFails, Abstract!OwnerFails, OwnerFrees, Abstract!OwnerFrees, FreeOut, Abstract!FreeOut,
         Null, Abstract!Null, OwnerError, Abstract!OwnerError, Return, Abstract!Return
<1>6. OwnerSucceeds => Abstract!OwnerSucceeds
  BY DEF OwnerSucceeds, Abstract!OwnerSucceeds, Return, Abstract!Return
<1>7. InitCodec => Abstract!InitCodec
  BY DEF InitCodec, Abstract!InitCodec, Deflating, Abstract!Deflating, Lz4, Abstract!Lz4, Return,
         Abstract!Return
<1>8. AllocBound => Abstract!AllocBound
  BY <1>2 DEF AllocBound, Abstract!AllocBound, Deflating, Abstract!Deflating, CloseState,
         Abstract!CloseState, Null, Abstract!Null, Return, Abstract!Return
<1>9. OpenContext => Abstract!OpenContext
  BY DEF OpenContext, Abstract!OpenContext, FreeOut, Abstract!FreeOut, Null, Abstract!Null, Return,
         Abstract!Return
<1>10. CompressZlib => Abstract!CompressZlib
  BY <1>1 DEF CompressZlib, Abstract!CompressZlib, CloseState, Abstract!CloseState, FreeOut,
         Abstract!FreeOut, Null, Abstract!Null, Smaller, Abstract!Smaller, Shrinks, Abstract!Shrinks, Return,
         Abstract!Return
<1>11. CompressGzip => Abstract!CompressGzip
  BY <1>1 DEF CompressGzip, Abstract!CompressGzip, CloseState, Abstract!CloseState, Return,
         Abstract!Return
<1>12. CompressLz4 => Abstract!CompressLz4
  BY <1>1 DEF CompressLz4, Abstract!CompressLz4, Lz4, Abstract!Lz4, FreeOut, Abstract!FreeOut, Null,
         Abstract!Null, Shrinks, Abstract!Shrinks, Return, Abstract!Return
<1>13. CompressZstd => Abstract!CompressZstd
  BY <1>1 DEF CompressZstd, Abstract!CompressZstd, CloseState, Abstract!CloseState, AsSize,
         Abstract!AsSize, IsError, Abstract!IsError, FreeOut, Abstract!FreeOut, Null, Abstract!Null, Shrinks,
         Abstract!Shrinks, Return, Abstract!Return
<1>14. CompressBlosc => Abstract!CompressBlosc
  BY <1>1, <1>2 DEF CompressBlosc, Abstract!CompressBlosc, Negative, Abstract!Negative, FreeOut,
         Abstract!FreeOut, Null, Abstract!Null, Shrinks, Abstract!Shrinks, Return, Abstract!Return
<1>15. AllocInflate => Abstract!AllocInflate
  BY <1>2 DEF AllocInflate, Abstract!AllocInflate, InitialOutbuf, Abstract!InitialOutbuf, Clamp,
         Abstract!Clamp, Smaller, Abstract!Smaller, CloseState, Abstract!CloseState, Return, Abstract!Return
<1>16. AllocAttempt => Abstract!AllocAttempt
  BY <1>2 DEF AllocAttempt, Abstract!AllocAttempt, Retrying, Abstract!Retrying, Lz4, Abstract!Lz4,
         InitialOutbuf, Abstract!InitialOutbuf, Clamp, Abstract!Clamp, Smaller, Abstract!Smaller, Return,
         Abstract!Return
<1>17. AllocKnown => Abstract!AllocKnown
  BY DEF AllocKnown, Abstract!AllocKnown, Return, Abstract!Return
<1>18. Inflate => Abstract!Inflate
  BY DEF Inflate, Abstract!Inflate, Inflated, Abstract!Inflated
<1>19. InflateEnds => Abstract!InflateEnds
  BY DEF InflateEnds, Abstract!InflateEnds, AtEnd, Abstract!AtEnd, CloseState, Abstract!CloseState,
         Shrinks, Abstract!Shrinks, Return, Abstract!Return
<1>20. InflateFails => Abstract!InflateFails
  BY DEF InflateFails, Abstract!InflateFails, AtEnd, Abstract!AtEnd, Stuck, Abstract!Stuck,
         InflateReleases, Abstract!InflateReleases, FreeOut, Abstract!FreeOut, Null, Abstract!Null,
         CloseState, Abstract!CloseState, Return, Abstract!Return
<1>21. InflateMore => Abstract!InflateMore
  BY DEF InflateMore, Abstract!InflateMore, AtEnd, Abstract!AtEnd, Stuck, Abstract!Stuck
<1>22. InflateFull => Abstract!InflateFull
  BY DEF InflateFull, Abstract!InflateFull, AtEnd, Abstract!AtEnd, Stuck, Abstract!Stuck
<1>23. Attempt => Abstract!Attempt
  BY DEF Attempt, Abstract!Attempt, Empty, Abstract!Empty, Retrying, Abstract!Retrying, Lz4,
         Abstract!Lz4, Smaller, Abstract!Smaller, Shrinks, Abstract!Shrinks, Return, Abstract!Return
<1>24. AttemptKnown => Abstract!AttemptKnown
  BY DEF AttemptKnown, Abstract!AttemptKnown, AsSize, Abstract!AsSize, IsError, Abstract!IsError,
         Smaller, Abstract!Smaller, FreeOut, Abstract!FreeOut, Null, Abstract!Null, Shrinks,
         Abstract!Shrinks, Return, Abstract!Return
<1>25. TooManyRounds => Abstract!TooManyRounds
  BY DEF TooManyRounds, Abstract!TooManyRounds, OutOfRounds, Abstract!OutOfRounds, RoundsError,
         Abstract!RoundsError, Lz4, Abstract!Lz4, FreeOut, Abstract!FreeOut, Null, Abstract!Null,
         GrowReleases, Abstract!GrowReleases, CloseState, Abstract!CloseState, Return, Abstract!Return
<1>26. CannotGrow => Abstract!CannotGrow
  BY DEF CannotGrow, Abstract!CannotGrow, OutOfRounds, Abstract!OutOfRounds, Grown, Abstract!Grown,
         Smaller, Abstract!Smaller, GrowFrees, Abstract!GrowFrees, FreeOut, Abstract!FreeOut, Null,
         Abstract!Null, GrowReleases, Abstract!GrowReleases, CloseState, Abstract!CloseState, Return,
         Abstract!Return
<1>27. Grow => Abstract!Grow
  BY DEF Grow, Abstract!Grow, OutOfRounds, Abstract!OutOfRounds, Grown, Abstract!Grown, Smaller,
         Abstract!Smaller
<1> QED BY <1>3, <1>4, <1>5, <1>6, <1>7, <1>8, <1>9, <1>10, <1>11, <1>12, <1>13, <1>14, <1>15,
           <1>16, <1>17, <1>18, <1>19, <1>20, <1>21, <1>22, <1>23, <1>24, <1>25, <1>26, <1>27
        DEF RunHere, Abstract!RunHere

\* No step changes what a reader is given.
LEMMA StreamsKept == [SerialNext]_svars => stream' = stream /\ parts' = parts
<1> SUFFICES ASSUME [SerialNext]_svars PROVE stream' = stream /\ parts' = parts
  OBVIOUS
<1>1. Gzip!GzipStep => stream' = stream
  BY DEF Gzip!GzipStep, Gzip!CheckBase, Gzip!SkipExtra, Gzip!SkipName, Gzip!SkipComment, Gzip!SkipText,
         Gzip!CheckHeaderCrc, Gzip!ReadTrailer, Gzip!Allocate, Gzip!Inflate, Gzip!Verify
<1>2. Xz!XzStep => parts' = parts
  BY DEF Xz!XzStep, Xz!Call, Xz!LoopEnds, Xz!PutOut, Xz!TakeIn, Xz!BlockReturns, Xz!Take,
         Xz!NextStream, Xz!WantsInput, Xz!CodeFails, Xz!Collect, Xz!XzReturn
<1>3. CASE GzipReads
  BY <1>1, <1>3 DEF GzipReads, xzVars
<1>4. CASE XzReads
  BY <1>2, <1>4 DEF XzReads, gzipVars
<1>5. CASE Here \/ GzipReturns \/ XzReturns \/ Base64Encodes \/ Base64Decodes \/ SerialEnded
           \/ UNCHANGED svars
  BY <1>5 DEF Here, GzipReturns, XzReturns, Base64Encodes, Base64Decodes, SerialEnded, svars, gzipVars, xzVars
<1> QED BY <1>3, <1>4, <1>5 DEF SerialNext, SerialRun

\* A step of zmat_run with its readers is one of ZmatRun or a reader's own.
LEMMA SerialRefines == FullInv /\ [SerialNext]_svars => [Abstract!Next]_(Abstract!vars)
<1> SUFFICES ASSUME FullInv, [SerialNext]_svars PROVE [Abstract!Next]_(Abstract!vars)
  OBVIOUS
<1>1. CASE Here
  BY <1>1, HereWidens, OwnerWidens DEF Here, Abstract!Next, Abstract!Run
<1>2. CASE GzipReads \/ XzReads \/ UNCHANGED svars
  BY <1>2 DEF GzipReads, XzReads, svars, vars, Abstract!vars
<1>3. CASE GzipReturns \/ XzReturns \/ Base64Encodes \/ Base64Decodes
  BY <1>3, GzipAnswers, XzAnswers, EncodeAnswers, DecodeAnswers DEF Abstract!Next, Abstract!Run
<1>4. CASE SerialEnded
  BY <1>4 DEF SerialEnded, Ended, vars, Abstract!vars
<1> QED BY <1>1, <1>2, <1>3, <1>4 DEF SerialNext, SerialRun

\* Each step, of zmat_run or of a reader.
LEMMA FullStep == FullInv /\ [SerialNext]_svars => FullInv'
<1> SUFFICES ASSUME FullInv, [SerialNext]_svars PROVE FullInv'
  OBVIOUS
<1>1. SerialInv'
  BY SerialStepInv DEF FullInv
<1>2. RInv'
  <2>1. CASE Here
    <3>1. CASE RunHere
      BY <3>1, RunStep DEF FullInv, Next, Run
    <3>2. CASE RunOwner \/ MembersTooLarge
      BY <3>2, OwnerWidens, OwnerStep DEF FullInv
    <3> QED BY <2>1, <3>1, <3>2 DEF Here
  <2>2. CASE UNCHANGED vars
    BY <2>2, RunStep DEF FullInv
  <2>3. CASE GzipReturns \/ XzReturns \/ Base64Encodes \/ Base64Decodes
    BY <2>3, GzipAnswers, XzAnswers, EncodeAnswers, DecodeAnswers, OwnerStep DEF FullInv
  <2>4. CASE GzipReads \/ XzReads \/ SerialEnded \/ UNCHANGED svars
    BY <2>2, <2>4 DEF GzipReads, XzReads, SerialEnded, Ended, svars
  <2> QED BY <2>1, <2>3, <2>4 DEF SerialNext, SerialRun
<1>3. MeansInv'
  <2>1. CASE GzipReads
    BY <2>1, MeansStep DEF GzipReads, FullInv, SerialInv
  <2>2. CASE ~GzipReads
    <3>1. UNCHANGED gzipVars
      BY <2>2 DEF SerialNext, SerialRun, SerialEnded, Here, GzipReturns, XzReads, XzReturns, Base64Encodes,
                  Base64Decodes, svars
    <3> QED BY <3>1 DEF FullInv, MeansInv, WalkInv, FoundInv, AnswerInv, gzipVars, Gzip!InLen,
                        Gzip!HasAll, Gzip!Has
  <2> QED BY <2>1, <2>2
<1>4. GivenInv'
  <2>1. codec' = codec /\ op' = op /\ doc' = doc /\ stream' = stream /\ parts' = parts
    <3>1. CASE SerialNext
      BY <3>1, Base64Keeps, StreamsKept DEF input
    <3>2. CASE UNCHANGED svars
      BY <3>2 DEF svars, vars, gzipVars, xzVars
    <3> QED BY <3>1, <3>2
  <2>2. codec = "xz" /\ op = "decode" => XzInv'
    <3> SUFFICES ASSUME codec = "xz", op = "decode" PROVE XzInv'
      OBVIOUS
    <3>1. XzInv
      BY DEF FullInv, GivenInv
    <3>2. CASE XzReads
      BY <3>1, <3>2, XzStepInv DEF XzReads
    <3>3. CASE ~XzReads
      <4>1. UNCHANGED xzVars
        BY <3>3 DEF SerialNext, SerialRun, SerialEnded, Here, GzipReads, GzipReturns, XzReturns, Base64Encodes,
                    Base64Decodes, svars
      <4> HIDE DEF Xz!IsXzFile, Xz!Given, Xz!PaddedFrom
      <4> QED BY <3>1, <4>1 DEF XzInv, PartInv, AmountInv, ReasonInv, PartsAre, OrderedTo, StateInv,
                  PaddedByFour, IsFile, Whole, Sum, PartCount, Kind, xzVars
    <3> QED BY <3>2, <3>3
  <2> QED BY <2>1, <2>2 DEF FullInv, GivenInv
<1> QED BY <1>1, <1>2, <1>3, <1>4 DEF FullInv

\* The initial states: what is to be decoded has a size ZmatRun knows.
LEMMA Sized ==
  /\ \A i \in GzipInputs : /\ Len(i.bytes) \in 1 .. Bound /\ i.size \in 0 .. SizeMod - 1
                           /\ i.fate \in Fates
  /\ \A i \in XzInputs : /\ Len(i.parts) \in 1 .. Bound /\ i.size \in 0 .. SizeMod - 1
                         /\ i.fate \in Fates
  /\ \A i \in Base64Inputs : /\ Len(i.text) \in 1 .. Bound /\ i.size \in 0 .. SizeMod - 1
                             /\ i.fate \in Fates
<1>1. /\ Bound \in Nat /\ SizeMod \in Nat /\ 0 \notin Lengths
      /\ \A n \in Lengths : n <= Bound
      /\ \A n \in Lengths \cup Contents : n < SizeMod
  BY SerialAssumption, RunAssumption
<1>2. ASSUME NEW i \in GzipInputs
      PROVE  Len(i.bytes) \in 1 .. Bound /\ i.size \in 0 .. SizeMod - 1 /\ i.fate \in Fates
  <2>1. Len(i.bytes) \in Lengths /\ i.size \in Contents
    BY DEF Lengths, Contents
  <2>2. Len(i.bytes) \in Nat /\ i.size \in Nat
    BY SerialAssumption, StreamAssumption DEF Gzip!IsGzip
  <2>3. i.fate \in Fates
    BY StreamAssumption DEF Gzip!IsGzip, Gzip!GzipFate, Fates
  <2> QED BY <1>1, <2>1, <2>2, <2>3
<1>3. ASSUME NEW i \in XzInputs
      PROVE  Len(i.parts) \in 1 .. Bound /\ i.size \in 0 .. SizeMod - 1 /\ i.fate \in Fates
  <2>1. Len(i.parts) \in Lengths /\ i.size \in Contents
    BY DEF Lengths, Contents
  <2>2. Len(i.parts) \in Nat /\ i.size \in Nat /\ i.fate \in Fates
    BY StreamAssumption DEF Xz!IsXz, Fates
  <2> QED BY <1>1, <2>1, <2>2
<1>4. ASSUME NEW i \in Base64Inputs
      PROVE  Len(i.text) \in 1 .. Bound /\ i.size \in 0 .. SizeMod - 1 /\ i.fate \in Fates
  <2>1. Len(i.text) \in Lengths /\ i.size \in Contents
    BY DEF Lengths, Contents
  <2>2. Len(i.text) \in Nat
    BY TextAssumption
  <2>3. i.size \in Nat /\ i.fate \in Fates
    <3>1. CASE i.fate = "sound"
      BY <3>1, TextAssumption DEF Fates
    <3>2. CASE i.fate # "sound"
      BY <3>2, TextAssumption
    <3> QED BY <3>1, <3>2
  <2> QED BY <1>1, <2>1, <2>2, <2>3
<1> QED BY <1>2, <1>3, <1>4

\* What zmat_run is given, whichever reader it is for, ZmatRun may be given.
LEMMA InitRefines == SerialInit => Abstract!Init
<1> SUFFICES ASSUME SerialInit PROVE Abstract!Init
  OBVIOUS
<1>1. Abstract!Started
  BY DEF SerialInit, Started, Abstract!Started, Null, Abstract!Null, Pending, Abstract!Pending
<1>2. ASSUME op = "decode", codec \in Codecs, insize \in 1 .. Bound, NEW n \in 0 .. SizeMod - 1,
             NEW f \in Fates, doc = [size |-> n, fate |-> f]
      PROVE  Abstract!Init
  <2>1. doc \in [size : 0 .. SizeMod - 1, fate : Abstract!FatesOf(codec)]
    BY <1>2 DEF Fates, Abstract!FatesOf, Abstract!Fates
  <2> QED BY <1>1, <1>2, <2>1 DEF Abstract!Init
<1>3. CASE PlainInit
  <2>1. PackedSizes \subseteq 1 .. Bound /\ Sizes \subseteq 0 .. SizeMod - 1
    BY RunAssumption
  <2>2. op \in {"encode", "decode"} /\ codec \in Codecs
    BY <1>3 DEF PlainInit, Init
  <2>3. CASE op = "encode"
    BY <1>1, <1>3, <2>1, <2>2, <2>3 DEF PlainInit, Init, Abstract!Init
  <2>4. CASE op # "encode"
    <3>1. /\ insize \in PackedSizes \cup (Sizes \cap {0})
          /\ doc \in [size : Sizes, fate : FatesOf(codec)]
      BY <1>3, <2>4 DEF PlainInit, Init
    <3>2. /\ insize \in 1 .. Bound \cup ((0 .. SizeMod - 1) \cap {0})
          /\ doc \in [size : 0 .. SizeMod - 1, fate : Abstract!FatesOf(codec)]
      BY <2>1, <3>1 DEF FatesOf, Abstract!FatesOf, Fates, Abstract!Fates
    <3> QED BY <1>1, <2>2, <2>4, <3>2 DEF Abstract!Init
  <2> QED BY <2>3, <2>4
<1>4. CASE GzipInit
  <2>1. /\ stream \in GzipInputs /\ op = "decode" /\ insize = Len(stream.bytes) /\ codec = "gzip"
        /\ doc = [size |-> stream.size, fate |-> stream.fate]
    BY <1>4 DEF GzipInit, Decodes
  <2> QED BY <1>2, <2>1, Sized, StreamAssumption
<1>5. CASE XzInit
  <2>1. PICK i \in XzInputs : /\ parts = i.parts /\ op = "decode" /\ insize = Len(i.parts)
                              /\ doc = [size |-> i.size, fate |-> i.fate]
    BY <1>5 DEF XzInit, Decodes
  <2>2. codec = "xz"
    BY <1>5 DEF XzInit
  <2> QED BY <1>2, <2>1, <2>2, Sized, StreamAssumption
<1>6. CASE Base64Init
  <2>1. codec = "base64" /\ codec \in Codecs
    BY <1>6, StreamAssumption DEF Base64Init
  <2>2. CASE /\ op = "encode" /\ bytes \in Documents /\ insize = Len(bytes)
             /\ doc = [size |-> insize, fate |-> "sound"]
    <3>1. Len(bytes) \in Nat /\ Len(bytes) \in Contents /\ SizeMod \in Nat
      BY <2>2, SerialAssumption, RunAssumption DEF Contents
    <3>2. insize \in 0 .. SizeMod - 1
      BY <2>2, <3>1, SerialAssumption
    <3> QED BY <1>1, <2>1, <2>2, <3>2 DEF Abstract!Init
  <2>3. ASSUME NEW i \in Base64Inputs, Decodes(Len(i.text), i) PROVE Abstract!Init
    <3>1. op = "decode" /\ insize = Len(i.text) /\ doc = [size |-> i.size, fate |-> i.fate]
      BY <2>3 DEF Decodes
    <3> QED BY <1>2, <2>1, <3>1, Sized
  <2> QED BY <1>6, <2>2, <2>3 DEF Base64Init
<1> QED BY <1>3, <1>4, <1>5, <1>6 DEF SerialInit

\* zmat_run at its start.
LEMMA StartHolds == SerialInit => RInv
<1> SUFFICES ASSUME SerialInit PROVE RInv
  OBVIOUS
<1>1. Abstract!Init /\ Started
  BY InitRefines DEF SerialInit
<1>2. /\ insize \in Nat /\ doc \in [size : Nat, fate : Fates \cup {"rest"}]
      /\ op \in {"encode", "decode"}
      /\ op = "encode" => doc.fate = "sound"
      /\ doc.fate = "rest" => codec = "lzip"
  <2>1. Bound \in Nat /\ SizeMod \in Nat
    BY RunAssumption
  <2>2. CASE op = "encode"
    <3>1. insize \in Nat /\ doc = [size |-> insize, fate |-> "sound"]
      BY <1>1, <2>1, <2>2 DEF Abstract!Init
    <3> QED BY <2>2, <3>1 DEF Fates
  <2>3. CASE op # "encode"
    <3>1. op = "decode" /\ insize \in Nat /\ doc \in [size : 0 .. SizeMod - 1, fate : Abstract!FatesOf(codec)]
      BY <1>1, <2>1, <2>3 DEF Abstract!Init
    <3>2. /\ Abstract!FatesOf(codec) \subseteq Fates \cup {"rest"}
          /\ "rest" \in Abstract!FatesOf(codec) => codec = "lzip"
      BY DEF Abstract!FatesOf, Abstract!Fates, Fates
    <3> QED BY <2>1, <2>3, <3>1, <3>2
  <2> QED BY <2>2, <2>3
<1>3. InputInv
  BY <1>1, <1>2 DEF InputInv, Started, Null
<1> QED BY <1>1, <1>3 DEF RInv, PathInv, HeapInv, ContentInv, BufferInv, AllOrNothing, DecodesTheWhole,
                          LimitsAreTheCap, Started

\* Where xzDecompress begins.
LEMMA XzStarts == ASSUME Xz!XzIdle, NEW i \in XzInputs, parts = i.parts PROVE XzInv
<1>1. PartsAre
  <2> DEFINE p == i.parts
  <2>1. /\ p \in Seq([kind : STRING, gives : Nat])
        /\ \A k \in 1 .. Len(p) : p[k].kind # "data" => p[k].gives = 0
    BY StreamAssumption DEF Xz!IsXz
  <2> HIDE DEF p
  <2>2. \A S : \A q \in Seq(S) : Len(q) \in Nat /\ \A k \in 1 .. Len(q) : q[k] \in S
    OBVIOUS
  <2>3. Len(p) \in Nat /\ \A k \in 1 .. Len(p) : p[k] \in [kind : STRING, gives : Nat]
    BY <2>1, <2>2
  <2>4. parts = p
    BY DEF p
  <2> QED BY <2>1, <2>3, <2>4 DEF PartsAre, PartCount, Kind
<1>2. src = 0 /\ from = 0 /\ padSize = 0 /\ state = "STREAM_HEADER" /\ PartCount \in Nat
  BY <1>1 DEF Xz!XzIdle, PartsAre
<1>3. OrderedTo(src)
  <2>1. ~(0 > 0) /\ 1 .. 0 - 1 = {} /\ 1 .. 0 = {}
    OBVIOUS
  <2> QED BY <1>2, <2>1 DEF OrderedTo
<1>4. PartInv
  <2>1. StateInv
    BY <1>2 DEF StateInv
  <2> QED BY <1>1, <1>2, <1>3, <2>1 DEF PartInv
<1>5. AmountInv
  <2>1. OutBuf \in Nat /\ MaxAlloc \in Nat /\ Sum[0] = 0
    BY <1>1, SumGrows, SerialAssumption, RunAssumption
  <2> QED BY <1>2, <2>1 DEF Xz!XzIdle, AmountInv, Whole
<1>6. ReasonInv
  <2>1. xret = 1 /\ xpc = "loop" /\ xmem = FALSE
    BY DEF Xz!XzIdle, Xz!Running
  <2>2. ~(1 < 0) /\ 1 # 0 /\ 1 \in {-2, -1, 0, 1}
    OBVIOUS
  <2> QED BY <2>1, <2>2 DEF ReasonInv
<1> QED BY <1>4, <1>5, <1>6 DEF XzInv

\* All parts of the invariant hold at the start ...
LEMMA FullInit == SerialInit => FullInv
<1> SUFFICES ASSUME SerialInit PROVE FullInv
  OBVIOUS
<1>1. MeansInv
  BY DEF SerialInit, Gzip!GzipIdle, MeansInv, WalkInv, FoundInv, AnswerInv, Behind
<1>2. GivenInv
  <2>1. CASE GzipInit
    BY <2>1 DEF GzipInit, Decodes, GivenInv
  <2>2. CASE XzInit
    <3>1. PICK i \in XzInputs : parts = i.parts /\ doc = [size |-> i.size, fate |-> i.fate]
      BY <2>2 DEF XzInit, Decodes
    <3>2. XzInv
      BY <3>1, XzStarts DEF SerialInit
    <3> QED BY <2>2, <3>1, <3>2 DEF XzInit, GivenInv
  <2>3. CASE PlainInit \/ Base64Init
    BY <2>3 DEF PlainInit, Base64Init, HasReader, GivenInv
  <2> QED BY <2>1, <2>2, <2>3 DEF SerialInit
<1> QED BY <1>1, <1>2, StartHolds, SerialInitInv DEF FullInv

\* ... and ever after.
LEMMA FullInvariance == SerialSpec => []FullInv
BY FullInit, FullStep, PTL DEF SerialSpec

\* zmatlib.c: zmat_run with miniz_gzip_uncompress, xzDecompress and the base64 functions in
\* detail does step by step what ZmatRun says an owner of its output may do: a sound
\* stream within the limits fails only for want of memory, and no other passes where the
\* format can tell.
THEOREM SerialRefinesRun == SerialSpec => Abstract!Init /\ [][Abstract!Next]_(Abstract!vars)
BY InitRefines, SerialRefines, FullInvariance, PTL DEF SerialSpec

\* zmatlib.c: every exit releases or hands over, once, the output and the codec's state,
\* whatever the readers answer (what a reader allocates for itself is not counted).
THEOREM SerialAllOrNothing == SerialSpec => []AllOrNothing
<1>1. FullInv => AllOrNothing
  BY DEF FullInv, RInv
<1> QED BY <1>1, FullInvariance, PTL

\* zmatlib.c: no cut or damaged gzip or xz stream passes its reader for a sound one, and
\* a sound one gives the whole document, for every layout of header, members and blocks;
\* for the other codecs as in RunDecodesTheWhole.
THEOREM SerialDecodesTheWhole == SerialSpec => []DecodesTheWhole
<1>1. FullInv => DecodesTheWhole
  BY DEF FullInv, RInv
<1> QED BY <1>1, FullInvariance, PTL

\* zmatlib.c: no sound document below the cap is refused but for want of memory.
THEOREM SerialLimits == SerialSpec => []LimitsAreTheCap
<1>1. FullInv => LimitsAreTheCap
  BY DEF FullInv, RInv
<1> QED BY <1>1, FullInvariance, PTL
=============================================================================
