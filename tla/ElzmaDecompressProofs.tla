------------------------ MODULE ElzmaDecompressProofs ------------------------
(***************************************************************************)
(* Proofs about ElzmaDecompress, for any buffer sizes and any stream.       *)
(*                                                                          *)
(* The inductive invariant adds to the types what each program point knows: *)
(* inside the inner loop, amt is exactly what is left of the input buffer;  *)
(* after the end mark, all of the content has been written; and only a      *)
(* footer found after the mark is the right one.  The second part says where *)
(* the input buffer lies in the stream, which decides about the footer.     *)
(***************************************************************************)
EXTENDS ElzmaDecompress, TLAPS

StreamInv ==
  /\ stream \in [format : Formats, data : 1 .. MaxData, size : 1 .. MaxSize,
                 sound : BOOLEAN, cut : 0 .. Header + Footer]
  /\ avail <= StreamSize(stream) + MaxTail

PointInv ==
  /\ pc = "decode" => dstLen = OutBuf /\ amt = srcLen - bufOff /\ amt > 0
  /\ stat = "mark" => total = stream.size
  /\ pc \in {"header", "fill"} => stat # "mark"
  /\ pc = "check" /\ stream.format = "lzma" => total = stream.size
  /\ footer # "zero" => stat = "mark" /\ pc \in {"check", "ended"}
  /\ rc = "ok" => /\ result = stream.size
                  /\ stream.format = "lzip" => stream.sound

EInv == StreamInv /\ TypeOK /\ PointInv

-----------------------------------------------------------------------------
\* The initial states satisfy the inductive invariant.
LEMMA ElzmaInit == Init => EInv
<1> SUFFICES ASSUME Init PROVE EInv
  OBVIOUS
<1> USE ElzmaAssumption DEF Init
<1>1. StreamSize(stream) \in Nat /\ StreamSize(stream) <= Header + MaxData + Footer
  BY DEF StreamSize, FooterSize
<1>2. avail \in Nat /\ avail <= StreamSize(stream) + MaxTail
  BY <1>1
<1>3. StreamInv /\ avail \in 0 .. Header + MaxData + Footer + MaxTail
  BY <1>1, <1>2 DEF StreamInv
<1> QED BY <1>3 DEF EInv, TypeOK, PointInv, Null

\* Every step preserves it.
LEMMA ElzmaStep == EInv /\ [Next]_vars => EInv'
<1> SUFFICES ASSUME EInv, [Next]_vars PROVE EInv'
  OBVIOUS
<1> USE ElzmaAssumption DEF EInv, TypeOK, PointInv, loop
<1>1. ASSUME UNCHANGED stream, avail' \in Nat, avail' <= avail PROVE StreamInv'
  <2>1. StreamSize(stream) \in Nat /\ StreamSize(stream)' = StreamSize(stream)
    BY <1>1 DEF StreamInv, StreamSize, FooterSize
  <2> QED BY <1>1, <2>1 DEF StreamInv
<1>2. CASE ReadHeader
  BY <1>1, <1>2 DEF ReadHeader, Stop, StreamInv
<1>3. CASE Fill
  BY <1>1, <1>3 DEF Fill, Stop, StreamInv, Smaller
<1>4. CASE Decode
  <2>1. PICK k \in 0 .. amt, d \in 0 .. dstLen, mark \in BOOLEAN :
          /\ Decodes(k, d, mark)
          /\ used' = used + k /\ total' = total + d
          /\ dstLen' = d /\ bufOff' = bufOff + k
          /\ stat' = IF mark THEN "mark" ELSE "more"
          /\ amt' = IF bufOff + k >= srcLen THEN k ELSE srcLen - (bufOff + k)
          /\ pc' = IF Drained(k, mark) THEN "status" ELSE "decode"
    BY <1>4 DEF Decode
  <2>2. UNCHANGED <<stream, avail, srcLen, footer, rc, result>> /\ pc = "decode"
    BY <1>4 DEF Decode
  <2>3. /\ k <= stream.data - used /\ d <= stream.size - total
        /\ mark => d = stream.size - total
        /\ mark \/ k = amt \/ d = dstLen
    BY <2>1 DEF Decodes
  <2>4. stream.data \in Nat /\ stream.size \in Nat
    BY DEF StreamInv
  <2>5. TypeOK'
    BY <2>1, <2>2, <2>3, <2>4
  <2>6. pc' = "decode" => dstLen' = OutBuf /\ amt' = srcLen - bufOff' /\ amt' > 0
    BY <2>1, <2>2, <2>3 DEF Drained
  <2>7. stat' = "mark" => total' = stream.size
    BY <2>1, <2>3, <2>4
  <2>8. pc' \in {"status", "decode"} /\ footer' = "zero"
    BY <2>1, <2>2
  <2>9. rc' = "ok" => result' = stream'.size /\ (stream'.format = "lzip" => stream'.sound)
    BY <2>2
  <2>10. PointInv'
    BY <2>2, <2>6, <2>7, <2>8, <2>9
  <2>11. StreamInv'
    BY <1>1, <2>2
  <2> QED BY <2>5, <2>10, <2>11
<1>5. CASE DecodeFails
  BY <1>1, <1>5 DEF DecodeFails, Stop, StreamInv
<1>6. CASE WriteFails
  BY <1>1, <1>6 DEF WriteFails, Stop, StreamInv
<1>7. CASE ReadFooter
  BY <1>1, <1>7 DEF ReadFooter, FooterAt, StreamInv, Formats
<1>8. CASE NextBuffer
  BY <1>1, <1>8 DEF NextBuffer, Enough, StreamInv, Formats
<1>9. CASE Check
  BY <1>1, <1>9 DEF Check, Agrees, Stop, StreamInv, Formats
<1>10. CASE UNCHANGED vars
  BY <1>1, <1>10 DEF vars, StreamInv
<1> QED
  BY <1>2, <1>3, <1>4, <1>5, <1>6, <1>7, <1>8, <1>9, <1>10 DEF Next, Run, Ended

\* The inductive invariant holds in every reachable state.
THEOREM ElzmaInvariance == Spec => []EInv
<1> QED BY ElzmaInit, ElzmaStep, PTL DEF Spec

\* The variables stay in their types; bufOff never passes srcLen, which is the
\* assertion of decompress.c:202.
THEOREM ElzmaTypeCorrect == Spec => []TypeOK
<1>1. EInv => TypeOK
  BY DEF EInv
<1> QED BY <1>1, ElzmaInvariance, PTL

\* Every call of the decoder is given the whole output buffer, although dstLen is
\* set only once per input buffer.
THEOREM ElzmaWholeBuffer == Spec => []WholeOutputBuffer
<1>1. EInv => WholeOutputBuffer
  BY DEF EInv, PointInv, WholeOutputBuffer
<1> QED BY <1>1, ElzmaInvariance, PTL

\* A stream that is cut or damaged is never taken for a whole one.
THEOREM ElzmaAcceptsOnlyWhole == Spec => []AcceptsOnlyWhole
<1>1. EInv => AcceptsOnlyWhole
  BY DEF EInv, PointInv, AcceptsOnlyWhole
<1> QED BY <1>1, ElzmaInvariance, PTL

-----------------------------------------------------------------------------
(* The footer *)

\* Where the input buffer lies in an intact stream: m full ones came before it.
Reads(m) ==
  /\ used = m * InBuf + bufOff
  /\ Header + m * InBuf + srcLen + avail >= StreamSize(stream)
  /\ avail > 0 => srcLen = InBuf \/ (pc = "fill" /\ used = 0)
  /\ IF stat = "mark" THEN used = stream.data /\ bufOff > 0 ELSE used < stream.data
  /\ pc = "decode" => stat # "mark"
  /\ pc = "fill" \/ (pc = "status" /\ stat # "mark") => bufOff = srcLen
  /\ pc = "fill" /\ used = 0 => m = 0 /\ srcLen = 0
  /\ pc = "status" /\ stat = "mark" /\ bufOff < srcLen => amt = srcLen - bufOff

FooterInv ==
  Intact => /\ pc \in {"fill", "decode", "status"} => \E m \in Nat : Reads(m)
            /\ pc = "check" /\ stream.format = "lzip" => (footer = "right" <=> FooterInMarkBuffer)
            /\ pc = "header" => used = 0 /\ srcLen = 0 /\ bufOff = 0 /\ avail >= StreamSize(stream)
            /\ rc # "pending" => pc = "ended"
            /\ RefusedOnlyAtBoundary

\* The end mark is in buffer m, and the footer with it when it ends no later.
LEMMA BufferOf ==
  ASSUME NEW m \in Nat, NEW o \in 1 .. InBuf, stream.data = m * InBuf + o
  PROVE  FooterInMarkBuffer <=> o + Footer <= InBuf
<1>1. InBuf \in Nat \ {0} /\ Footer \in Nat \ {0}
  BY ElzmaAssumption
<1> DEFINE q(x) == (m * InBuf + x) \div InBuf
<1>2. ASSUME NEW x \in 0 .. (InBuf - 1) PROVE q(x) = m
  BY <1>1
<1>3. ASSUME NEW x \in Nat, x >= InBuf PROVE q(x) # m
  <2>1. m * InBuf + x >= (m + 1) * InBuf
    BY <1>1, <1>3
  <2>2. q(x) >= m + 1
    BY <1>1, <2>1
  <2> QED BY <1>1, <2>2
<1>4. stream.data - 1 = m * InBuf + (o - 1) /\ stream.data + Footer - 1 = m * InBuf + (o + Footer - 1)
  BY <1>1
<1>5. (stream.data - 1) \div InBuf = m
  BY <1>1, <1>2, <1>4
<1>6. (stream.data + Footer - 1) \div InBuf = q(o + Footer - 1)
  BY <1>4
<1>7. o + Footer - 1 \in Nat
  BY <1>1
<1> HIDE DEF q
<1> QED BY <1>1, <1>2, <1>3, <1>5, <1>6, <1>7 DEF FooterInMarkBuffer

LEMMA FooterInit == Init => FooterInv
<1> SUFFICES ASSUME Init PROVE FooterInv
  OBVIOUS
<1>1. StreamSize(stream) \in Nat
  BY ElzmaAssumption DEF Init, StreamSize, FooterSize
<1> QED BY <1>1 DEF Init, FooterInv, Intact, RefusedOnlyAtBoundary

LEMMA FooterStep ==
  ASSUME EInv, EInv', FooterInv, [Next]_vars
  PROVE  FooterInv'
<1> SUFFICES ASSUME Intact PROVE FooterInv'
  <2>1. Intact' <=> Intact
    BY DEF Next, Run, Ended, vars, ReadHeader, Fill, Decode, DecodeFails, WriteFails, ReadFooter,
           NextBuffer, Check, Intact
  <2> QED BY <2>1 DEF FooterInv
<1>1. /\ InBuf \in Nat \ {0} /\ Header \in Nat \ {0} /\ Footer \in Nat \ {0}
      /\ stream.data \in Nat \ {0} /\ stream.sound /\ stream.format \in Formats
      /\ used \in Nat /\ bufOff \in Nat /\ srcLen \in Nat /\ avail \in Nat /\ amt \in Nat
      /\ bufOff <= srcLen /\ srcLen <= InBuf
      /\ StreamSize(stream) = Header + stream.data + (IF stream.format = "lzip" THEN Footer ELSE 0)
  BY ElzmaAssumption DEF EInv, StreamInv, TypeOK, Intact, StreamSize, FooterSize
<1> USE DEF loop
<1>2. CASE ReadHeader
  <2>1. CASE pc' = "fill"
    <3>1. /\ used' = 0 /\ srcLen' = 0 /\ bufOff' = 0 /\ stream' = stream /\ stat' # "mark"
          /\ avail' + Header >= StreamSize(stream) /\ rc' = rc /\ rc' = "pending"
      BY <1>1, <1>2, <2>1 DEF ReadHeader, FooterInv, Stop, EInv, PointInv
    <3>2. StreamSize(stream)' = StreamSize(stream)
      BY <3>1 DEF StreamSize, FooterSize
    <3>3. Header + 0 * InBuf + srcLen' + avail' >= StreamSize(stream)
      BY <1>1, <1>2, <3>1 DEF ReadHeader
    <3>4. used' = 0 * InBuf + bufOff' /\ used' < stream'.data
      BY <1>1, <3>1
    <3>5. Reads(0)'
      BY <2>1, <3>1, <3>2, <3>3, <3>4 DEF Reads
    <3> QED BY <2>1, <3>1, <3>5 DEF FooterInv, RefusedOnlyAtBoundary
  <2>2. CASE pc' # "fill"
    <3>1. pc' = "ended" /\ rc' \in {"input", "header"}
      BY <1>2, <2>2 DEF ReadHeader, Stop
    <3> QED BY <3>1 DEF FooterInv, RefusedOnlyAtBoundary
  <2> QED BY <2>1, <2>2
<1>3. CASE Fill
  <2>1. PICK m \in Nat : Reads(m)
    BY <1>3 DEF Fill, FooterInv
  <2>2. /\ srcLen' = Smaller(avail, InBuf) /\ avail' = avail - srcLen' /\ bufOff' = 0
        /\ stat' = "none" /\ used' = used /\ stream' = stream
    BY <1>3 DEF Fill
  <2>3. StreamSize(stream)' = StreamSize(stream)
    BY <2>2 DEF StreamSize, FooterSize
  <2>4. CASE srcLen' = 0
    <3>1. pc' = "ended" /\ rc' = "insufficient"
      BY <1>3, <2>4 DEF Fill, Stop
    <3> QED BY <3>1 DEF FooterInv, RefusedOnlyAtBoundary
  <2>5. CASE srcLen' # 0
    <3>1. pc' = "decode" /\ rc' = rc /\ rc = "pending" /\ pc = "fill" /\ stat # "mark"
      BY <1>3, <2>5 DEF Fill, FooterInv, EInv, PointInv
    <3>2. avail > 0 /\ srcLen' <= InBuf /\ srcLen' <= avail /\ (avail > srcLen' => srcLen' = InBuf)
      BY <1>1, <2>2, <2>5 DEF Smaller
    <3>3. PICK n \in Nat : used = n * InBuf /\ Header + n * InBuf + avail >= StreamSize(stream)
      <4>1. CASE used = 0
        <5>1. m = 0 /\ srcLen = 0
          BY <2>1, <3>1, <4>1 DEF Reads
        <5> QED BY <1>1, <2>1, <5>1 DEF Reads
      <4>2. CASE used # 0
        <5>1. srcLen = InBuf /\ bufOff = InBuf
          BY <1>1, <2>1, <3>1, <3>2, <4>2 DEF Reads
        <5>2. (m + 1) * InBuf = m * InBuf + InBuf /\ m + 1 \in Nat
          BY <1>1
        <5>3. used = m * InBuf + InBuf /\ Header + m * InBuf + InBuf + avail >= StreamSize(stream)
          BY <2>1, <5>1 DEF Reads
        <5>4. used = (m + 1) * InBuf /\ Header + (m + 1) * InBuf + avail >= StreamSize(stream)
          <6> DEFINE a == m * InBuf
                     b == (m + 1) * InBuf
          <6>1. a \in Nat /\ b = a + InBuf
            BY <1>1, <5>2
          <6>2. used = a + InBuf /\ Header + a + InBuf + avail >= StreamSize(stream)
            BY <5>3
          <6> HIDE DEF a, b
          <6>3. used = b /\ Header + b + avail >= StreamSize(stream)
            BY <1>1, <6>1, <6>2
          <6> QED BY <6>3 DEF b
        <5> QED BY <5>2, <5>4
      <4> QED BY <4>1, <4>2
    <3>4. Reads(n)'
      <4> DEFINE a == n * InBuf
      <4>4. a \in Nat
        BY <1>1
      <4>5. used = a /\ Header + a + avail >= StreamSize(stream)
        BY <3>3
      <4>6. srcLen' \in Nat /\ avail' = avail - srcLen'
        BY <1>1, <2>2 DEF Smaller
      <4> HIDE DEF a
      <4>7. used' = a + bufOff' /\ bufOff' = 0 /\ Header + a + srcLen' + avail' >= StreamSize(stream)
        BY <1>1, <2>2, <4>4, <4>5, <4>6
      <4>1. /\ used' = n * InBuf + bufOff' /\ bufOff' = 0
            /\ Header + n * InBuf + srcLen' + avail' >= StreamSize(stream)
        BY <4>7 DEF a
      <4>2. used' < stream'.data
        BY <2>1, <2>2, <3>1 DEF Reads
      <4>3. avail' > 0 => srcLen' = InBuf
        BY <1>1, <2>2 DEF Smaller
      <4> QED BY <2>2, <2>3, <3>1, <4>1, <4>2, <4>3 DEF Reads
    <3> QED BY <3>1, <3>3, <3>4 DEF FooterInv, RefusedOnlyAtBoundary
  <2> QED BY <2>4, <2>5
<1>4. CASE Decode
  <2>1. PICK m \in Nat : Reads(m)
    BY <1>4 DEF Decode, FooterInv
  <2>2. PICK k \in 0 .. amt, d \in 0 .. dstLen, mark \in BOOLEAN :
          /\ Decodes(k, d, mark)
          /\ used' = used + k /\ total' = total + d
          /\ dstLen' = d /\ bufOff' = bufOff + k
          /\ stat' = IF mark THEN "mark" ELSE "more"
          /\ amt' = IF bufOff + k >= srcLen THEN k ELSE srcLen - (bufOff + k)
          /\ pc' = IF Drained(k, mark) THEN "status" ELSE "decode"
    BY <1>4 DEF Decode
  <2>3. /\ UNCHANGED <<stream, avail, srcLen, rc>> /\ pc = "decode" /\ rc = "pending"
        /\ amt = srcLen - bufOff
    BY <1>4 DEF Decode, FooterInv, EInv, PointInv
  <2>4. used < stream.data
    BY <2>1, <2>3 DEF Reads
  <2>5. StreamSize(stream)' = StreamSize(stream)
    BY <2>3 DEF StreamSize, FooterSize
  <2>6. k <= stream.data - used /\ (mark <=> k = stream.data - used) /\ bufOff + k <= srcLen
    <3>1. k <= stream.data - used /\ (mark <=> k = stream.data - used)
      BY <2>2, Zenon DEF Decodes
    <3>2. bufOff + k <= srcLen
      BY <1>1, <2>2, <2>3
    <3> QED BY <3>1, <3>2
  <2>7. Reads(m)'
    <3>1. /\ used' = m * InBuf + bufOff'
          /\ Header + m * InBuf + srcLen' + avail' >= StreamSize(stream)
          /\ avail' > 0 => srcLen' = InBuf
      BY <1>1, <2>1, <2>2, <2>3 DEF Reads
    <3>2. IF stat' = "mark" THEN used' = stream'.data /\ bufOff' > 0 ELSE used' < stream'.data
      BY <1>1, <2>2, <2>3, <2>4, <2>6
    <3>3. pc' = "status" /\ stat' # "mark" => bufOff' = srcLen'
      BY <1>1, <2>2, <2>3, <2>6 DEF Drained
    <3>4. bufOff' < srcLen' => amt' = srcLen' - bufOff'
      BY <1>1, <2>2, <2>3
    <3>5. pc' \in {"status", "decode"} /\ (pc' = "decode" => stat' # "mark")
      BY <2>2 DEF Drained
    <3> QED BY <2>5, <3>1, <3>2, <3>3, <3>4, <3>5 DEF Reads
  <2>8. pc' \in {"status", "decode"} /\ rc' = "pending"
    BY <2>2, <2>3
  <2> QED BY <2>7, <2>8 DEF FooterInv, RefusedOnlyAtBoundary
<1>5. CASE DecodeFails \/ WriteFails
  <2>1. pc' = "ended" /\ rc' \in {"decompress", "output"}
    BY <1>5 DEF DecodeFails, WriteFails, Stop
  <2> QED BY <2>1 DEF FooterInv, RefusedOnlyAtBoundary
<1>6. CASE ReadFooter
  <2>1. PICK m \in Nat : Reads(m)
    BY <1>6 DEF ReadFooter, FooterInv
  <2>2. /\ pc = "status" /\ stat = "mark" /\ pc' = "check" /\ stream' = stream /\ rc' = rc
        /\ rc = "pending" /\ footer = "zero"
        /\ footer' = IF stream.format = "lzip" /\ FooterFits THEN FooterAt ELSE footer
    BY <1>6 DEF ReadFooter, FooterInv, EInv, PointInv
  <2>3. stream.data = m * InBuf + bufOff /\ bufOff \in 1 .. InBuf
    BY <1>1, <2>1, <2>2 DEF Reads
  <2>4. FooterInMarkBuffer <=> bufOff + Footer <= InBuf
    BY <2>3, BufferOf
  <2>5. ASSUME stream.format = "lzip" PROVE bufOff + Footer <= InBuf <=> bufOff + Footer <= srcLen
    <3>1. Header + m * InBuf + srcLen + avail >= Header + stream.data + Footer
      BY <1>1, <2>1, <2>5 DEF Reads
    <3>2. srcLen + avail >= bufOff + Footer
      BY <1>1, <2>3, <3>1
    <3>3. avail > 0 => srcLen = InBuf
      BY <2>1, <2>2 DEF Reads
    <3> QED BY <1>1, <3>2, <3>3
  <2>6. bufOff + Footer <= srcLen => FooterFits
    BY <1>1, <2>1, <2>2 DEF Reads, FooterFits
  <2>7. stream.format = "lzip" => (footer' = "right" <=> FooterInMarkBuffer)
    BY <2>2, <2>4, <2>5, <2>6 DEF FooterAt
  <2>8. FooterInMarkBuffer' <=> FooterInMarkBuffer
    BY <2>2 DEF FooterInMarkBuffer
  <2> QED BY <2>2, <2>7, <2>8 DEF FooterInv, RefusedOnlyAtBoundary
<1>7. CASE NextBuffer
  <2>1. PICK m \in Nat : Reads(m)
    BY <1>7 DEF NextBuffer, FooterInv
  <2>2. /\ pc = "status" /\ stat # "mark" /\ pc' = IF Enough THEN "check" ELSE "fill"
        /\ UNCHANGED <<stream, avail, used, srcLen, bufOff, amt, stat, rc>> /\ rc = "pending"
    BY <1>7 DEF NextBuffer, FooterInv
  <2>3. CASE Enough
    BY <2>2, <2>3 DEF Enough, FooterInv, RefusedOnlyAtBoundary
  <2>4. CASE ~Enough
    <3>1. StreamSize(stream)' = StreamSize(stream)
      BY <2>2 DEF StreamSize, FooterSize
    <3>2. used = 0 => m * InBuf = 0 /\ bufOff = 0 /\ srcLen = 0
      BY <1>1, <2>1, <2>2 DEF Reads
    <3>3. used = 0 => m = 0
      BY <1>1, <3>2
    <3>4. Reads(m)'
      BY <1>1, <2>1, <2>2, <2>4, <3>1, <3>2, <3>3 DEF Reads
    <3> QED BY <2>2, <2>4, <3>4 DEF FooterInv, RefusedOnlyAtBoundary
  <2> QED BY <2>3, <2>4
<1>8. CASE Check
  <2>1. stream' = stream /\ pc' = "ended" /\ rc' = IF Agrees THEN "ok" ELSE "mismatch"
    BY <1>8 DEF Check, Stop
  <2>2. stream.format = "lzip" => (footer = "right" <=> FooterInMarkBuffer)
    BY <1>8 DEF Check, FooterInv
  <2>3. stream.format # "lzip" => total = stream.size
    BY <1>1, <1>8 DEF Check, EInv, PointInv, Formats
  <2>4. FooterInMarkBuffer' <=> FooterInMarkBuffer
    BY <2>1 DEF FooterInMarkBuffer
  <2> QED BY <1>1, <2>1, <2>2, <2>3, <2>4 DEF FooterInv, Agrees, RefusedOnlyAtBoundary
<1>9. CASE UNCHANGED vars
  <2>1. \A m : Reads(m)' <=> Reads(m)
    BY <1>9 DEF vars, Reads, StreamSize, FooterSize
  <2> QED BY <1>9, <2>1 DEF vars, FooterInv, RefusedOnlyAtBoundary, FooterInMarkBuffer, Intact, StreamSize, FooterSize
<1> QED BY <1>2, <1>3, <1>4, <1>5, <1>6, <1>7, <1>8, <1>9 DEF Next, Run, Ended

\* An intact stream is refused exactly when it is lzip and its footer is not in the input
\* buffer in which the end mark is (amt counts the bytes of one buffer, decompress.c:207).
THEOREM ElzmaRefusedAtBoundary == Spec => []RefusedOnlyAtBoundary
<1>1. EInv /\ FooterInv /\ [Next]_vars => EInv' /\ FooterInv'
  BY ElzmaStep, FooterStep
<1>2. FooterInv => RefusedOnlyAtBoundary
  BY DEF FooterInv, RefusedOnlyAtBoundary
<1> QED BY <1>1, <1>2, ElzmaInit, FooterInit, PTL DEF Spec
=============================================================================
