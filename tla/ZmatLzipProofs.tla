---------------------------- MODULE ZmatLzipProofs ----------------------------
(***************************************************************************)
(* Proofs about ZmatLzip, for any lengths and numbers of threads.           *)
(*                                                                          *)
(* The inductive invariant says where the threads can be in each phase of   *)
(* the caller, and that only slices of MinChunk bytes or more are given to  *)
(* threads, which is what keeps the last slice inside the input.  The       *)
(* second part says what the stream holds, how far the walk back has come   *)
(* and what the loop over the members has put together.                     *)
(***************************************************************************)
EXTENDS ZmatLzip, TLAPS, SequenceTheorems

Spawning == {"spawn", "undo", "join"}

TypeInv ==
  /\ main \in {"call", "encoded", "scan", "decode", "decoded", "failed"} \cup Spawning
  /\ len \in Nat \ {0} /\ n \in NThreads
  /\ i \in Nat /\ j \in Nat
  /\ th \in [Tids -> {"none", "compress", "patch", "exit", "joined"}]
  /\ out \in [Tids -> {NoOut, 0, 1}]

\* Threads are used only when there are two or more and the slices are long.
WorthIt == main \in Spawning => ~IsSingle

\* What a thread that was not created, or was joined by the undo loop, holds.
ThreadInv ==
  /\ \A t \in Tids : th[t] = "none" => out[t] = NoOut
  /\ main = "call" => i = 0 /\ (\A t \in Tids : th[t] = "none") /\ heap = {}
  /\ main \in {"spawn", "undo"} => i <= n /\ \A t \in Tids : t >= i => th[t] = "none"
  /\ main = "undo" => /\ j <= i
                      /\ \A t \in Tids : t < j => th[t] = "joined" /\ out[t] = NoOut
  /\ main = "join" => /\ i <= n
                      /\ \A t \in Tids : t < i => th[t] = "joined"
                      /\ \A t \in Tids : t >= n => th[t] = "none"
  /\ main \in {"encoded", "scan", "decode", "decoded", "failed"} =>
       /\ \A t \in Tids : th[t] \in {"none", "joined"}
       /\ \A t \in Tids : out[t] = NoOut
       /\ heap = {}

LInv == TypeInv /\ WorthIt /\ ThreadInv

-----------------------------------------------------------------------------
\* Division rounds down.
LEMMA DivBelow == \A a \in Nat, b \in Nat \ {0} : b * (a \div b) <= a
  OBVIOUS

\* Slices of at least MinChunk bytes start inside the input: rounding the slice up
\* costs fewer bytes in all than one slice holds.
LEMMA LastSlice ==
  ASSUME len \in Nat, n \in NThreads, ~IsSingle
  PROVE  SliceStart(n - 1) <= len
<1>1. /\ n \in Nat \ {0} /\ n <= Chunk
      /\ Chunk \in Nat
  BY LzipAssumption DEF IsSingle, Chunk
<1>2. n * Chunk <= len + n - 1
  BY DivBelow, <1>1 DEF Chunk
<1>3. (n - 1) * Chunk = n * Chunk - Chunk
  BY <1>1
<1> QED BY <1>1, <1>2, <1>3 DEF SliceStart

\* The initial states satisfy the inductive invariant.
LEMMA LzipInit == Init => LInv
BY LzipAssumption DEF Init, LInv, TypeInv, WorthIt, ThreadInv, Spawning, Tids

\* Every step preserves it.
LEMMA LzipStep == LInv /\ [Next]_vars => LInv'
<1> SUFFICES ASSUME LInv, [Next]_vars PROVE LInv'
  OBVIOUS
<1> USE LzipAssumption DEF LInv, TypeInv, WorthIt, ThreadInv, Spawning, Tids, enc, dec
<1>0. ASSUME UNCHANGED <<len, n>> PROVE IsSingle' = IsSingle
  BY <1>0 DEF IsSingle, Chunk
<1>1. ASSUME NEW t \in Tids, ChunkCompress(t) PROVE LInv'
  BY <1>0, <1>1 DEF ChunkCompress
<1>2. ASSUME NEW t \in Tids, ChunkPatch(t) PROVE LInv'
  BY <1>0, <1>2 DEF ChunkPatch
<1>3. CASE CallSingle
  <2>1. /\ UNCHANGED <<len, n, i, j, th, out, heap>>
        /\ main' \in {"encoded", "failed"} /\ main = "call"
    BY <1>3 DEF CallSingle
  <2>2. TypeInv' BY <2>1
  <2>3. WorthIt' BY <2>1
  <2>4. \A k \in Tids : th[k] = "none" /\ out[k] = NoOut BY <2>1
  <2>5. ThreadInv' BY <2>1, <2>4
  <2> QED BY <2>2, <2>3, <2>5
<1>4. CASE CallAlloc
  <2>1. ~IsSingle => n > 1
    BY DEF IsSingle
  <2> QED BY <1>0, <1>4, <2>1 DEF CallAlloc
<1>5. CASE Spawn BY <1>0, <1>5 DEF Spawn
<1>6. CASE SpawnFails BY <1>0, <1>6 DEF SpawnFails
<1>7. CASE SpawnEnds BY <1>0, <1>7 DEF SpawnEnds
<1>8. CASE Undo BY <1>0, <1>8 DEF Undo, UndoMore
<1>9. CASE UndoEnds BY <1>0, <1>9 DEF UndoEnds, UndoMore
<1>10. CASE Join BY <1>0, <1>10 DEF Join
<1>11. CASE JoinFails BY <1>0, <1>11 DEF JoinFails, FreeAll
<1>12. CASE Concatenate BY <1>0, <1>12 DEF Concatenate, FreeAll
<1>13. CASE Decode BY <1>0, <1>13 DEF Decode
<1>14. CASE ScanMember BY <1>0, <1>14 DEF ScanMember
<1>15. CASE ScanStops BY <1>0, <1>15 DEF ScanStops
<1>16. CASE DecodeFirst BY <1>0, <1>16 DEF DecodeFirst
<1>17. CASE DecodeMember BY <1>0, <1>17 DEF DecodeMember
<1>18. CASE DecodeTooBig BY <1>0, <1>18 DEF DecodeTooBig
<1>19. CASE DecodeEnds BY <1>0, <1>19 DEF DecodeEnds
<1>20. CASE DecodeFails BY <1>0, <1>20 DEF DecodeFails
<1>21. CASE UNCHANGED vars BY <1>0, <1>21 DEF vars
<1> QED
  BY <1>1, <1>2, <1>3, <1>4, <1>5, <1>6, <1>7, <1>8, <1>9, <1>10, <1>11, <1>12, <1>13, <1>14,
     <1>15, <1>16, <1>17, <1>18, <1>19, <1>20, <1>21
  DEF Next, Main, Thread, Finished

\* The inductive invariant holds in every reachable state.
THEOREM LzipInvariance == Spec => []LInv
<1> QED BY LzipInit, LzipStep, PTL DEF Spec

\* No slice handed to a thread starts beyond the end of the input (zmatlib.c:2455),
\* so the length of the last one does not wrap.
THEOREM LzipSlicesTile == Spec => []SlicesTile
<1>1. LInv => SlicesTile
  BY LastSlice DEF LInv, TypeInv, WorthIt, SlicesTile, Spawning
<1> QED BY <1>1, LzipInvariance, PTL

\* However the call ends, no thread is running and nothing stays allocated: the
\* five ways out of simpleCompressLzipMT.
THEOREM LzipNoThreadLeft == Spec => []NoThreadLeftBehind
<1>1. LInv => NoThreadLeftBehind
  BY DEF LInv, ThreadInv, NoThreadLeftBehind
<1> QED BY <1>1, LzipInvariance, PTL

-----------------------------------------------------------------------------
(* The document *)

Written == {"encoded", "scan", "decode", "decoded"}

\* The first m bytes of the document, and where slice t begins.
Upto(m) == [k \in 1 .. m |-> k]
Offset(t) == IF t < n THEN SliceStart(t) ELSE len

\* One member that holds everything, or the slices in order.
StreamInv ==
  main \in Written =>
    \/ stream = <<[ver |-> 0, slice |-> Whole]>>
    \/ /\ ~IsSingle /\ Len(stream) = n
       /\ \A k \in 1 .. n : stream[k].slice = Slice(k - 1)

\* The walk has found what is behind end, or forgotten it where it could not grow.
WalkInv ==
  /\ main \in {"call", "encoded"} \cup Spawning => found = 0
  /\ main \in {"call", "encoded", "scan"} \cup Spawning => bytes = <<>>
  /\ main = "scan" => end \in 0 .. Len(stream) /\ found = Len(stream) - end
  /\ main = "decode" =>
       /\ end \in 0 .. Len(stream)
       /\ IF end = 0 THEN found = Len(stream) ELSE stream[end].ver \in {0, 1}
       /\ IsMulti => i \in 1 .. (found + 1) /\ bytes = Upto(Offset(i - 1))
       /\ ~IsMulti => bytes = <<>>
  /\ LossNeedsLostMemory

DocInv == StreamInv /\ WalkInv


\* The members are put together without a gap.
LEMMA JoinSlices ==
  ASSUME len \in Nat, n \in NThreads, ~IsSingle, NEW k \in 1 .. n
  PROVE  Upto(Offset(k - 1)) \o Slice(k - 1) = Upto(Offset(k))
<1>1. n \in Nat \ {0} /\ Chunk \in Nat /\ k \in Nat /\ (n - 1) * Chunk <= len
  BY LastSlice, LzipAssumption DEF IsSingle, Chunk, SliceStart
<1> DEFINE a == (k - 1) * Chunk
           l == SliceLen(k - 1)
<1>2. a \in Nat /\ k * Chunk = a + Chunk
  BY <1>1
<1>3. Offset(k - 1) = a
  BY <1>1 DEF Offset, SliceStart
<1>4. l \in Nat /\ Offset(k) = a + l
  <2>1. CASE k = n
    BY <1>1, <1>2, <2>1 DEF Offset, SliceLen
  <2>2. CASE k # n
    BY <1>1, <1>2, <2>2 DEF Offset, SliceLen, SliceStart
  <2> QED BY <2>1, <2>2
<1>5. Slice(k - 1) = [x \in 1 .. l |-> a + x]
  BY DEF Slice, SliceStart
<1> HIDE DEF a, l
<1>6. Upto(a) \o [x \in 1 .. l |-> a + x] = Upto(a + l)
  <2> DEFINE b == [x \in 1 .. l |-> a + x]
  <2>1. Upto(a) \in Seq(Nat) /\ Len(Upto(a)) = a /\ \A x \in 1 .. a : Upto(a)[x] = x
    BY <1>2, IsASeq DEF Upto
  <2>2. b \in Seq(Nat) /\ Len(b) = l /\ \A x \in 1 .. l : b[x] = a + x
    BY <1>2, <1>4, IsASeq
  <2>3. Upto(a + l) \in Seq(Nat) /\ Len(Upto(a + l)) = a + l /\ \A x \in 1 .. (a + l) : Upto(a + l)[x] = x
    BY <1>2, <1>4, IsASeq DEF Upto
  <2> HIDE DEF b
  <2>4. /\ Upto(a) \o b \in Seq(Nat) /\ Len(Upto(a) \o b) = a + l
        /\ \A x \in 1 .. (a + l) : (Upto(a) \o b)[x] = IF x <= a THEN Upto(a)[x] ELSE b[x - a]
    <3> DEFINE q == Upto(a)
    <3>1. q \in Seq(Nat) /\ b \in Seq(Nat)
      BY <2>1, <2>2
    <3> HIDE DEF q
    <3>2. /\ q \o b \in Seq(Nat) /\ Len(q \o b) = Len(q) + Len(b)
          /\ \A x \in 1 .. Len(q) + Len(b) : (q \o b)[x] = IF x <= Len(q) THEN q[x] ELSE b[x - Len(q)]
      BY <3>1, ConcatProperties, Zenon
    <3>3. Len(q) = a
      BY <2>1 DEF q
    <3>4. Len(b) = l
      BY <2>2
    <3>5. /\ q \o b \in Seq(Nat) /\ Len(q \o b) = a + l
          /\ \A x \in 1 .. a + l : (q \o b)[x] = IF x <= a THEN q[x] ELSE b[x - a]
      BY <3>2, <3>3, <3>4, Zenon
    <3> QED BY <3>5, Zenon DEF q
  <2>5. \A x \in 1 .. (a + l) : (Upto(a) \o b)[x] = x
    BY <1>2, <1>4, <2>1, <2>2, <2>4
  <2>6. Upto(a) \o b = Upto(a + l)
    BY <2>3, <2>4, <2>5, SeqEqual
  <2> QED BY <2>6 DEF b
<1> QED BY <1>3, <1>4, <1>5, <1>6

LEMMA DocInit == Init => DocInv
BY DEF Init, DocInv, StreamInv, WalkInv, LossNeedsLostMemory, Written, Spawning

LEMMA DocStep ==
  ASSUME LInv, DocInv, [Next]_vars
  PROVE  DocInv'
<1> USE DEF enc, dec
<1>1. len \in Nat \ {0} /\ n \in NThreads /\ TypeInv /\ StreamInv /\ WalkInv
  BY DEF LInv, TypeInv, DocInv
<1>2. UNCHANGED <<len, n>>
  BY DEF Next, vars, Main, Finished, Thread, ChunkCompress, ChunkPatch, CallSingle, CallAlloc, Spawn,
         SpawnFails, SpawnEnds, Undo, UndoEnds, Join, JoinFails, Concatenate, Decode, ScanMember,
         ScanStops, DecodeFirst, DecodeMember, DecodeTooBig, DecodeEnds, DecodeFails
<1>3. /\ Chunk' = Chunk /\ Whole' = Whole /\ (IsSingle' <=> IsSingle)
      /\ \A t : Slice(t)' = Slice(t) /\ Offset(t)' = Offset(t)
  BY <1>2 DEF Chunk, Whole, IsSingle, Slice, SliceLen, SliceStart, Offset
<1>4. \A m : Upto(m)' = Upto(m)
  BY DEF Upto
<1>5. ASSUME UNCHANGED stream, main' \in Written => main \in Written PROVE StreamInv'
  BY <1>1, <1>2, <1>3, <1>5 DEF StreamInv
<1>6. CASE UNCHANGED <<main, i, dec>>
  BY <1>1, <1>3, <1>4, <1>5, <1>6 DEF DocInv, WalkInv, IsMulti, LossNeedsLostMemory
<1>7. CASE CallSingle
  BY <1>1, <1>2, <1>3, <1>7
     DEF CallSingle, DocInv, StreamInv, WalkInv, LossNeedsLostMemory, Spawning, Written
<1>8. CASE CallAlloc \/ Spawn \/ SpawnFails \/ SpawnEnds \/ Undo \/ UndoEnds \/ Join \/ JoinFails
  <2>1. /\ main \in {"call"} \cup Spawning /\ main' \in {"failed"} \cup Spawning /\ UNCHANGED dec
    BY <1>8 DEF CallAlloc, Spawn, SpawnFails, SpawnEnds, Undo, UndoEnds, Join, JoinFails, Spawning
  <2> QED BY <1>1, <2>1 DEF DocInv, StreamInv, WalkInv, LossNeedsLostMemory, Spawning, Written
<1>9. CASE Concatenate
  <2>1. /\ main = "join" /\ main' = "encoded" /\ UNCHANGED <<end, found, bytes>>
        /\ stream' = [k \in 1 .. n |-> [ver |-> out[k - 1], slice |-> Slice(k - 1)]]
    BY <1>9 DEF Concatenate
  <2>2. ~IsSingle /\ n \in Nat
    BY <1>1, <2>1, LzipAssumption DEF LInv, WorthIt, Spawning, IsSingle
  <2>3. Len(stream') = n /\ \A k \in 1 .. n : stream'[k].slice = Slice(k - 1)
    BY <2>1, <2>2
  <2>4. StreamInv'
    BY <1>2, <1>3, <2>2, <2>3 DEF StreamInv
  <2> QED BY <1>1, <2>1, <2>4 DEF DocInv, WalkInv, LossNeedsLostMemory, Spawning
<1>10. /\ main \in Written => Len(stream) \in Nat \ {0}
       /\ main \in Written => (Len(stream) = 1 /\ stream[1].ver = 0 /\ stream[1].slice = Whole)
                              \/ (~IsSingle /\ Len(stream) = n /\ n > 1)
  BY <1>1, LzipAssumption DEF StreamInv, IsSingle
<1>11. CASE Decode
  <2>1. /\ main = "encoded" /\ main' = "scan" /\ end' = Len(stream) /\ UNCHANGED <<stream, found, bytes>>
    BY <1>11 DEF Decode
  <2>2. StreamInv'
    BY <1>5, <2>1 DEF Written
  <2> QED BY <1>1, <1>10, <2>1, <2>2 DEF DocInv, WalkInv, LossNeedsLostMemory, Spawning, Written
<1>12. CASE ScanMember
  <2>1. /\ main = "scan" /\ main' = "scan" /\ end > 0 /\ found' = found + 1 /\ end' = end - 1
        /\ UNCHANGED <<stream, bytes>>
    BY <1>12 DEF ScanMember
  <2>2. StreamInv'
    BY <1>5, <2>1 DEF Written
  <2> QED BY <1>1, <1>10, <2>1, <2>2 DEF DocInv, WalkInv, LossNeedsLostMemory, Spawning, Written
<1>13. CASE ScanStops
  <2>1. /\ main = "scan" /\ main' = "decode" /\ i' = 1 /\ UNCHANGED <<stream, bytes, end>> /\ bytes = <<>>
        /\ end \in 0 .. Len(stream) /\ found = Len(stream) - end
    BY <1>1, <1>13 DEF ScanStops, WalkInv
  <2>2. IF end = 0 THEN found' = Len(stream) ELSE stream[end].ver \in {0, 1}
    BY <1>10, <1>13, <2>1 DEF ScanStops, Written
  <2>3. StreamInv'
    BY <1>5, <2>1 DEF Written
  <2>4. IsMulti' => i' \in 1 .. (found' + 1) /\ bytes' = Upto(Offset(i - 1))'
    <3> SUFFICES ASSUME IsMulti' PROVE i' \in 1 .. (found' + 1) /\ bytes' = Upto(Offset(i - 1))'
      OBVIOUS
    <3>1. end = 0 /\ found' = Len(stream) /\ Len(stream) >= 2
      BY <2>1, <2>2 DEF IsMulti
    <3>2. Len(stream) = n /\ n > 1
      BY <1>10, <2>1, <3>1 DEF Written
    <3>3. Offset(0) = 0
      BY <1>1, <3>2, LzipAssumption DEF Offset, SliceStart, Chunk
    <3>4. Upto(0) = <<>>
      BY DEF Upto
    <3>5. i' \in 1 .. (found' + 1)
      BY <2>1, <3>1
    <3>6. i' - 1 = 0
      BY <2>1
    <3>7. Upto(Offset(i - 1))' = Upto(Offset(0))
      BY <1>2, <3>6 DEF Upto, Offset, SliceStart, Chunk
    <3> QED BY <2>1, <3>3, <3>4, <3>5, <3>7
  <2>5. ~IsMulti' => bytes' = <<>>
    BY <2>1
  <2>6. LossNeedsLostMemory' /\ main' \notin Spawning /\ main' = "decode"
    BY <2>1 DEF LossNeedsLostMemory, Spawning
  <2>7. end' \in 0 .. Len(stream')
    BY <2>1
  <2>8. IF end' = 0 THEN found' = Len(stream') ELSE stream'[end'].ver \in {0, 1}
    BY <2>1, <2>2
  <2>9. WalkInv'
    BY <2>4, <2>5, <2>6, <2>7, <2>8 DEF WalkInv
  <2> QED BY <2>3, <2>9 DEF DocInv
<1>14. CASE DecodeFirst
  <2>1. /\ main = "decode" /\ main' = "decoded" /\ ~IsMulti /\ bytes' = stream[1].slice
        /\ UNCHANGED <<stream, end, found>>
    BY <1>14 DEF DecodeFirst
  <2>2. StreamInv'
    BY <1>5, <2>1 DEF Written
  <2>3. end \in 0 .. Len(stream) /\ IF end = 0 THEN found = Len(stream) ELSE stream[end].ver \in {0, 1}
    BY <1>1, <2>1 DEF WalkInv
  <2>4. ASSUME Len(stream) # 1 PROVE end > 0 /\ Len(stream) > 1
    BY <1>10, <2>1, <2>3, <2>4 DEF Written, IsMulti
  <2>5. LossNeedsLostMemory'
    <3>1. CASE Len(stream) = 1
      BY <1>3, <1>10, <2>1, <3>1, LzipAssumption DEF LossNeedsLostMemory, Written
    <3>2. CASE Len(stream) # 1
      BY <2>1, <2>3, <2>4, <3>2 DEF LossNeedsLostMemory
    <3> QED BY <3>1, <3>2
  <2> QED BY <2>1, <2>2, <2>5 DEF DocInv, WalkInv, Spawning
<1>15. CASE DecodeMember
  <2>1. /\ main = "decode" /\ main' = "decode" /\ IsMulti /\ i <= found /\ i' = i + 1
        /\ bytes' = bytes \o stream[i].slice /\ UNCHANGED <<stream, end, found>>
    BY <1>15 DEF DecodeMember, Accumulate
  <2>2. StreamInv'
    BY <1>5, <2>1 DEF Written
  <2>3. /\ end = 0 /\ found = Len(stream) /\ found >= 2 /\ i \in 1 .. (found + 1)
        /\ bytes = Upto(Offset(i - 1))
    BY <1>1, <2>1 DEF WalkInv, IsMulti
  <2>4. ~IsSingle /\ Len(stream) = n /\ n \in Nat /\ i \in 1 .. n /\ stream[i].slice = Slice(i - 1)
    BY <1>1, <1>10, <2>1, <2>3, LzipAssumption DEF StreamInv, Written
  <2>5. bytes' = Upto(Offset(i))
    BY <1>1, <2>1, <2>3, <2>4, JoinSlices
  <2>6. i' \in 1 .. (found' + 1) /\ i' - 1 = i
    BY <2>1, <2>3, <2>4
  <2>7. Upto(Offset(i - 1))' = Upto(Offset(i))
    BY <1>2, <2>6 DEF Upto, Offset, SliceStart, Chunk
  <2>8. IsMulti'
    BY <2>1 DEF IsMulti
  <2>9. LossNeedsLostMemory' /\ main' \notin Spawning /\ main' = "decode"
    BY <2>1 DEF LossNeedsLostMemory, Spawning
  <2>10. end' \in 0 .. Len(stream')
    BY <1>10, <2>1, <2>3 DEF Written
  <2>11. end' = 0 /\ found' = Len(stream')
    BY <2>1, <2>3
  <2>12. WalkInv'
    BY <2>5, <2>6, <2>7, <2>8, <2>9, <2>10, <2>11 DEF WalkInv
  <2> QED BY <2>2, <2>12 DEF DocInv
<1>16. CASE DecodeEnds
  <2>1. /\ main = "decode" /\ main' = "decoded" /\ IsMulti /\ i > found /\ UNCHANGED dec
    BY <1>16 DEF DecodeEnds
  <2>2. StreamInv'
    BY <1>5, <2>1 DEF Written
  <2>3. /\ found = Len(stream) /\ found >= 2 /\ i \in 1 .. (found + 1) /\ bytes = Upto(Offset(i - 1))
    BY <1>1, <2>1 DEF WalkInv, IsMulti
  <2>4. found = n /\ n \in Nat
    BY <1>10, <2>1, <2>3, LzipAssumption DEF Written
  <2>5. i - 1 = n
    BY <2>1, <2>3, <2>4
  <2>6. bytes = Whole
    BY <2>3, <2>4, <2>5 DEF Upto, Offset, Whole
  <2> QED BY <1>3, <2>1, <2>2, <2>6 DEF DocInv, WalkInv, LossNeedsLostMemory, Spawning
<1>17. CASE DecodeTooBig \/ DecodeFails
  <2>1. main' = "failed"
    BY <1>17 DEF DecodeTooBig, DecodeFails
  <2> QED BY <2>1 DEF DocInv, StreamInv, WalkInv, LossNeedsLostMemory, Spawning, Written
<1>18. ASSUME NEW t \in Tids, Thread(t) PROVE DocInv'
  BY <1>6, <1>18 DEF Thread, ChunkCompress, ChunkPatch
<1>19. CASE UNCHANGED vars \/ Finished
  BY <1>6, <1>19 DEF vars, Finished
<1> QED BY <1>7, <1>8, <1>9, <1>11, <1>12, <1>13, <1>14, <1>15, <1>16, <1>17, <1>18, <1>19
        DEF Next, Main

\* All members together are the document: what is decoded differs from it only when the
\* upgrade of a member or the walk over them ran out of memory (zmatlib.c:822).
THEOREM LzipLossNeedsLostMemory == Spec => []LossNeedsLostMemory
<1>1. LInv /\ DocInv /\ [Next]_vars => LInv' /\ DocInv'
  BY LzipStep, DocStep
<1>2. DocInv => LossNeedsLostMemory
  BY DEF DocInv, WalkInv
<1> QED BY <1>1, <1>2, LzipInit, DocInit, PTL DEF Spec
=============================================================================
