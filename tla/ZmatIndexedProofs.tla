-------------------------- MODULE ZmatIndexedProofs --------------------------
(***************************************************************************)
(* Proofs about ZmatIndexed and the Python layer above it, for all sizes,   *)
(* compressed lengths, thread counts and numbers of calls.                  *)
(*                                                                          *)
(* NothingLeaks speaks of the return alone; HeapInv says for each place in  *)
(* the code what is allocated there, which is what each clean-up relies on. *)
(*                                                                          *)
(* OwnIndexDecodes rests on the layout: the loop that builds a stream is a  *)
(* recursive function, so what it computes is found by induction over the   *)
(* blocks, and each row of the index is then shown to hold one segment and  *)
(* to yield exactly its slice of the document.                              *)
(*                                                                          *)
(* The last part is about the extension (PyZmat): what it owns at each      *)
(* place and what it may answer; and the package (PyArray): a shuffled      *)
(* array unshuffles to itself.                                              *)
(***************************************************************************)
EXTENDS ZmatIndexed, PyArray, WellFoundedInduction, TLAPS

\* The arguments of a compression are those the client may give.
CallInv ==
  pc \in {"dcalloc", "dbufs", "dpool", "dtail", "dout", "dbuild"}
    => call.op = "deflate" /\ call.size \in Sizes /\ call.want \in BOOLEAN

\* The arguments at the gate and on the serial path.
GateInv ==
  pc = "gate" /\ call.op = "deflate" => call.size \in Sizes /\ call.want \in BOOLEAN

\* Until the return there is no answer.
ResInv == pc \notin {"idle", "return"} => res = NoRes

\* What is allocated at each place.
HeapInv ==
  /\ pc \in {"idle", "gate", "serial", "dcalloc", "icheck", "icalloc"} => heap = {} /\ bufs = 0
  /\ pc \in {"dbufs", "dpool", "dtail", "dout"} => heap = {"blocks"}
  /\ pc = "dbuild" => heap = {"blocks", "out", "idx"}
  /\ pc = "iout" => heap = {"blocks"} /\ bufs = 0
  /\ pc = "ipool" => heap = {"blocks", "out"} /\ bufs = 0

LInv == TypeOK /\ CallInv /\ GateInv /\ ResInv /\ HeapInv /\ NothingLeaks /\ SerialIsTried

-----------------------------------------------------------------------------
\* There is at least one block, so that the index of a stream is never NULL.
LEMMA IndexNotNull == ASSUME NEW n \in Nat PROVE Index(n) # NoIndex
<1>1. NumBlocks(n) \in Nat \ {0}
  BY IndexedAssumption DEF NumBlocks
<1>2. 1 \in DOMAIN Index(n)
  BY <1>1 DEF Index
<1>3. DOMAIN NoIndex = {}
  BY DEF NoIndex
<1>4. QED
  BY <1>2, <1>3

\* The initial state satisfies the invariant.
LEMMA IndexedInit == Init => LInv
<1> SUFFICES ASSUME Init PROVE LInv
  OBVIOUS
<1>1. TypeOK
  <2>1. res.rc = 1 /\ res.path = "none"
    BY DEF Init, NoRes
  <2>2. bufs \in Nat /\ calls \in 0 .. MaxCalls
    BY IndexedAssumption DEF Init
  <2>3. QED
    BY <2>1, <2>2 DEF Init, TypeOK
<1>2. CallInv /\ GateInv /\ ResInv /\ HeapInv /\ NothingLeaks /\ SerialIsTried
  BY DEF Init, CallInv, GateInv, ResInv, HeapInv, NothingLeaks, SerialIsTried
<1>3. QED
  BY <1>1, <1>2 DEF LInv

\* Every step preserves it: one step per action.
LEMMA IndexedStep == LInv /\ [Next]_vars => LInv'
<1> SUFFICES ASSUME LInv, [Next]_vars PROVE LInv'
  OBVIOUS
<1> USE IndexedAssumption
    DEF LInv, TypeOK, CallInv, GateInv, ResInv, HeapInv, NothingLeaks, SerialIsTried, NoRes,
        client
<1>1. CASE CallCompress
  <2>1. pc = "idle" /\ pc' = "gate" /\ heap' = heap /\ bufs' = bufs /\ res' = NoRes
        /\ calls' = calls + 1 /\ calls < MaxCalls /\ tail' = FALSE /\ fault' = FALSE
    BY <1>1 DEF CallCompress, Begin
  <2>2. call'.op = "deflate" /\ call'.size \in Sizes /\ call'.want \in BOOLEAN
    BY <1>1 DEF CallCompress, Begin
  <2>3. calls' \in 0 .. MaxCalls
    BY <2>1
  <2>4. QED
    BY <2>1, <2>2, <2>3
<1>2. CASE CallDecompress
  <2>1. pc = "idle" /\ pc' = "gate" /\ heap' = heap /\ bufs' = bufs /\ res' = NoRes
        /\ calls' = calls + 1 /\ calls < MaxCalls /\ tail' = FALSE /\ fault' = FALSE
    BY <1>2 DEF CallDecompress, Begin
  <2>2. call'.op = "inflate"
    BY <1>2 DEF CallDecompress, Begin
  <2>3. calls' \in 0 .. MaxCalls
    BY <2>1
  <2>4. QED
    BY <2>1, <2>2, <2>3
<1>3. CASE Take
  BY <1>3 DEF Take
<1>4. CASE Gate
  BY <1>4 DEF Gate
<1>5. CASE Serial
  <2>1. pc' = "return" /\ bufs' = 0 /\ heap = {}
    BY <1>5 DEF Serial
  <2>2. fault' \in BOOLEAN
    BY <1>5 DEF Serial
  <2>3. CASE /\ heap' = heap \cup {"out"}
             /\ res'.rc = 0 /\ res'.path = "serial" /\ res'.index = NoIndex
    BY <1>5, <2>1, <2>2, <2>3 DEF Serial
  <2>4. CASE /\ heap' = heap
             /\ res'.rc = -5 /\ res'.path = "serial" /\ res'.index = NoIndex
    BY <1>5, <2>1, <2>2, <2>4 DEF Serial
  <2>5. QED
    BY <1>5, <2>3, <2>4 DEF Serial
<1>6. CASE DCalloc
  BY <1>6 DEF DCalloc, Abandon
<1>7. CASE DBuffer
  <2>1. CASE DropBlocks /\ Abandon
    <3>1. heap' = {} /\ bufs' = 0 /\ pc' = "serial" /\ res' = res
      BY <1>7, <2>1 DEF DBuffer, DropBlocks, Abandon
    <3>2. QED
      BY <1>7, <3>1 DEF DBuffer
  <2>2. CASE ~(DropBlocks /\ Abandon)
    BY <1>7, <2>2 DEF DBuffer
  <2>3. QED
    BY <2>1, <2>2
<1>8. CASE DPool
  <2>1. CASE DropBlocks /\ Abandon
    <3>1. heap' = {} /\ bufs' = 0 /\ pc' = "serial" /\ res' = res
      BY <1>8, <2>1 DEF DPool, DropBlocks, Abandon
    <3>2. QED
      BY <1>8, <3>1 DEF DPool
  <2>2. CASE ~(DropBlocks /\ Abandon)
    BY <1>8, <2>2 DEF DPool
  <2>3. QED
    BY <2>1, <2>2
<1>9. CASE DTail
  BY <1>9 DEF DTail
<1>10. CASE DOut
  <2>1. CASE DropBlocks /\ Abandon
    <3>1. heap' = {} /\ bufs' = 0 /\ pc' = "serial" /\ res' = res
      BY <1>10, <2>1 DEF DOut, DropBlocks, Abandon
    <3>2. QED
      BY <1>10, <3>1 DEF DOut
  <2>2. CASE ~(DropBlocks /\ Abandon)
    BY <1>10, <2>2 DEF DOut
  <2>3. QED
    BY <2>1, <2>2
<1>11. CASE DBuild
  BY <1>11, IndexNotNull DEF DBuild, DropRest
<1>12. CASE ICheck
  BY <1>12 DEF ICheck, Abandon
<1>13. CASE ICalloc
  BY <1>13 DEF ICalloc, Abandon
<1>14. CASE IOut
  BY <1>14 DEF IOut, Abandon
<1>15. CASE IPool
  BY <1>15 DEF IPool, Abandon
<1>16. CASE Finished \/ UNCHANGED vars
  BY <1>16 DEF Finished, vars
<1>17. QED
  BY <1>1, <1>2, <1>3, <1>4, <1>5, <1>6, <1>7, <1>8, <1>9, <1>10, <1>11, <1>12, <1>13, <1>14,
     <1>15, <1>16 DEF Next

\* The invariant holds in every reachable state.
THEOREM IndexedInvariance == Spec => []LInv
BY IndexedInit, IndexedStep, PTL DEF Spec

\* Every reachable state has the declared types; in particular no buffer is
\* freed that was not allocated.
THEOREM IndexedTypeCorrect == Spec => []TypeOK
BY IndexedInvariance, PTL DEF LInv

\* Whatever fails in zmat_run_indexed and below it, the caller holds exactly the
\* stream (or document) and the index it is told of, and nothing else is live.
THEOREM NoLeak == Spec => []NothingLeaks
BY IndexedInvariance, PTL DEF LInv

\* A call that fails has failed on the serial path: no index and no thread or
\* memory failure of the blocked path is an error by itself.
THEOREM FallsBack == Spec => []SerialIsTried
BY IndexedInvariance, PTL DEF LInv

-----------------------------------------------------------------------------
(* The layout of a stream and what its index decodes *)

\* Induction, for a set of numbers.
LEMMA Induction ==
  ASSUME NEW S, 0 \in S, \A k \in Nat : k \in S => k + 1 \in S
  PROVE  Nat \subseteq S
<1> DEFINE Below == {p \in Nat \X Nat : p[1] < p[2]}
           Rest == Nat \ S
<1>1. IsWellFoundedOn(Below, Nat)
  BY NatLessThanWellFounded DEF OpToRel
<1> SUFFICES ASSUME Rest # {} PROVE FALSE
  OBVIOUS
<1>2. \E x \in Rest : \A y \in Rest : <<y, x>> \notin Below
  <2> HIDE DEF Below
  <2> QED BY <1>1, WFMin
<1>3. PICK x \in Rest : \A y \in Rest : <<y, x>> \notin Below
  BY <1>2
<1>4. x \in Nat /\ x # 0 /\ x - 1 \in Nat
  OBVIOUS
<1>5. <<x - 1, x>> \in Below
  BY <1>4
<1>6. x - 1 \in S
  BY <1>3, <1>4, <1>5
<1> QED BY <1>4, <1>6

\* A function that adds up d from a on.
AddsUp(f, a, d, N) ==
  /\ f = [k \in 0 .. N |-> f[k]]
  /\ \A k \in 0 .. N : f[k] = IF k = 0 THEN a ELSE f[k - 1] + d[k - 1]

LEMMA SumsExist == \A a, d : \A N \in Nat : \E f : AddsUp(f, a, d, N)
<1> SUFFICES \A a, d : \A N \in Nat :
    \E f : /\ f = [k \in 0 .. N |-> f[k]]
           /\ \A k \in 0 .. N : f[k] = IF k = 0 THEN a ELSE f[k - 1] + d[k - 1]
  BY DEF AddsUp
<1> TAKE a, d
<1> DEFINE S == {m \in Nat : \E f :
                   /\ f = [k \in 0 .. m |-> f[k]]
                   /\ \A k \in 0 .. m : f[k] = IF k = 0 THEN a ELSE f[k - 1] + d[k - 1]}
<1>1. 0 \in S
  <2> DEFINE f == [k \in 0 .. 0 |-> a]
  <2>1. f = [k \in 0 .. 0 |-> f[k]] /\ \A k \in 0 .. 0 : f[k] = IF k = 0 THEN a ELSE f[k - 1] + d[k - 1]
    OBVIOUS
  <2> QED BY <2>1
<1>2. ASSUME NEW m \in Nat, m \in S PROVE m + 1 \in S
  <2>1. PICK f : /\ f = [k \in 0 .. m |-> f[k]]
                 /\ \A k \in 0 .. m : f[k] = IF k = 0 THEN a ELSE f[k - 1] + d[k - 1]
    BY <1>2
  <2> DEFINE g == [k \in 0 .. m + 1 |-> IF k <= m THEN f[k] ELSE f[m] + d[m]]
  <2>2. \A k \in 0 .. m + 1 : g[k] = IF k = 0 THEN a ELSE g[k - 1] + d[k - 1]
    <3> TAKE k \in 0 .. m + 1
    <3>1. CASE k = 0
      <4>1. g[0] = f[0] /\ 0 \in 0 .. m
        OBVIOUS
      <4>2. f[0] = a
        BY <2>1, <4>1
      <4> HIDE DEF g
      <4> QED BY <3>1, <4>1, <4>2
    <3>2. CASE k \in 1 .. m
      <4>1. k - 1 \in 0 .. m /\ k \in 0 .. m /\ g[k - 1] = f[k - 1] /\ g[k] = f[k]
        BY <3>2
      <4>2. k # 0
        BY <3>2
      <4>3. f[k] = f[k - 1] + d[k - 1]
        BY <2>1, <4>1, <4>2
      <4> HIDE DEF g
      <4> QED BY <4>1, <4>2, <4>3
    <3>3. CASE k = m + 1
      <4>1. k - 1 = m /\ g[k - 1] = f[m] /\ g[k] = f[m] + d[m]
        BY <3>3
      <4> QED BY <3>3, <4>1
    <3> QED BY <3>1, <3>2, <3>3
  <2>3. g = [k \in 0 .. m + 1 |-> g[k]]
    OBVIOUS
  <2>4. \E h : /\ h = [k \in 0 .. m + 1 |-> h[k]]
               /\ \A k \in 0 .. m + 1 : h[k] = IF k = 0 THEN a ELSE h[k - 1] + d[k - 1]
    <3> HIDE DEF g
    <3> QED BY <2>2, <2>3
  <2>5. m + 1 \in Nat
    OBVIOUS
  <2> QED BY <2>4, <2>5
<1>3. Nat \subseteq S
  <2> HIDE DEF S
  <2> QED BY <1>1, <1>2, Induction
<1> QED BY <1>3

\* The last block is not empty.
LEMMA NumBlocksIs ==
  ASSUME NEW n \in Nat \ {0}
  PROVE  /\ NumBlocks(n) \in Nat \ {0}
         /\ (NumBlocks(n) - 1) * BlockSize < n /\ n <= NumBlocks(n) * BlockSize
<1>1. BlockSize \in Nat /\ BlockSize > 0
  BY IndexedAssumption
<1> DEFINE a == n + BlockSize - 1
           k == a \div BlockSize
<1>2. k \in Nat /\ a = BlockSize * k + (a % BlockSize) /\ a % BlockSize \in 0 .. BlockSize - 1
  <2>1. a \in Nat
    BY <1>1
  <2> HIDE DEF a
  <2> QED BY <1>1, <2>1, SMTT(30)
<1> DEFINE r == a % BlockSize
<1>3. n + BlockSize - 1 = BlockSize * k + r /\ r \in 0 .. BlockSize - 1
  BY <1>2
<1> HIDE DEF k, r
<1>4. k # 0
  BY <1>1, <1>3
<1>5. NumBlocks(n) = k
  BY <1>4 DEF NumBlocks, k
<1>6. (k - 1) * BlockSize < n /\ n <= k * BlockSize
  <2>1. (k - 1) * BlockSize = BlockSize * k - BlockSize
    BY <1>1, <1>2
  <2>2. k * BlockSize = BlockSize * k
    BY <1>1, <1>2
  <2> QED BY <1>1, <1>2, <1>3, <2>1, <2>2
<1> QED BY <1>2, <1>4, <1>5, <1>6

\* The blocks of a document: all full but the last.
LEMMA BlockLengths ==
  ASSUME NEW n \in Nat \ {0}, NEW b \in 0 .. NumBlocks(n) - 1
  PROVE  /\ BlockLen(n, b) \in 1 .. BlockSize /\ BlockStart(b) \in Nat
         /\ BlockStart(b) + BlockLen(n, b) <= n
         /\ IF b = NumBlocks(n) - 1 THEN BlockStart(b) + BlockLen(n, b) = n
            ELSE BlockLen(n, b) = BlockSize /\ BlockStart(b) + BlockSize = BlockStart(b + 1)
<1>1. BlockSize \in Nat /\ BlockSize > 0
  BY IndexedAssumption
<1> DEFINE N == NumBlocks(n)
<1>2. N \in Nat /\ (N - 1) * BlockSize < n /\ n <= N * BlockSize
  BY NumBlocksIs
<1> HIDE DEF N
<1>3. b \in Nat /\ b <= N - 1
  BY <1>2 DEF N
<1>4. b * BlockSize \in Nat /\ (b + 1) * BlockSize = b * BlockSize + BlockSize
  BY <1>1, <1>3
<1>5. CASE b = N - 1
  <2>1. N * BlockSize = b * BlockSize + BlockSize /\ b * BlockSize < n
    BY <1>2, <1>4, <1>5
  <2>2. n - b * BlockSize \in 1 .. BlockSize
    BY <1>1, <1>2, <1>4, <2>1
  <2>3. BlockLen(n, b) = n - b * BlockSize
    BY <1>1, <2>2 DEF BlockLen, BlockStart
  <2> QED BY <1>1, <1>4, <1>5, <2>2, <2>3 DEF BlockStart, N
<1>6. CASE b < N - 1
  <2>1. (b + 1) * BlockSize <= (N - 1) * BlockSize
    BY <1>1, <1>2, <1>3, <1>6
  <2>2. (N - 1) * BlockSize \in Int
    BY <1>1, <1>2
  <2>3. b * BlockSize + BlockSize < n
    BY <1>1, <1>2, <1>4, <2>1, <2>2
  <2>4. BlockLen(n, b) = BlockSize
    BY <1>1, <1>4, <2>3 DEF BlockLen, BlockStart
  <2> QED BY <1>1, <1>2, <1>3, <1>4, <1>6, <2>3, <2>4 DEF BlockStart, N
<1> QED BY <1>2, <1>3, <1>5, <1>6

\* The loop of zmat_deflate_blocks, step by step: pos.
LEMMA SegPosNext ==
  ASSUME NEW n \in Nat \ {0}
  PROVE  /\ SegPos(n, 0) = Hdr
         /\ \A b \in 1 .. NumBlocks(n) :
              SegPos(n, b) = SegPos(n, b - 1) + SegLen[BlockLen(n, b - 1)]
<1> DEFINE N == NumBlocks(n)
           d == [k \in 0 .. N |-> SegLen[BlockLen(n, k)]]
           Is(f) == f = [k \in 0 .. N |->
                           IF k = 0 THEN Hdr ELSE f[k - 1] + SegLen[BlockLen(n, k - 1)]]
           pos == CHOOSE f : Is(f)
<1>0. N \in Nat
  BY NumBlocksIs
<1>1. \E f : AddsUp(f, Hdr, d, N)
  <2> HIDE DEF d, N
  <2> QED BY <1>0, SumsExist
<1>2. PICK g : /\ g = [k \in 0 .. N |-> g[k]]
               /\ \A k \in 0 .. N : g[k] = IF k = 0 THEN Hdr ELSE g[k - 1] + d[k - 1]
  BY <1>1 DEF AddsUp
<1>3. \A k \in 0 .. N : k # 0 => d[k - 1] = SegLen[BlockLen(n, k - 1)]
  <2> HIDE DEF N
  <2> QED BY <1>0
<1>4. Is(g)
  <2> HIDE DEF d, N
  <2> QED BY <1>2, <1>3
<1>5. Is(pos)
  BY <1>4
<1>6. \A b \in 0 .. N : SegPos(n, b) = pos[b]
  BY DEF SegPos
<1> HIDE DEF pos
<1> QED BY <1>0, <1>5, <1>6

\* The loop of zmat_deflate_blocks, step by step: uncomp.
LEMMA UncompNext ==
  ASSUME NEW n \in Nat \ {0}
  PROVE  /\ Uncomp(n, 0) = 0
         /\ \A b \in 1 .. NumBlocks(n) :
              Uncomp(n, b) = Uncomp(n, b - 1) + BlockLen(n, b - 1)
<1> DEFINE N == NumBlocks(n)
           d == [k \in 0 .. N |-> BlockLen(n, k)]
           Is(f) == f = [k \in 0 .. N |-> IF k = 0 THEN 0 ELSE f[k - 1] + BlockLen(n, k - 1)]
           uncomp == CHOOSE f : Is(f)
<1>0. N \in Nat
  BY NumBlocksIs
<1>1. \E f : AddsUp(f, 0, d, N)
  <2> HIDE DEF d, N
  <2> QED BY <1>0, SumsExist
<1>2. PICK g : /\ g = [k \in 0 .. N |-> g[k]]
               /\ \A k \in 0 .. N : g[k] = IF k = 0 THEN 0 ELSE g[k - 1] + d[k - 1]
  BY <1>1 DEF AddsUp
<1>3. \A k \in 0 .. N : k # 0 => d[k - 1] = BlockLen(n, k - 1)
  <2> HIDE DEF N
  <2> QED BY <1>0
<1>4. Is(g)
  <2> HIDE DEF d, N
  <2> QED BY <1>2, <1>3
<1>5. Is(uncomp)
  BY <1>4
<1>6. \A b \in 0 .. N : Uncomp(n, b) = uncomp[b]
  BY DEF Uncomp
<1> HIDE DEF uncomp
<1> QED BY <1>0, <1>5, <1>6

\* The segments of a stream lie one after the other.
LEMMA SegPosGrows ==
  ASSUME NEW n \in Nat \ {0}
  PROVE  /\ \A b \in 0 .. NumBlocks(n) : SegPos(n, b) \in Nat \ {0}
         /\ \A b \in 1 .. NumBlocks(n) : SegPos(n, b - 1) < SegPos(n, b)
         /\ \A b, c \in 0 .. NumBlocks(n) : b < c => SegPos(n, b) < SegPos(n, c)
<1> DEFINE N == NumBlocks(n)
<1>1. N \in Nat
  BY NumBlocksIs
<1>2. \A b \in 0 .. N - 1 : SegLen[BlockLen(n, b)] \in Nat \ {0}
  BY BlockLengths, IndexedAssumption
<1>3. SegPos(n, 0) = Hdr /\ \A b \in 1 .. N : SegPos(n, b) = SegPos(n, b - 1) + SegLen[BlockLen(n, b - 1)]
  BY SegPosNext
<1> HIDE DEF N
<1> DEFINE S == {k \in Nat : k <= N => SegPos(n, k) \in Nat \ {0}}
<1>4. Nat \subseteq S
  <2>1. 0 \in S
    BY <1>3 DEF Hdr
  <2>2. ASSUME NEW k \in Nat, k \in S PROVE k + 1 \in S
    <3>1. CASE k + 1 <= N
      <4>1. k + 1 \in 1 .. N /\ k \in 0 .. N - 1 /\ (k + 1) - 1 = k /\ k <= N
        BY <1>1, <3>1
      <4>2. SegPos(n, k + 1) = SegPos(n, k) + SegLen[BlockLen(n, k)]
        <5>1. SegPos(n, k + 1) = SegPos(n, (k + 1) - 1) + SegLen[BlockLen(n, (k + 1) - 1)]
          BY <1>3, <4>1
        <5> QED BY <4>1, <5>1
      <4>3. SegPos(n, k) \in Nat \ {0} /\ SegLen[BlockLen(n, k)] \in Nat \ {0}
        BY <1>2, <2>2, <4>1
      <4> QED BY <4>2, <4>3
    <3> QED BY <3>1
  <2> HIDE DEF S
  <2> QED BY <2>1, <2>2, Induction
<1>5. \A b \in 0 .. N : SegPos(n, b) \in Nat \ {0}
  BY <1>1, <1>4
<1>6. ASSUME NEW b \in 1 .. N PROVE SegPos(n, b - 1) < SegPos(n, b)
  <2>1. b - 1 \in 0 .. N - 1 /\ b - 1 \in 0 .. N
    BY <1>1
  <2>2. SegPos(n, b - 1) \in Nat \ {0} /\ SegLen[BlockLen(n, b - 1)] \in Nat \ {0}
    BY <1>2, <1>5, <2>1
  <2> QED BY <1>3, <2>2
<1>7. ASSUME NEW b \in 0 .. N PROVE \A c \in 0 .. N : b < c => SegPos(n, b) < SegPos(n, c)
  <2> DEFINE T == {k \in Nat : k <= N /\ b < k => SegPos(n, b) < SegPos(n, k)}
  <2>1. 0 \in T
    OBVIOUS
  <2>2. ASSUME NEW k \in Nat, k \in T PROVE k + 1 \in T
    <3>1. CASE k + 1 <= N /\ b < k + 1
      <4>1. k + 1 \in 1 .. N /\ (k + 1) - 1 = k /\ k \in 0 .. N /\ k + 1 \in 0 .. N
        BY <1>1, <3>1
      <4>2. SegPos(n, k) < SegPos(n, k + 1)
        <5>1. SegPos(n, (k + 1) - 1) < SegPos(n, k + 1)
          BY <1>6, <4>1
        <5> QED BY <4>1, <5>1
      <4>3. b = k \/ SegPos(n, b) < SegPos(n, k)
        BY <2>2, <3>1, <4>1
      <4>4. SegPos(n, b) \in Nat /\ SegPos(n, k) \in Nat /\ SegPos(n, k + 1) \in Nat
        BY <1>5, <4>1
      <4> QED BY <4>2, <4>3, <4>4
    <3> QED BY <3>1
  <2>3. Nat \subseteq T
    <3> HIDE DEF T
    <3> QED BY <2>1, <2>2, Induction
  <2> QED BY <1>1, <2>3
<1> QED BY <1>5, <1>6, <1>7 DEF N

\* The index gives the uncompressed offset of every block, and the size.
LEMMA UncompIs ==
  ASSUME NEW n \in Nat \ {0}
  PROVE  \A b \in 0 .. NumBlocks(n) :
           Uncomp(n, b) = IF b = NumBlocks(n) THEN n ELSE BlockStart(b)
<1> DEFINE N == NumBlocks(n)
           S == {k \in Nat : k <= N => Uncomp(n, k) = IF k = N THEN n ELSE BlockStart(k)}
<1>1. N \in Nat \ {0}
  BY NumBlocksIs
<1>2. Uncomp(n, 0) = 0 /\ \A b \in 1 .. N : Uncomp(n, b) = Uncomp(n, b - 1) + BlockLen(n, b - 1)
  BY UncompNext
<1>3. \A b \in 0 .. N - 1 :
        IF b = N - 1 THEN BlockStart(b) + BlockLen(n, b) = n
        ELSE BlockStart(b) + BlockLen(n, b) = BlockStart(b + 1)
  BY BlockLengths
<1> HIDE DEF N
<1>4. 0 \in S
  BY <1>1, <1>2, IndexedAssumption DEF BlockStart
<1>5. ASSUME NEW k \in Nat, k \in S PROVE k + 1 \in S
  <2>1. CASE k + 1 <= N
    <3>1. k + 1 \in 1 .. N /\ k \in 0 .. N - 1 /\ (k + 1) - 1 = k /\ k # N /\ k <= N
      BY <1>1, <2>1
    <3>2. Uncomp(n, k + 1) = Uncomp(n, k) + BlockLen(n, k)
      <4>1. Uncomp(n, k + 1) = Uncomp(n, (k + 1) - 1) + BlockLen(n, (k + 1) - 1)
        BY <1>2, <3>1
      <4> QED BY <3>1, <4>1
    <3>3. Uncomp(n, k) = BlockStart(k)
      BY <1>5, <3>1
    <3>4. k = N - 1 <=> k + 1 = N
      BY <1>1
    <3>5. Uncomp(n, k + 1) = IF k + 1 = N THEN n ELSE BlockStart(k + 1)
      BY <1>3, <3>1, <3>2, <3>3, <3>4
    <3> QED BY <3>5
  <2> QED BY <2>1
<1>6. Nat \subseteq S
  <2> HIDE DEF S
  <2> QED BY <1>4, <1>5, Induction
<1> QED BY <1>1, <1>6 DEF N

\* The sum of no segment's length, and of one's.
LEMMA SumOfNone == MapThenSumSet(LAMBDA g : g.len, {}) = 0
<1> DEFINE it == [s \in SUBSET {} |-> 0]
           Is(f) == f = [s \in SUBSET {} |-> IF s = {} THEN 0 ELSE
                           (CHOOSE x \in s : TRUE).len + f[s \ {CHOOSE x \in s : TRUE}]]
<1>1. Is(it)
  OBVIOUS
<1>2. Is(CHOOSE f : Is(f))
  BY <1>1
<1> QED BY <1>2 DEF MapThenSumSet, MapThenFoldSet

LEMMA SumOfOne == ASSUME NEW g PROVE MapThenSumSet(LAMBDA h : h.len, {g}) = g.len + 0
<1> DEFINE it == [s \in SUBSET {g} |-> IF s = {} THEN 0 ELSE g.len + 0]
           Is(f) == f = [s \in SUBSET {g} |-> IF s = {} THEN 0 ELSE
                           (CHOOSE x \in s : TRUE).len + f[s \ {CHOOSE x \in s : TRUE}]]
<1>1. \A s \in SUBSET {g} : s # {} => (CHOOSE x \in s : TRUE) = g /\ s \ {g} = {}
  OBVIOUS
<1>2. Is(it)
  <2>1. \A s \in SUBSET {g} : it[s] = IF s = {} THEN 0 ELSE
          (CHOOSE x \in s : TRUE).len + it[s \ {CHOOSE x \in s : TRUE}]
    BY <1>1
  <2> QED BY <2>1
<1> DEFINE F == CHOOSE f : Is(f)
<1>3. Is(F)
  BY <1>2
<1>4. MapThenSumSet(LAMBDA h : h.len, {g}) = F[{g}]
  BY DEF MapThenSumSet, MapThenFoldSet
<1>5. F[{}] = 0 /\ F[{g}] = (CHOOSE x \in {g} : TRUE).len + F[{g} \ {CHOOSE x \in {g} : TRUE}]
  <2> HIDE DEF F
  <2> QED BY <1>3
<1>6. (CHOOSE x \in {g} : TRUE) = g /\ {g} \ {g} = {}
  BY <1>1
<1> HIDE DEF F
<1> QED BY <1>4, <1>5, <1>6

\* The rows of an index.
LEMMA IndexRows ==
  ASSUME NEW n \in Nat \ {0}
  PROVE  /\ Len(Index(n)) = NumBlocks(n) + 1
         /\ \A r \in 1 .. NumBlocks(n) + 1 :
              Index(n)[r][1] = SegPos(n, r - 1) /\ Index(n)[r][2] = Uncomp(n, r - 1)
<1>1. NumBlocks(n) \in Nat
  BY NumBlocksIs
<1>2. DOMAIN Index(n) = 1 .. NumBlocks(n) + 1
  BY DEF Index
<1>3. \A M \in Nat : Len([r \in 1 .. M |-> <<SegPos(n, r - 1), Uncomp(n, r - 1)>>]) = M
  OBVIOUS
<1>4. Len(Index(n)) = NumBlocks(n) + 1
  BY <1>1, <1>3 DEF Index
<1> QED BY <1>4 DEF Index

\* The uncompressed offsets of the rows grow, from 0 to the size.
LEMMA UncompGrows ==
  ASSUME NEW n \in Nat \ {0}
  PROVE  /\ Uncomp(n, 0) = 0 /\ Uncomp(n, NumBlocks(n)) = n
         /\ \A b \in 0 .. NumBlocks(n) : Uncomp(n, b) \in Nat
         /\ \A r \in 1 .. NumBlocks(n) :
              /\ Uncomp(n, r - 1) = BlockStart(r - 1)
              /\ Uncomp(n, r) = Uncomp(n, r - 1) + BlockLen(n, r - 1)
              /\ Uncomp(n, r - 1) < Uncomp(n, r)
<1> DEFINE N == NumBlocks(n)
<1>1. N \in Nat \ {0}
  BY NumBlocksIs
<1>2. Uncomp(n, 0) = 0 /\ \A r \in 1 .. N : Uncomp(n, r) = Uncomp(n, r - 1) + BlockLen(n, r - 1)
  BY UncompNext
<1>3. \A b \in 0 .. N : Uncomp(n, b) = IF b = N THEN n ELSE BlockStart(b)
  BY UncompIs
<1>4. \A b \in 0 .. N - 1 : BlockLen(n, b) \in Nat \ {0} /\ BlockStart(b) \in Nat
  BY BlockLengths
<1> HIDE DEF N
<1>5. ASSUME NEW r \in 1 .. N
      PROVE  /\ Uncomp(n, r - 1) = BlockStart(r - 1)
             /\ Uncomp(n, r - 1) < Uncomp(n, r)
  <2>1. r - 1 \in 0 .. N - 1 /\ r - 1 \in 0 .. N /\ r - 1 # N
    BY <1>1
  <2>2. Uncomp(n, r - 1) = BlockStart(r - 1)
    BY <1>3, <2>1
  <2>3. BlockLen(n, r - 1) \in Nat \ {0} /\ BlockStart(r - 1) \in Nat
    BY <1>4, <2>1
  <2> QED BY <1>2, <2>2, <2>3
<1>6. ASSUME NEW b \in 0 .. N PROVE Uncomp(n, b) \in Nat
  <2>1. b = N \/ b \in 0 .. N - 1
    BY <1>1
  <2> QED BY <1>3, <1>4, <2>1
<1>7. Uncomp(n, N) = n
  BY <1>1, <1>3
<1> QED BY <1>2, <1>5, <1>6, <1>7 DEF N

\* An index passes the checks on the stream it was made with, but for the cap.
LEMMA OwnIndexFits ==
  ASSUME NEW s, s.size \in Nat \ {0}, s.blocked
  PROVE  IndexFits(Index(s.size), StreamLen(s)) <=> s.size <= MaxAlloc
<1> DEFINE n == s.size
           N == NumBlocks(n)
           x == Index(n)
<1>1. N \in Nat \ {0}
  BY NumBlocksIs
<1>2. Len(x) = N + 1 /\ \A r \in 1 .. N + 1 : x[r][1] = SegPos(n, r - 1) /\ x[r][2] = Uncomp(n, r - 1)
  BY IndexRows
<1>3. /\ \A b \in 0 .. N : SegPos(n, b) \in Nat
      /\ \A b \in 1 .. N : SegPos(n, b - 1) < SegPos(n, b)
  BY SegPosGrows
<1>4. /\ Uncomp(n, 0) = 0 /\ Uncomp(n, N) = n
      /\ \A r \in 1 .. N : Uncomp(n, r - 1) < Uncomp(n, r)
  BY UncompGrows
<1>5. StreamLen(s) = SegPos(n, N) + (IF s.final THEN TailLen ELSE 0) + Trailer
  BY DEF StreamLen
<1> HIDE DEF n, N, x
<1>6. x[1][2] = 0
  BY <1>1, <1>2, <1>4
<1>7. LastRow(x)[1] = SegPos(n, N) /\ LastRow(x)[2] = n
  BY <1>1, <1>2, <1>4 DEF LastRow
<1>8. SegPos(n, N) <= StreamLen(s)
  BY <1>1, <1>3, <1>5 DEF TailLen, Trailer
<1>9. ASSUME NEW r \in 1 .. N PROVE x[r][1] < x[r + 1][1] /\ x[r][2] < x[r + 1][2]
  <2>1. r \in 1 .. N + 1 /\ r + 1 \in 1 .. N + 1 /\ (r + 1) - 1 = r
    BY <1>1
  <2> QED BY <1>2, <1>3, <1>4, <2>1
<1>10. n # 0 /\ Len(x) - 1 = N
  BY <1>1, <1>2 DEF n
<1>11. IndexFits(x, StreamLen(s)) <=> n <= MaxAlloc
  BY <1>6, <1>7, <1>8, <1>9, <1>10 DEF IndexFits
<1> QED BY <1>11 DEF x, n

\* What inflate yields on a row of the index: the whole block and nothing of the next.
LEMMA RowYields ==
  ASSUME NEW s, s.size \in Nat \ {0}, s.blocked, NEW b \in 0 .. NumBlocks(s.size) - 1,
         NEW off, off = SegPos(s.size, b), NEW inlen, inlen = SegPos(s.size, b + 1) - SegPos(s.size, b)
  PROVE  /\ Aligned(s, off)
         /\ (CHOOSE g \in Segments(s) : g.from = off).first = BlockStart(b)
         /\ Yield(s, off, inlen) = {BlockLen(s.size, b)}
<1> DEFINE n == s.size
           N == NumBlocks(n)
           Seg(c) == [from |-> SegPos(n, c), to |-> SegPos(n, c + 1),
                      first |-> BlockStart(c), len |-> BlockLen(n, c)]
<1>1. N \in Nat \ {0}
  BY NumBlocksIs
<1>2. /\ \A c \in 0 .. N : SegPos(n, c) \in Nat
      /\ \A c, e \in 0 .. N : c < e => SegPos(n, c) < SegPos(n, e)
  BY SegPosGrows
<1>3. Segments(s) = {Seg(c) : c \in 0 .. N - 1}
  BY DEF Segments
<1>4. BlockLen(n, b) \in Nat
  BY BlockLengths
<1>5. \A c \in 0 .. N - 1 :
        /\ Seg(c).from = SegPos(n, c) /\ Seg(c).to = SegPos(n, c + 1)
        /\ Seg(c).first = BlockStart(c) /\ Seg(c).len = BlockLen(n, c)
  OBVIOUS
<1> HIDE DEF N, Seg
<1>6. /\ b \in 0 .. N - 1 /\ b + 1 \in 0 .. N /\ b \in 0 .. N
      /\ off = SegPos(n, b) /\ off + inlen = SegPos(n, b + 1)
  <2>1. b \in 0 .. N - 1 /\ b + 1 \in 0 .. N /\ b \in 0 .. N
    BY <1>1 DEF N
  <2>2. SegPos(n, b) \in Nat /\ SegPos(n, b + 1) \in Nat
    BY <1>2, <2>1
  <2> QED BY <2>1, <2>2
<1> HIDE DEF n
<1>7. \A c \in 0 .. N - 1 : c + 1 \in 0 .. N /\ c \in 0 .. N
  BY <1>1
<1>8. ASSUME NEW c \in 0 .. N - 1
      PROVE  /\ c < b => SegPos(n, c) < off
             /\ c > b => SegPos(n, c) >= off + inlen /\ SegPos(n, c) # off
  <2>1. ASSUME c < b PROVE SegPos(n, c) < off
    BY <1>2, <1>6, <1>7, <2>1
  <2>2. ASSUME c > b PROVE SegPos(n, c) >= off + inlen /\ SegPos(n, c) # off
    <3>1. c = b + 1 \/ b + 1 < c
      BY <1>6, <2>2
    <3>2. off < SegPos(n, c)
      BY <1>2, <1>6, <1>7, <2>2
    <3>3. SegPos(n, c) >= off + inlen
      BY <1>2, <1>6, <1>7, <3>1
    <3>4. off \in Nat /\ SegPos(n, c) \in Nat
      BY <1>2, <1>6, <1>7
    <3> QED BY <3>2, <3>3, <3>4
  <2> QED BY <2>1, <2>2
<1>9. Seg(b) \in Segments(s) /\ Seg(b).from = off
  BY <1>3, <1>5, <1>6
<1>10. \A g \in Segments(s) : g.from = off => g = Seg(b)
  <2> SUFFICES ASSUME NEW c \in 0 .. N - 1, SegPos(n, c) = off PROVE c = b
    BY <1>3, <1>5
  <2>1. SegPos(n, c) \in Nat /\ off \in Nat
    BY <1>2, <1>6, <1>7
  <2> QED BY <1>6, <1>8, <2>1
<1>11. (CHOOSE g \in Segments(s) : g.from = off) = Seg(b)
  BY <1>9, <1>10
<1> DEFINE inside == {g \in Segments(s) : g.from >= off /\ g.to <= off + inlen}
           cut == {g \in Segments(s) : g.from >= off /\ g.from < off + inlen /\ g.to > off + inlen}
<1>12. \A c \in 0 .. N - 1 : SegPos(n, c) >= off /\ SegPos(n, c) < off + inlen => c = b
  <2> TAKE c \in 0 .. N - 1
  <2>1. SegPos(n, c) \in Nat /\ off \in Nat /\ off + inlen \in Nat
    BY <1>2, <1>6, <1>7
  <2> QED BY <1>6, <1>8, <2>1
<1>13. \A c \in 0 .. N - 1 : SegPos(n, c) < SegPos(n, c + 1) /\ SegPos(n, c) \in Nat /\ SegPos(n, c + 1) \in Nat
  <2> TAKE c \in 0 .. N - 1
  <2>1. c < c + 1
    OBVIOUS
  <2> QED BY <1>2, <1>7, <2>1
<1>14. off \in Nat /\ off + inlen \in Nat
  BY <1>2, <1>6
<1>15. inside = {Seg(b)}
  <2>1. Seg(b) \in inside
    BY <1>5, <1>6, <1>9, <1>14
  <2>2. \A g \in inside : g = Seg(b)
    <3> SUFFICES ASSUME NEW c \in 0 .. N - 1, SegPos(n, c) >= off, SegPos(n, c + 1) <= off + inlen
                 PROVE  c = b
      BY <1>3, <1>5
    <3> QED BY <1>12, <1>13, <1>14
  <2> HIDE DEF inside
  <2> QED BY <2>1, <2>2
<1>16. cut = {}
  <2> SUFFICES ASSUME NEW c \in 0 .. N - 1, SegPos(n, c) >= off, SegPos(n, c) < off + inlen,
                      SegPos(n, c + 1) > off + inlen
               PROVE  FALSE
    BY <1>3, <1>5
  <2>1. c = b
    BY <1>12
  <2> QED BY <1>6, <1>14, <2>1
<1>17. Yield(s, off, inlen) = {MapThenSumSet(LAMBDA g : g.len, inside) + extra :
                              extra \in 0 .. MapThenSumSet(LAMBDA g : g.len, cut)}
  BY DEF Yield
<1>18. MapThenSumSet(LAMBDA g : g.len, inside) = BlockLen(n, b)
  <2>1. MapThenSumSet(LAMBDA g : g.len, {Seg(b)}) = Seg(b).len + 0
    BY SumOfOne
  <2> QED BY <1>4, <1>5, <1>6, <1>15, <2>1 DEF n
<1>19. MapThenSumSet(LAMBDA g : g.len, cut) = 0
  BY <1>16, SumOfNone
<1> HIDE DEF inside, cut
<1>20. Yield(s, off, inlen) = {BlockLen(n, b)}
  <2> DEFINE a == MapThenSumSet(LAMBDA g : g.len, inside)
             c == MapThenSumSet(LAMBDA g : g.len, cut)
  <2>1. a \in Nat /\ a = BlockLen(n, b) /\ c = 0 /\ Yield(s, off, inlen) = {a + extra : extra \in 0 .. c}
    BY <1>4, <1>17, <1>18, <1>19 DEF n
  <2> HIDE DEF a, c
  <2> QED BY <2>1
<1> QED BY <1>5, <1>6, <1>9, <1>11, <1>20 DEF Aligned, n

\* What a call decodes with: a stream in blocks and the index it was made with.
OwnIndex ==
  /\ call.op = "inflate" /\ call.stream.blocked
  /\ call.index = Index(call.stream.size)

\* What the worker makes of each row.
LEMMA RowFills ==
  ASSUME call.stream.size \in Nat \ {0}, OwnIndex, NEW r \in Rows
  PROVE  /\ Fills(call.stream, RowOff(r), RowIn(r), RowCap(r))
              = {[k \in 1 .. RowCap(r) |-> Uncomp(call.stream.size, r - 1) + k]}
         /\ ~MayFallShort(call.stream, RowOff(r), RowIn(r), RowCap(r))
<1> DEFINE s == call.stream
           n == s.size
           N == NumBlocks(n)
           off == RowOff(r)
           inlen == RowIn(r)
           cap == RowCap(r)
<1>1. N \in Nat
  BY NumBlocksIs
<1>2. Len(call.index) = N + 1 /\ \A q \in 1 .. N + 1 :
         call.index[q][1] = SegPos(n, q - 1) /\ call.index[q][2] = Uncomp(n, q - 1)
  BY IndexRows DEF OwnIndex
<1>3. \A q \in 1 .. N : /\ Uncomp(n, q - 1) = BlockStart(q - 1)
                        /\ Uncomp(n, q) = Uncomp(n, q - 1) + BlockLen(n, q - 1)
  BY UncompGrows
<1>4. \A b \in 0 .. N - 1 : BlockLen(n, b) \in Nat /\ BlockStart(b) \in Nat
  BY BlockLengths
<1> HIDE DEF N
<1>5. r \in 1 .. N /\ r \in 1 .. N + 1 /\ r + 1 \in 1 .. N + 1 /\ (r + 1) - 1 = r /\ r - 1 \in 0 .. N - 1
  BY <1>1, <1>2 DEF Rows
<1>6. /\ off = SegPos(n, r - 1) /\ inlen = SegPos(n, r) - SegPos(n, r - 1)
      /\ cap = Uncomp(n, r) - Uncomp(n, r - 1)
  BY <1>2, <1>5 DEF RowOff, RowIn, RowCap
<1>7. cap = BlockLen(n, r - 1) /\ cap \in Nat /\ Uncomp(n, r - 1) = BlockStart(r - 1)
  BY <1>3, <1>4, <1>5, <1>6
<1>8. /\ Aligned(s, off)
      /\ (CHOOSE g \in Segments(s) : g.from = off).first = BlockStart(r - 1)
      /\ Yield(s, off, inlen) = {BlockLen(n, r - 1)}
  <2>1. (r - 1) + 1 = r
    BY <1>5
  <2>2. s.blocked
    BY DEF OwnIndex
  <2>3. inlen = SegPos(n, (r - 1) + 1) - SegPos(n, r - 1)
    BY <1>6, <2>1
  <2> HIDE DEF s, off, inlen
  <2>4. s.size \in Nat \ {0} /\ r - 1 \in 0 .. NumBlocks(s.size) - 1
    BY <1>5 DEF s, N
  <2> QED BY <1>6, <2>2, <2>3, <2>4, RowYields
<1> HIDE DEF s, n, off, inlen, cap
<1>9. (\E y \in Yield(s, off, inlen) : y >= cap) /\ ~(\E y \in Yield(s, off, inlen) : y < cap)
  BY <1>7, <1>8
<1>10. Fills(s, off, inlen, cap) = {[k \in 1 .. cap |-> Uncomp(n, r - 1) + k]}
  <2> DEFINE first == (CHOOSE g \in Segments(s) : g.from = off).first
  <2>1. Fills(s, off, inlen, cap) = {[k \in 1 .. cap |-> first + k]}
    BY <1>8, <1>9 DEF Fills
  <2>2. first = Uncomp(n, r - 1)
    BY <1>7, <1>8
  <2> HIDE DEF first
  <2> QED BY <2>1, <2>2
<1>11. ~MayFallShort(s, off, inlen, cap)
  BY <1>8, <1>9 DEF MayFallShort
<1> QED BY <1>10, <1>11 DEF s, n, off, inlen, cap

\* The slices of the rows make the document.
LEMMA SlicesAssemble ==
  ASSUME call.stream.size \in Nat \ {0}, OwnIndex, NEW f,
         \A r \in Rows : f[r] = [k \in 1 .. RowCap(r) |-> Uncomp(call.stream.size, r - 1) + k]
  PROVE  Assemble(f) = Content(call.stream.size)
<1> DEFINE n == call.stream.size
           N == NumBlocks(n)
<1>1. N \in Nat
  BY NumBlocksIs
<1>2. Len(call.index) = N + 1 /\ \A q \in 1 .. N + 1 : call.index[q][2] = Uncomp(n, q - 1)
  BY IndexRows DEF OwnIndex
<1>3. /\ Uncomp(n, 0) = 0 /\ Uncomp(n, N) = n
      /\ \A b \in 0 .. N : Uncomp(n, b) \in Nat
  BY UncompGrows
<1> HIDE DEF N
<1>4. Rows = 1 .. N
  BY <1>1, <1>2 DEF Rows
<1>5. LastRow(call.index)[2] = n
  BY <1>1, <1>2, <1>3 DEF LastRow
<1>6. \A r \in 1 .. N : call.index[r][2] = Uncomp(n, r - 1) /\ call.index[r + 1][2] = Uncomp(n, r)
  <2> TAKE r \in 1 .. N
  <2>1. r \in 1 .. N + 1 /\ r + 1 \in 1 .. N + 1 /\ (r + 1) - 1 = r
    BY <1>1
  <2> QED BY <1>2, <2>1
<1>7. n \in Nat
  OBVIOUS
<1>8. ASSUME NEW k \in 1 .. n
      PROVE  \E r \in Rows : call.index[r][2] < k /\ k <= call.index[r + 1][2]
  <2> DEFINE S == {m \in Nat : m <= N /\ k <= Uncomp(n, m) =>
                     \E r \in 1 .. N : Uncomp(n, r - 1) < k /\ k <= Uncomp(n, r)}
  <2>1. 0 \in S
    BY <1>3
  <2>2. ASSUME NEW m \in Nat, m \in S PROVE m + 1 \in S
    <3>1. CASE m + 1 <= N /\ k <= Uncomp(n, m + 1)
      <4>1. m + 1 \in 1 .. N /\ m \in 0 .. N /\ (m + 1) - 1 = m
        BY <1>1, <3>1
      <4>2. CASE k <= Uncomp(n, m)
        BY <2>2, <4>1, <4>2
      <4>3. CASE Uncomp(n, m) < k
        BY <3>1, <4>1, <4>3
      <4>4. Uncomp(n, m) \in Nat
        BY <1>3, <4>1
      <4> QED BY <4>2, <4>3, <4>4
    <3> QED BY <3>1
  <2>3. Nat \subseteq S
    <3> HIDE DEF S
    <3> QED BY <2>1, <2>2, Induction
  <2>4. N \in S /\ k <= Uncomp(n, N)
    BY <1>1, <1>3, <2>3
  <2>5. PICK r \in 1 .. N : Uncomp(n, r - 1) < k /\ k <= Uncomp(n, r)
    BY <1>1, <2>4
  <2> HIDE DEF n
  <2> QED BY <1>4, <1>6, <2>5
<1> DEFINE Row(k) == CHOOSE r \in Rows : call.index[r][2] < k /\ k <= call.index[r + 1][2]
<1>9. ASSUME NEW k \in 1 .. n PROVE f[Row(k)][k - call.index[Row(k)][2]] = k
  <2>1. Row(k) \in Rows /\ call.index[Row(k)][2] < k /\ k <= call.index[Row(k) + 1][2]
    BY <1>8
  <2> HIDE DEF Row
  <2>2. PICK r \in 1 .. N : r = Row(k)
    BY <1>4, <2>1
  <2>3. call.index[r][2] = Uncomp(n, r - 1) /\ call.index[r + 1][2] = Uncomp(n, r)
    BY <1>6
  <2>4. Uncomp(n, r - 1) \in Nat /\ Uncomp(n, r) \in Nat
    <3>1. r - 1 \in 0 .. N /\ r \in 0 .. N
      BY <1>1
    <3> QED BY <1>3, <3>1
  <2>5. RowCap(r) = Uncomp(n, r) - Uncomp(n, r - 1)
    BY <2>3 DEF RowCap
  <2>6. k - Uncomp(n, r - 1) \in 1 .. RowCap(r)
    BY <1>7, <2>1, <2>2, <2>3, <2>4, <2>5
  <2>7. f[r][k - Uncomp(n, r - 1)] = Uncomp(n, r - 1) + (k - Uncomp(n, r - 1))
    BY <1>4, <2>6
  <2>8. Uncomp(n, r - 1) + (k - Uncomp(n, r - 1)) = k
    BY <1>7, <2>4
  <2> QED BY <2>2, <2>3, <2>7, <2>8
<1>10. Assemble(f) = [k \in 1 .. n |-> f[Row(k)][k - call.index[Row(k)][2]]]
  <2> HIDE DEF n
  <2> QED BY <1>5 DEF Assemble
<1> HIDE DEF Row
<1> QED BY <1>9, <1>10 DEF Content

\* The streams the client keeps, and those it is about to take or decode.
StreamsInv ==
  /\ \A s \in streams : s.size \in Sizes
  /\ pc # "idle" /\ call.op = "deflate" => call.size \in Sizes
  /\ pc # "idle" /\ call.op = "inflate" => call.stream.size \in Sizes
  /\ pc \in {"icheck", "icalloc", "iout", "ipool"} => call.op # "deflate"
  /\ pc = "return" /\ call.op = "deflate" /\ res.rc = 0 => res.stream.size \in Sizes

\* A decoding with its own index comes to the serial path by the gate, by a fault or because
\* the document passes the cap, and goes on with the index only when it does not.
DecodeInv ==
  OwnIndex => /\ pc = "serial" /\ TriesBlocks => fault \/ call.stream.size > MaxAlloc
              /\ pc \in {"icalloc", "iout", "ipool"} => call.stream.size <= MaxAlloc

DInv == LInv /\ StreamsInv /\ DecodeInv /\ OwnIndexDecodes

\* The initial state satisfies the invariant.
LEMMA DecodeInit == Init => DInv
<1>1. Init => LInv
  BY IndexedInit
<1>2. Init => StreamsInv /\ DecodeInv /\ OwnIndexDecodes
  BY DEF Init, StreamsInv, DecodeInv, OwnIndexDecodes
<1> QED BY <1>1, <1>2 DEF DInv

\* The arguments stay during a call.
LEMMA SameCall ==
  ASSUME UNCHANGED call
  PROVE  UNCHANGED <<OwnIndex, TriesBlocks>>
BY DEF OwnIndex, TriesBlocks, ReqThread, InputSize

\* Every step preserves it: one step per action, those that do not return by <1>9 and <1>10.
LEMMA DecodeStep == DInv /\ [Next]_vars => DInv'
<1> SUFFICES ASSUME DInv, [Next]_vars PROVE DInv'
  OBVIOUS
<1>1. LInv' /\ LInv
  BY IndexedStep DEF DInv
<1>2. StreamsInv /\ DecodeInv /\ OwnIndexDecodes
  BY DEF DInv
<1>3. pc \notin {"idle", "return"} => res = NoRes
  BY <1>1 DEF LInv, ResInv
<1>a. OwnIndex /\ pc # "idle" => call.stream.size \in Nat \ {0} /\ MaxAlloc \in Nat
  BY <1>2, IndexedAssumption DEF StreamsInv, OwnIndex
<1>4. pc = "dbuild" => call.op = "deflate"
  BY <1>1 DEF LInv, CallInv
<1>5. SUFFICES StreamsInv' /\ DecodeInv' /\ OwnIndexDecodes'
  BY <1>1 DEF DInv
<1>6. CASE CallCompress
  <2>1. pc' = "gate" /\ UNCHANGED streams /\ call'.op = "deflate" /\ call'.size \in Sizes
    BY <1>6 DEF CallCompress, Begin
  <2> QED BY <1>2, <2>1 DEF StreamsInv, DecodeInv, OwnIndexDecodes
<1>7. CASE CallDecompress
  <2>1. pc' = "gate" /\ UNCHANGED streams /\ call'.op = "inflate" /\ call'.stream \in streams
    BY <1>7 DEF CallDecompress, Begin
  <2> QED BY <1>2, <2>1 DEF StreamsInv, DecodeInv, OwnIndexDecodes
<1>8. CASE Take
  <2>1. pc = "return" /\ pc' = "idle"
    BY <1>8 DEF Take
  <2>2. \A s \in streams' : s.size \in Sizes
    <3>1. CASE call.op = "deflate" /\ res.rc = 0
      <4>1. streams' = streams \cup {res.stream}
        BY <1>8, <3>1 DEF Take
      <4> QED BY <1>2, <2>1, <3>1, <4>1 DEF StreamsInv
    <3>2. CASE ~(call.op = "deflate" /\ res.rc = 0)
      <4>1. streams' = streams
        BY <1>8, <3>2 DEF Take
      <4> QED BY <1>2, <4>1 DEF StreamsInv
    <3> QED BY <3>1, <3>2
  <2> QED BY <2>1, <2>2 DEF StreamsInv, DecodeInv, OwnIndexDecodes
<1>9. ASSUME UNCHANGED <<call, streams>>, pc \notin {"idle", "return"}, pc' \notin {"idle", "return", "serial"},
             pc' \in {"icheck", "icalloc", "iout", "ipool"} =>
               pc \in {"icheck", "icalloc", "iout", "ipool"} \/ call.op # "deflate",
             OwnIndex /\ pc' \in {"icalloc", "iout", "ipool"} =>
               pc \in {"icalloc", "iout", "ipool"} \/ call.stream.size <= MaxAlloc
      PROVE  StreamsInv' /\ DecodeInv' /\ OwnIndexDecodes'
  <2>1. DecodeInv'
    BY <1>2, <1>9, SameCall DEF DecodeInv
  <2>2. StreamsInv' /\ OwnIndexDecodes'
    BY <1>2, <1>9 DEF StreamsInv, OwnIndexDecodes
  <2> QED BY <2>1, <2>2
<1>10. ASSUME UNCHANGED <<call, streams>>, pc \notin {"idle", "return"}, pc' = "serial",
              OwnIndex /\ TriesBlocks => fault' \/ call.stream.size > MaxAlloc
       PROVE  StreamsInv' /\ DecodeInv' /\ OwnIndexDecodes'
  <2>1. DecodeInv'
    BY <1>10, SameCall DEF DecodeInv
  <2>2. StreamsInv' /\ OwnIndexDecodes'
    BY <1>2, <1>10 DEF StreamsInv, OwnIndexDecodes
  <2> QED BY <2>1, <2>2
<1>11. CASE Gate
  <2>1. pc = "gate" /\ UNCHANGED <<call, streams>>
    BY <1>11 DEF Gate, client
  <2>2. CASE pc' = "serial"
    <3>1. ~TriesBlocks
      BY <1>11, <2>2 DEF Gate
    <3> QED BY <1>10, <2>1, <2>2, <3>1
  <2>3. CASE pc' \in {"dcalloc", "icheck"}
    <3>1. pc' = "icheck" => call.op # "deflate"
      BY <1>11, <2>3 DEF Gate
    <3> QED BY <1>9, <2>1, <2>3, <3>1
  <2>4. pc' = "serial" \/ pc' \in {"dcalloc", "icheck"}
    BY <1>11 DEF Gate
  <2> QED BY <2>2, <2>3, <2>4
<1>12. CASE Serial
  <2>1. pc = "serial" /\ pc' = "return" /\ UNCHANGED <<call, streams>>
    BY <1>12 DEF Serial, client
  <2>2. DecodeInv'
    BY <2>1 DEF DecodeInv
  <2>3. StreamsInv'
    <3>1. call.op = "deflate" /\ res'.rc = 0 => res'.stream.size = call.size
      <4> SUFFICES ASSUME call.op = "deflate", res'.rc = 0 PROVE res'.stream.size = call.size
        OBVIOUS
      <4>1. CASE res' = [NoRes EXCEPT !.rc = -5, !.path = "serial"]
        BY <4>1 DEF NoRes
      <4>2. CASE res' = [NoRes EXCEPT !.rc = 0, !.path = "serial", !.stream =
                           [size |-> call.size, blocked |-> FALSE, final |-> TRUE]]
        BY <4>2 DEF NoRes
      <4> QED BY <1>12, <4>1, <4>2 DEF Serial
    <3> QED BY <1>2, <2>1, <3>1 DEF StreamsInv
  <2>4. OwnIndexDecodes'
    <3> SUFFICES ASSUME OwnIndex
                 PROVE  /\ res'.rc = 0 => res'.bytes = Content(call.stream.size)
                        /\ TriesBlocks /\ ~fault' => (res'.path = "blocks" <=> call.stream.size <= MaxAlloc)
                        /\ res'.rc # 0 => \/ fault' \/ ~call.stream.final \/ call.stream.size > MaxAlloc
                                          \/ call.stream.size = MaxAlloc /\ ~TriesBlocks
      BY <2>1, SameCall DEF OwnIndexDecodes, OwnIndex
    <3>0. call.stream.size \in Nat /\ MaxAlloc \in Nat
      BY <1>a, <2>1
    <3>1. TriesBlocks => fault \/ call.stream.size > MaxAlloc
      BY <1>2, <2>1 DEF DecodeInv
    <3>2. fault \in BOOLEAN
      BY <1>1 DEF LInv, TypeOK
    <3>3. CASE /\ res' = [NoRes EXCEPT !.rc = 0, !.path = "serial", !.bytes = Content(call.stream.size)]
               /\ fault' = fault
      <4>1. res'.rc = 0 /\ res'.bytes = Content(call.stream.size) /\ res'.path = "serial"
        BY <3>3 DEF NoRes
      <4> QED BY <3>0, <3>1, <3>3, <4>1
    <3>4. CASE /\ res' = [NoRes EXCEPT !.rc = -5, !.path = "serial"]
               /\ fault' = (fault \/ (Decodable /\ Fitting))
      <4>1. res'.rc = -5 /\ res'.path = "serial"
        BY <3>4 DEF NoRes
      <4>2. call.stream.final /\ call.stream.size < MaxAlloc => fault'
        BY <3>4, Zenon DEF Decodable, Fitting, OwnIndex
      <4>3. fault => fault'
        BY <3>4, Zenon
      <4>4. ~fault' => (~call.stream.final \/ call.stream.size >= MaxAlloc) /\ ~fault
        BY <3>0, <4>2, <4>3
      <4> QED BY <3>0, <3>1, <4>1, <4>4
    <3>5. call.op # "deflate"
      BY DEF OwnIndex
    <3> QED BY <1>12, <3>3, <3>4, <3>5 DEF Serial
  <2> QED BY <2>2, <2>3, <2>4
<1>13. CASE DCalloc
  BY <1>9, <1>10, <1>13 DEF DCalloc, Abandon, client
<1>14. CASE DBuffer
  <2>1. pc = "dbufs" /\ UNCHANGED <<call, streams>>
    BY <1>14 DEF DBuffer, client
  <2>2. (pc' = "serial" /\ fault') \/ pc' \in {"dpool", "dbufs"}
    BY <1>14 DEF DBuffer, Abandon
  <2> QED BY <1>9, <1>10, <2>1, <2>2
<1>15. CASE DPool
  <2>1. pc = "dpool" /\ UNCHANGED <<call, streams>> /\ ((pc' = "serial" /\ fault') \/ pc' = "dtail")
    BY <1>15 DEF DPool, Abandon, client
  <2> QED BY <1>9, <1>10, <2>1
<1>16. CASE DTail
  BY <1>9, <1>16 DEF DTail, client
<1>17. CASE DOut
  <2>1. pc = "dout" /\ UNCHANGED <<call, streams>> /\ ((pc' = "serial" /\ fault') \/ pc' = "dbuild")
    BY <1>17 DEF DOut, Abandon, client
  <2> QED BY <1>9, <1>10, <2>1
<1>18. CASE DBuild
  <2>1. pc = "dbuild" /\ pc' = "return" /\ UNCHANGED <<call, streams>> /\ res'.stream.size = call.size
    BY <1>18 DEF DBuild, NoRes, client
  <2>2. ~OwnIndex'
    BY <1>4, <2>1 DEF OwnIndex
  <2>3. DecodeInv' /\ OwnIndexDecodes'
    BY <2>1, <2>2 DEF DecodeInv, OwnIndexDecodes, OwnIndex
  <2>4. StreamsInv'
    BY <1>2, <2>1 DEF StreamsInv
  <2> QED BY <2>3, <2>4
<1>19. OwnIndex /\ pc # "idle" => call.stream.size \in Nat \ {0}
  BY <1>a
<1>20. CASE ICheck
  <2>1. pc = "icheck" /\ UNCHANGED <<call, streams>>
    BY <1>20 DEF ICheck, client
  <2>2. OwnIndex => (IndexFits(call.index, InputSize) <=> call.stream.size <= MaxAlloc)
    <3> SUFFICES ASSUME OwnIndex
                 PROVE  IndexFits(call.index, InputSize) <=> call.stream.size <= MaxAlloc
      OBVIOUS
    <3>1. call.stream.size \in Nat \ {0} /\ call.stream.blocked
      BY <1>19, <2>1 DEF OwnIndex
    <3>2. IndexFits(Index(call.stream.size), StreamLen(call.stream)) <=> call.stream.size <= MaxAlloc
      BY <3>1, OwnIndexFits
    <3> QED BY <3>2 DEF OwnIndex, InputSize
  <2>3. \/ pc' = "icalloc" /\ (OwnIndex => call.stream.size <= MaxAlloc)
        \/ pc' = "serial" /\ (OwnIndex => call.stream.size > MaxAlloc)
    <3>1. CASE IndexFits(call.index, InputSize)
      BY <1>20, <2>2, <3>1 DEF ICheck
    <3>2. CASE ~IndexFits(call.index, InputSize)
      BY <1>20, <1>a, <2>1, <2>2, <3>2 DEF ICheck, Abandon
    <3> QED BY <3>1, <3>2
  <2> QED BY <1>9, <1>10, <2>1, <2>3
<1>21. CASE ICalloc
  <2>1. pc = "icalloc" /\ UNCHANGED <<call, streams>> /\ ((pc' = "serial" /\ fault') \/ pc' = "iout")
    BY <1>21 DEF ICalloc, Abandon, client
  <2> QED BY <1>9, <1>10, <2>1
<1>22. CASE IOut
  <2>1. pc = "iout" /\ UNCHANGED <<call, streams>> /\ ((pc' = "serial" /\ fault') \/ pc' = "ipool")
    BY <1>22 DEF IOut, Abandon, client
  <2> QED BY <1>9, <1>10, <2>1
<1>23. CASE IPool
  <2>1. pc = "ipool" /\ UNCHANGED <<call, streams>>
    BY <1>23 DEF IPool, client
  <2>2. CASE pc' = "serial"
    <3>1. OwnIndex => fault'
      <4> SUFFICES ASSUME OwnIndex PROVE fault'
        OBVIOUS
      <4>1. \A r \in Rows : ~MayFallShort(call.stream, RowOff(r), RowIn(r), RowCap(r))
        BY <1>19, <2>1, RowFills
      <4> QED BY <1>23, <2>2, <4>1 DEF IPool
    <3> QED BY <1>10, <2>1, <2>2, <3>1
  <2>3. CASE pc' = "return"
    <3> DEFINE f == [r \in Rows |->
                       CHOOSE o \in Fills(call.stream, RowOff(r), RowIn(r), RowCap(r)) : TRUE]
    <3>1. res' = [NoRes EXCEPT !.rc = 0, !.path = "blocks", !.bytes = Assemble(f)]
      BY <1>23, <2>3 DEF IPool, Abandon
    <3>2. ASSUME OwnIndex PROVE Assemble(f) = Content(call.stream.size)
      <4>1. \A r \in Rows : f[r] = [k \in 1 .. RowCap(r) |-> Uncomp(call.stream.size, r - 1) + k]
        <5> TAKE r \in Rows
        <5>1. Fills(call.stream, RowOff(r), RowIn(r), RowCap(r))
                = {[k \in 1 .. RowCap(r) |-> Uncomp(call.stream.size, r - 1) + k]}
          BY <1>19, <2>1, <3>2, RowFills
        <5> QED BY <5>1
      <4> HIDE DEF f
      <4> QED BY <1>19, <2>1, <3>2, <4>1, SlicesAssemble
    <3> HIDE DEF f
    <3>3. res'.rc = 0 /\ res'.path = "blocks" /\ res'.bytes = Assemble(f)
      BY <3>1 DEF NoRes
    <3>4. OwnIndexDecodes'
      <4> SUFFICES ASSUME OwnIndex
                   PROVE  /\ res'.bytes = Content(call.stream.size)
                          /\ res'.path = "blocks" /\ res'.rc = 0 /\ call.stream.size <= MaxAlloc
        BY <2>1, SameCall DEF OwnIndexDecodes, OwnIndex
      <4> QED BY <1>2, <2>1, <3>2, <3>3 DEF DecodeInv
    <3> QED BY <1>2, <2>1, <2>3, <3>4 DEF StreamsInv, DecodeInv
  <2> QED BY <1>23, <2>2, <2>3 DEF IPool, Abandon
<1>24. CASE Finished \/ UNCHANGED vars
  <2>1. UNCHANGED <<pc, call, streams, res, fault>>
    BY <1>24 DEF Finished, vars
  <2>2. UNCHANGED <<OwnIndex, TriesBlocks>>
    BY <2>1, SameCall
  <2> QED BY <1>2, <2>1, <2>2 DEF StreamsInv, DecodeInv, OwnIndexDecodes, OwnIndex
<1> QED BY <1>6, <1>7, <1>8, <1>11, <1>12, <1>13, <1>14, <1>15, <1>16, <1>17, <1>18, <1>20,
           <1>21, <1>22, <1>23, <1>24 DEF Next

\* The invariant holds in every reachable state.
THEOREM DecodeInvariance == Spec => []DInv
BY DecodeInit, DecodeStep, PTL DEF Spec

\* A stream decoded with the index it was made with gives the document, on either path and
\* whichever thread or allocation fails.  Without a fault the index is used if and only if
\* the document does not pass ZMAT_MAX_ALLOC, and an error is due to a fault of this call,
\* to one when the final block was made, or to a document that is not below the cap.
THEOREM OwnIndexIsGood == Spec => []OwnIndexDecodes
BY DecodeInvariance, PTL DEF DInv

-----------------------------------------------------------------------------
(* The Python extension *)

\* What the extension owns at each place, and which of its pointers are set beside.
OwnInv ==
  /\ ~twice /\ held \subseteq ptr
  /\ epc \in {"idle", "parse"} => ptr = {}
  /\ epc \in {"check", "offsets"} => held = {"view"} /\ ptr = {"view"}
  /\ epc = "sequence" => held = {"view", "seq"} /\ ptr = {"view", "seq"}
  /\ epc = "convert" => held = {"view", "seq", "index"} /\ ptr = {"view", "seq", "index"}
  /\ epc \in {"run", "failed"} =>
       held \in {{"view"}, {"view", "index"}} /\ ptr \subseteq held \cup {"seq"}
  /\ epc = "ran" =>
       held \in {{"view", "out"}, {"view", "out", "index"}} /\ ptr \subseteq held \cup {"seq"}
  /\ epc = "bytes" => /\ held \subseteq Owned /\ "out" \in held
                      /\ ptr \cap Owned \subseteq held /\ "result" \notin ptr
  /\ epc = "list" => held \subseteq {"index", "result"} /\ ptr \cap {"index", "result"} \subseteq held
  /\ epc = "returned" => held = {}

\* What it may answer.
Answers == IF args.data.of = <<>> THEN {Raw(<<>>)} ELSE Outputs

AnswerInv ==
  /\ epc \in {"idle", "parse", "check", "offsets", "sequence", "convert", "run", "failed", "ran",
              "bytes", "list", "returned"}
  /\ err \in BOOLEAN /\ spoiled \in BOOLEAN
  /\ epc \notin {"list", "returned"} => ~err
  /\ epc \notin {"idle", "parse", "check", "returned"} => args.data.of # <<>>
  /\ epc \in {"ran", "bytes", "list"} => content \in Outputs
  /\ epc = "list" => Pair
  /\ epc = "returned" /\ ~err /\ ~Pair => answer \in Answers

PyInv == OwnInv /\ AnswerInv /\ ErrorOrResult

\* What the library gives is never NULL.
LEMMA OutputsExist ==
  ASSUME NEW c \in Outputs
  PROVE  c # Null /\ \A i : [c EXCEPT !.index = i] # Null
<1>1. PICK b, d : c = PackedBy(b, d) \/ c = Raw(d)
  BY DEF Outputs
<1>2. c.form # "NULL" /\ \A i : [c EXCEPT !.index = i].form # "NULL"
  <2>1. CASE c = PackedBy(b, d)
    BY <2>1 DEF PackedBy
  <2>2. CASE c = Raw(d)
    BY <2>2 DEF Raw
  <2> QED BY <1>1, <2>1, <2>2
<1>3. Null.form = "NULL"
  BY DEF Null
<1> QED BY <1>2, <1>3

LEMMA EnterInv == ASSUME NEW a, Enter(a) PROVE PyInv'
BY DEF Enter, PyInv, OwnInv, AnswerInv, ErrorOrResult


\* During a call its arguments stay.
LEMMA ArgumentsStay ==
  ASSUME UNCHANGED args
  PROVE  UNCHANGED <<CLevel, Outputs, Answers, Pair, Owned, Unused>>
<1>1. UNCHANGED <<CLevel, Pair, Owned, Unused>>
  BY DEF CLevel, Pair, Owned, Unused
<1>2. UNCHANGED Outputs
  BY <1>1 DEF Outputs
<1> QED BY <1>1, <1>2 DEF Answers

\* A return that drops what is owned and nothing else.
LEMMA LeaveInv ==
  ASSUME PyInv, UNCHANGED args, NEW object, NEW exception \in BOOLEAN, NEW old,
         Leave(object, exception, old), held \subseteq old, old \cap ptr \subseteq held,
         spoiled' \in BOOLEAN, (object = Null) = exception \/ (spoiled' /\ exception),
         ~exception /\ ~Pair => object \in Answers
  PROVE  PyInv'
<1>1. /\ epc' = "returned" /\ answer' = object /\ err' = exception
      /\ held' = {} /\ ~twice' /\ ptr' = ptr
  BY DEF Leave, Dropped, PyInv, OwnInv
<1>2. OwnInv'
  BY <1>1 DEF OwnInv
<1>3. AnswerInv'
  BY <1>1, ArgumentsStay DEF AnswerInv
<1> QED BY <1>1, <1>2, <1>3 DEF PyInv, ErrorOrResult

\* A step that does not return.
LEMMA GoOnInv ==
  ASSUME UNCHANGED args, OwnInv', AnswerInv', epc' # "returned"
  PROVE  PyInv'
BY DEF PyInv, ErrorOrResult

LEMMA PyStepInv == PyInv /\ PyStep => PyInv'
<1> SUFFICES ASSUME PyInv, PyStep PROVE PyInv'
  OBVIOUS
<1>1. OwnInv /\ AnswerInv
  BY DEF PyInv
<1>2. UNCHANGED args
  BY DEF PyStep, Parse, CheckArguments, Sequence, Reserve, Convert, RunCodec, Failed, ReleaseView, MakeBytes, MakeList
<1>3. UNCHANGED <<CLevel, Outputs, Answers, Pair, Owned, Unused>>
  BY <1>2, ArgumentsStay
<1>4. CASE Parse
  <2>1. CASE Leave(Null, TRUE, {})
    BY <1>1, <1>2, <1>4, <2>1, LeaveInv DEF Parse, OwnInv, AnswerInv
  <2>2. CASE epc' = "check" /\ Got({"view"}) /\ UNCHANGED <<err, answer>>
    BY <1>1, <1>2, <1>4, <2>2, GoOnInv DEF Parse, Got, OwnInv, AnswerInv
  <2> QED BY <1>4, <2>1, <2>2 DEF Parse
<1>5. CASE CheckArguments
  <2>1. epc = "check" /\ held = {"view"} /\ ptr = {"view"} /\ ~err /\ spoiled' = spoiled
        /\ UNCHANGED content
    BY <1>1, <1>5 DEF CheckArguments, OwnInv, AnswerInv
  <2>2. CASE args.data.of = <<>> /\ Leave(Raw(<<>>), FALSE, {"view"})
    <3>1. Raw(<<>>) # Null /\ Raw(<<>>) \in Answers
      BY <2>2 DEF Raw, Null, Answers
    <3> QED BY <1>1, <1>2, <2>1, <2>2, <3>1, LeaveInv DEF AnswerInv
  <2>3. CASE Leave(Null, TRUE, {"view"})
    BY <1>1, <1>2, <2>1, <2>3, LeaveInv DEF AnswerInv
  <2>4. CASE /\ args.data.of # <<>> /\ epc' \in {"offsets", "run"}
             /\ UNCHANGED <<resources, err, answer>>
    BY <1>1, <1>2, <2>1, <2>4, GoOnInv DEF OwnInv, AnswerInv, resources
  <2> QED BY <1>5, <2>2, <2>3, <2>4 DEF CheckArguments
<1>6. CASE Sequence
  <2>1. CASE Leave(Null, TRUE, {"view"})
    BY <1>1, <1>2, <1>6, <2>1, LeaveInv DEF Sequence, OwnInv, AnswerInv
  <2>2. CASE Got({"seq"}) /\ epc' = "sequence" /\ UNCHANGED <<err, answer>>
    BY <1>1, <1>2, <1>6, <2>2, GoOnInv DEF Sequence, Got, OwnInv, AnswerInv
  <2> QED BY <1>6, <2>1, <2>2 DEF Sequence
<1>7. CASE Reserve
  BY <1>1, <1>2, <1>7, GoOnInv DEF Reserve, Got, Dropped, OwnInv, AnswerInv
<1>8. CASE Convert
  <2>1. CASE NotANumber
    BY <1>1, <1>2, <1>8, <2>1, LeaveInv DEF Convert, NotANumber, OwnInv, AnswerInv
  <2>2. CASE Dropped({"seq"}) /\ epc' = "run" /\ UNCHANGED <<err, answer>>
    BY <1>1, <1>2, <1>8, <2>2, GoOnInv DEF Convert, Dropped, OwnInv, AnswerInv
  <2> QED BY <1>8, <2>1, <2>2 DEF Convert
<1>9. CASE RunCodec
  <2>1. /\ epc = "run" /\ ~err /\ UNCHANGED <<err, spoiled, answer>> /\ args.data.of # <<>>
        /\ held \in {{"view"}, {"view", "index"}} /\ ptr \subseteq held \cup {"seq"}
    BY <1>1, <1>9 DEF RunCodec, OwnInv, AnswerInv
  <2>2. CASE epc' = "failed" /\ UNCHANGED <<resources, content, index>>
    BY <1>1, <1>2, <2>1, <2>2, GoOnInv DEF OwnInv, AnswerInv, resources
  <2>3. CASE content' \in Outputs /\ epc' = "ran" /\ (Got({"out"}) \/ Got({"out", "index"}))
    <3>1. OwnInv'
      <4>1. /\ held' \in {{"view", "out"}, {"view", "out", "index"}} /\ ptr' \subseteq held' \cup {"seq"}
            /\ held' \subseteq ptr' /\ ~twice'
        <5>1. held \subseteq ptr /\ ~twice
          BY <1>1 DEF OwnInv
        <5>2. CASE Got({"out"})
          BY <2>1, <5>1, <5>2 DEF Got
        <5>3. CASE Got({"out", "index"})
          BY <2>1, <5>1, <5>3 DEF Got
        <5> QED BY <2>3, <5>2, <5>3
      <4> QED BY <2>3, <4>1 DEF OwnInv
    <3>2. AnswerInv'
      BY <1>1, <1>2, <1>3, <2>1, <2>3 DEF AnswerInv
    <3> QED BY <1>2, <2>3, <3>1, <3>2, GoOnInv
  <2> QED BY <1>9, <2>2, <2>3 DEF RunCodec
<1>10. CASE Failed
  <2>1. /\ Leave(Null, TRUE, {"view", "out", "index"}) /\ spoiled' \in BOOLEAN
        /\ held \in {{"view"}, {"view", "index"}} /\ ptr \subseteq held \cup {"seq"}
    BY <1>1, <1>10 DEF Failed, OwnInv, AnswerInv
  <2> QED BY <1>2, <2>1, LeaveInv
<1>11. CASE ReleaseView
  <2>1. AnswerInv' /\ epc' # "returned"
    BY <1>1, <1>2, <1>3, <1>11 DEF ReleaseView, AnswerInv
  <2>2. OwnInv'
    BY <1>1, <1>2, <1>3, <1>11 DEF ReleaseView, Unused, Dropped, Owned, OwnInv
  <2> QED BY <1>2, <2>1, <2>2, GoOnInv
<1>12. CASE MakeBytes
  <2>1. /\ epc = "bytes" /\ ~err /\ content \in Outputs /\ args.data.of # <<>>
        /\ held \subseteq Owned /\ ptr \cap Owned \subseteq held /\ "result" \notin ptr
        /\ UNCHANGED <<content, spoiled>> /\ spoiled \in BOOLEAN /\ held \subseteq ptr /\ ~twice
    BY <1>1, <1>12 DEF MakeBytes, OwnInv, AnswerInv
  <2>2. CASE ~Pair /\ Leave(content, FALSE, Owned)
    <3>1. content # Null /\ content \in Answers
      BY <2>1, OutputsExist DEF Answers
    <3> QED BY <1>2, <2>1, <2>2, <3>1, LeaveInv
  <2>3. CASE Leave(Null, TRUE, Owned)
    BY <1>2, <2>1, <2>3, LeaveInv
  <2>4. CASE /\ Pair /\ epc' = "list" /\ err' \in BOOLEAN /\ UNCHANGED twice
             /\ ptr' = IF err' THEN ptr ELSE ptr \cup {"result"}
             /\ held' = (held \ {"out"}) \cup (IF err' THEN {} ELSE {"result"})
    <3>1. Owned = {"out", "index"}
      BY <2>4 DEF Pair, Owned
    <3>2. OwnInv'
      BY <2>1, <2>4, <3>1 DEF OwnInv
    <3>3. AnswerInv'
      BY <1>2, <1>3, <2>1, <2>4 DEF AnswerInv
    <3> QED BY <1>2, <2>4, <3>2, <3>3, GoOnInv
  <2> QED BY <1>12, <2>2, <2>3, <2>4 DEF MakeBytes
<1>13. CASE MakeList
  <2>1. /\ epc = "list" /\ content \in Outputs /\ Pair /\ spoiled \in BOOLEAN
        /\ held \subseteq {"index", "result"} /\ ptr \cap {"index", "result"} \subseteq held
    BY <1>1, <1>13 DEF MakeList, OwnInv, AnswerInv
  <2>2. [content EXCEPT !.index = index] # Null
    BY <2>1, OutputsExist
  <2>3. CASE Leave(Null, TRUE, {"index", "result"}) /\ UNCHANGED spoiled
    BY <1>2, <2>1, <2>3, LeaveInv
  <2>4. CASE Leave([content EXCEPT !.index = index], FALSE, {"index", "result"}) /\ UNCHANGED spoiled
    BY <1>2, <2>1, <2>2, <2>4, LeaveInv
  <2>5. CASE spoiled' = TRUE /\ Leave([content EXCEPT !.index = index], TRUE, {"index", "result"})
    BY <1>2, <2>1, <2>2, <2>5, LeaveInv
  <2> QED BY <1>13, <2>3, <2>4, <2>5 DEF MakeList
<1> QED BY <1>4, <1>5, <1>6, <1>7, <1>8, <1>9, <1>10, <1>11, <1>12, <1>13 DEF PyStep

-----------------------------------------------------------------------------
\* A row and a column are told from the place of an entry in a matrix of n columns.
LEMMA RowAndColumn ==
  ASSUME NEW n \in Nat \ {0}, NEW r \in Nat, NEW q \in 0 .. n - 1
  PROVE  (r * n + q) \div n = r /\ (r * n + q) % n = q
<1> DEFINE a == r * n + q
           d == a \div n
           m == a % n
<1>1. a \in Nat /\ n \in Nat /\ n > 0
  OBVIOUS
<1>2. d \in Nat /\ m \in 0 .. n - 1
  BY <1>1
<1>3. a = n * d + m
  <2> HIDE DEF a
  <2> QED BY <1>1, SMTT(30)
<1>4. r * n + q = n * d + m
  BY <1>3
<1> HIDE DEF d, m
<1>5. d <= r
  <2> SUFFICES ASSUME d >= r + 1 PROVE FALSE
    BY <1>2
  <2>1. n * d >= n * (r + 1)
    BY <1>1, <1>2
  <2> QED BY <1>1, <1>2, <1>4, <2>1
<1>6. r <= d
  <2> SUFFICES ASSUME r >= d + 1 PROVE FALSE
    BY <1>2
  <2>1. n * r >= n * (d + 1)
    BY <1>1, <1>2
  <2> QED BY <1>1, <1>2, <1>4, <2>1
<1>7. d = r /\ m = q
  BY <1>1, <1>2, <1>4, <1>5, <1>6
<1> QED BY <1>7 DEF d, m

\* _byte_unshuffle undoes _byte_shuffle.
LEMMA UnshuffledShuffled ==
  ASSUME NEW t \in Nat \ {0}, NEW s \in Seq(Int), Len(s) % t = 0
  PROVE  Unshuffled(Shuffled(s, t), t) = s
<1> DEFINE n == Len(s) \div t
           Columns == Shuffled(s, t)
           Place(i) == ((i - 1) % t) * n + (i - 1) \div t + 1
<1>1. t \in Nat /\ t > 0 /\ Len(s) \in Nat
  OBVIOUS
<1>2. n \in Nat /\ Len(s) = t * n
  <2>1. Len(s) = t * (Len(s) \div t) + (Len(s) % t)
    <3> DEFINE l == Len(s)
    <3>1. l \in Nat
      OBVIOUS
    <3> HIDE DEF l
    <3>2. l = t * (l \div t) + (l % t)
      BY <1>1, <3>1, SMTT(30)
    <3> QED BY <3>2 DEF l
  <2> QED BY <1>1, <2>1
<1>3. DOMAIN Columns = 1 .. Len(s) /\ Len(Columns) = Len(s)
  BY <1>1 DEF Shuffled
<1>4. \A j \in 1 .. Len(s) : Columns[j] = s[((j - 1) % n) * t + (j - 1) \div n + 1]
  BY DEF Shuffled
<1>5. Unshuffled(Columns, t) = [i \in 1 .. Len(s) |-> Columns[Place(i)]]
  <2> HIDE DEF Columns
  <2> QED BY <1>3 DEF Unshuffled
<1>6. ASSUME NEW i \in 1 .. Len(s) PROVE Columns[Place(i)] = s[i]
  <2> DEFINE q == (i - 1) \div t
             r == (i - 1) % t
  <2>1. q \in Nat /\ r \in 0 .. t - 1 /\ i - 1 = t * q + r
    <3> DEFINE k == i - 1
    <3>1. k \in Nat /\ i = k + 1
      BY <1>1
    <3> HIDE DEF k
    <3>2. k \div t \in Nat /\ k % t \in 0 .. t - 1 /\ k = t * (k \div t) + (k % t)
      BY <1>1, <3>1, SMTT(30)
    <3> QED BY <3>1, <3>2 DEF k
  <2> HIDE DEF q, r, n
  <2>2. q < n
    <3> SUFFICES ASSUME q >= n PROVE FALSE
      BY <1>2, <2>1
    <3>1. t * q >= t * n
      BY <1>1, <1>2, <2>1
    <3>2. i <= Len(s) /\ i \in Nat
      BY <1>1
    <3> QED BY <1>1, <1>2, <2>1, <3>1, <3>2
  <2>3. n \in Nat \ {0} /\ q \in 0 .. n - 1 /\ r \in Nat
    BY <1>2, <2>1, <2>2
  <2>4. (r * n + q) \div n = r /\ (r * n + q) % n = q
    BY <2>3, RowAndColumn
  <2>5. Place(i) = r * n + q + 1
    BY DEF q, r
  <2>6. r * n + q + 1 \in 1 .. Len(s)
    <3>1. r * n + q < (r + 1) * n
      BY <2>1, <2>3
    <3>2. (r + 1) * n <= t * n
      <4>1. r + 1 <= t
        BY <1>1, <2>1
      <4> QED BY <1>1, <2>1, <2>3, <4>1
    <3>3. r * n \in Nat
      BY <2>3
    <3>4. r * n + q < t * n
      BY <1>1, <2>3, <3>1, <3>2, <3>3
    <3> DEFINE x == r * n
    <3> HIDE DEF x
    <3> QED BY <1>1, <1>2, <2>3, <3>3, <3>4 DEF x
  <2>7. Columns[r * n + q + 1] = s[q * t + r + 1]
    <3> DEFINE j == r * n + q + 1
    <3>1. j - 1 = r * n + q
      BY <2>3
    <3>2. j \in 1 .. Len(s)
      BY <2>6
    <3> HIDE DEF j
    <3>3. (j - 1) % n = q /\ (j - 1) \div n = r
      BY <2>4, <3>1
    <3>4. Columns[j] = s[((j - 1) % n) * t + (j - 1) \div n + 1]
      BY <1>4, <3>2
    <3> QED BY <3>3, <3>4 DEF j
  <2>8. q * t + r + 1 = i
    BY <1>1, <2>1
  <2> QED BY <2>5, <2>7, <2>8
<1>7. s = [i \in 1 .. Len(s) |-> s[i]]
  OBVIOUS
<1> HIDE DEF Columns, Place
<1> QED BY <1>5, <1>6, <1>7 DEF Columns

-----------------------------------------------------------------------------
(* The package *)

\* What is compressed of the array: its bytes, shuffled if the info says so.
Flat == IF Unshuffles THEN Shuffled(array.content, info.typesize) ELSE array.content

\* What the package and the extension know of each other at each place.
PackageInv ==
  /\ apc \in {"idle", "raw", "compressing", "kept", "restoring", "ended"}
  /\ apc # "ended" => restored = Nothing
  /\ apc \in {"compressing", "kept", "restoring"} =>
       /\ array \in Arrays /\ info.typesize = array.typesize /\ info.order = array.order
  /\ apc = "compressing" => args.data = Raw(Flat) /\ args.method = info.method /\ ~Pair
  /\ apc \in {"kept", "restoring"} /\ packed.form = "packed" => packed = PackedBy(info.method, Flat)
  /\ apc = "restoring" =>
       args.data = packed /\ args.method = info.method /\ ~Pair /\ CLevel = 0
  /\ ArrayComesBack

AInv == PyInv /\ PackageInv

LEMMA FlatRestored ==
  ASSUME array \in Arrays, info.typesize = array.typesize
  PROVE  (IF Unshuffles THEN Unshuffled(Flat, info.typesize) ELSE Flat) = array.content
<1>1. /\ array.typesize \in Nat \ {0} /\ array.content \in Seq(Int)
      /\ Len(array.content) % array.typesize = 0
  BY ArrayAssumption
<1>2. Unshuffled(Shuffled(array.content, array.typesize), array.typesize) = array.content
  BY <1>1, UnshuffledShuffled
<1> QED BY <1>2 DEF Flat

\* What a call answers to a document that was packed by its own method, or to none.
LEMMA AnswerRestores ==
  ASSUME NEW method, NEW of, args.data = PackedBy(method, of), args.method = method, CLevel = 0,
         NEW a \in Answers
  PROVE  a.of = of
<1>1. args.data.of = of /\ args.data.form = "packed" /\ args.data.by = method
  BY DEF PackedBy
<1>2. CASE of = <<>>
  <2>1. a = Raw(<<>>)
    BY <1>1, <1>2 DEF Answers
  <2>2. Raw(<<>>).of = <<>>
    BY DEF Raw
  <2> QED BY <1>2, <2>1, <2>2
<1>3. CASE of # <<>>
  <2>1. a = Raw(of)
    BY <1>1, <1>3 DEF Answers, Outputs
  <2> QED BY <2>1 DEF Raw
<1> QED BY <1>2, <1>3

\* What a call makes of the bytes of an array.
LEMMA AnswerPacks ==
  ASSUME NEW method, NEW of, args.data = Raw(of), args.method = method, NEW a \in Answers,
         a.form = "packed"
  PROVE  a = PackedBy(method, of)
<1>1. args.data.of = of /\ args.data.form # "packed"
  <2>1. Raw(of).of = of /\ Raw(of).form = "raw"
    BY DEF Raw
  <2> QED BY <2>1
<1>2. \A d : Raw(d).form # "packed"
  BY DEF Raw
<1> QED BY <1>1, <1>2 DEF Answers, Outputs

LEMMA ArrayInit == AInit => AInv
BY DEF AInit, PyIdle, AInv, PyInv, OwnInv, AnswerInv, ErrorOrResult, PackageInv, ArrayComesBack, Nothing

LEMMA ArrayStep == AInv /\ [ANext]_avars => AInv'
<1> SUFFICES ASSUME AInv, [ANext]_avars PROVE AInv'
  OBVIOUS
<1>1. PyInv /\ PackageInv
  BY DEF AInv
<1>2. CASE UNCHANGED pyVars /\ UNCHANGED arrayVars
  <2>1. PyInv'
    <3>1. UNCHANGED <<Owned, Outputs, Answers, Pair>>
      BY <1>2, ArgumentsStay DEF pyVars
    <3> QED BY <1>1, <1>2, <3>1 DEF PyInv, OwnInv, AnswerInv, ErrorOrResult, pyVars
  <2>2. PackageInv'
    <3>1. UNCHANGED <<CLevel, Pair, Flat>>
      BY <1>2, ArgumentsStay DEF pyVars, arrayVars, Flat, Unshuffles
    <3> QED BY <1>1, <1>2, <3>1 DEF PackageInv, ArrayComesBack, pyVars, arrayVars
  <2> QED BY <2>1, <2>2 DEF AInv
<1>3. CASE CallRaw
  <2>1. PyInv'
    BY <1>3, EnterInv DEF CallRaw
  <2>2. apc' = "raw" /\ restored' = Nothing
    BY <1>1, <1>3 DEF CallRaw, PackageInv
  <2>3. PackageInv'
    BY <2>2 DEF PackageInv, ArrayComesBack
  <2> QED BY <2>1, <2>3 DEF AInv
<1>4. CASE CompressArray
  <2>1. /\ apc' = "compressing" /\ restored' = Nothing /\ array' \in Arrays /\ shuffle' \in {0, 1}
        /\ \E fn \in {"compress", "zmat"}, method \in Methods, level \in Levels :
             /\ info' = [method |-> method, order |-> array'.order,
                         shuffle |-> IF Apply(method)' THEN shuffle' ELSE 0, typesize |-> array'.typesize]
             /\ LET flat == IF Apply(method)' THEN Shuffled(array'.content, array'.typesize)
                            ELSE array'.content
                IN  Enter(Arguments(fn, Raw(flat), method, level))
    BY <1>1, <1>4 DEF CompressArray, PackageInv
  <2>2. PICK fn \in {"compress", "zmat"}, method \in Methods, level \in Levels :
             /\ info' = [method |-> method, order |-> array'.order,
                         shuffle |-> IF Apply(method)' THEN shuffle' ELSE 0, typesize |-> array'.typesize]
             /\ LET flat == IF Apply(method)' THEN Shuffled(array'.content, array'.typesize)
                            ELSE array'.content
                IN  Enter(Arguments(fn, Raw(flat), method, level))
    BY <2>1
  <2>3. /\ info'.method = method /\ info'.typesize = array'.typesize /\ info'.order = array'.order
        /\ info'.shuffle = IF Apply(method)' THEN shuffle' ELSE 0
    BY <2>2
  <2>4. Unshuffles' <=> Apply(method)'
    BY <2>1, <2>3 DEF Unshuffles, Apply, UseShuffle
  <2>5. Enter(Arguments(fn, Raw(Flat'), method, level))
    BY <2>2, <2>3, <2>4 DEF Flat
  <2>6. args'.data = Raw(Flat)' /\ args'.method = info'.method /\ ~Pair'
    BY <2>3, <2>5 DEF Enter, Arguments, Pair, Raw
  <2>7. PackageInv'
    BY <2>1, <2>3, <2>6 DEF PackageInv, ArrayComesBack
  <2>8. PyInv'
    BY <2>5, EnterInv
  <2> QED BY <2>7, <2>8 DEF AInv
<1>5. CASE Compressed
  <2>1. /\ apc = "compressing" /\ epc = "returned" /\ packed' = answer
        /\ apc' = IF err THEN "ended" ELSE "kept"
        /\ UNCHANGED <<pyVars, array, shuffle, info, restored>>
    BY <1>5 DEF Compressed
  <2>2. PyInv'
    <3>1. UNCHANGED <<Owned, Outputs, Answers, Pair>>
      BY <2>1, ArgumentsStay DEF pyVars
    <3> QED BY <1>1, <2>1, <3>1 DEF PyInv, OwnInv, AnswerInv, ErrorOrResult, pyVars
  <2>3. UNCHANGED Flat
    BY <2>1 DEF Flat, Unshuffles
  <2>4. ~err /\ answer.form = "packed" => answer = PackedBy(info.method, Flat)
    <3>1. ~err => answer \in Answers
      BY <1>1, <2>1 DEF PyInv, AnswerInv, PackageInv
    <3> QED BY <1>1, <2>1, <3>1, AnswerPacks DEF PackageInv
  <2>5. PackageInv'
    BY <1>1, <2>1, <2>3, <2>4 DEF PackageInv, ArrayComesBack
  <2> QED BY <2>2, <2>5 DEF AInv
<1>6. CASE RestoreArray
  <2>1. PICK fn \in {"decompress", "zmat"} : Enter(Arguments(fn, packed, info.method, 0))
    BY <1>6 DEF RestoreArray
  <2>2. apc = "kept" /\ apc' = "restoring" /\ UNCHANGED <<array, shuffle, info, packed, restored>>
    BY <1>6 DEF RestoreArray
  <2>3. PyInv'
    BY <2>1, EnterInv
  <2>4. args' = Arguments(fn, packed, info.method, 0)
    BY <2>1 DEF Enter
  <2>5. args'.fn = fn /\ args'.level = 0 /\ args'.data = packed /\ args'.method = info.method
        /\ args'.pair = FALSE
    BY <2>4 DEF Arguments
  <2>6. CLevel' = 0 /\ ~Pair'
    BY <2>5 DEF CLevel, AsChar, Pair
  <2>7. UNCHANGED Flat
    BY <2>2 DEF Flat, Unshuffles
  <2>8. PackageInv'
    BY <1>1, <2>2, <2>5, <2>6, <2>7 DEF PackageInv, ArrayComesBack
  <2> QED BY <2>3, <2>8 DEF AInv
<1>7. CASE Restored
  <2> DEFINE raw == IF Unshuffles THEN Unshuffled(answer.of, info.typesize) ELSE answer.of
  <2>1. /\ apc = "restoring" /\ epc = "returned" /\ apc' = "ended"
        /\ \/ err /\ restored' = Raised
           \/ ~err /\ restored' = IF Len(raw) = Len(array.content)
                                    THEN [content |-> raw, order |-> info.order] ELSE Raised
           \/ ~err /\ restored' = Bytes(raw)
           \/ restored' = Raised
        /\ UNCHANGED <<pyVars, array, shuffle, info, packed>>
    BY <1>7 DEF Restored
  <2>2. PyInv'
    <3>1. UNCHANGED <<Owned, Outputs, Answers, Pair>>
      BY <2>1, ArgumentsStay DEF pyVars
    <3> QED BY <1>1, <2>1, <3>1 DEF PyInv, OwnInv, AnswerInv, ErrorOrResult, pyVars
  <2>3. ~err /\ packed.form = "packed" => raw = array.content
    <3> SUFFICES ASSUME ~err, packed.form = "packed" PROVE raw = array.content
      OBVIOUS
    <3>1. answer \in Answers
      BY <1>1, <2>1 DEF PyInv, AnswerInv, PackageInv
    <3>2. answer.of = Flat
      BY <1>1, <2>1, <3>1, AnswerRestores DEF PackageInv
    <3>3. (IF Unshuffles THEN Unshuffled(Flat, info.typesize) ELSE Flat) = array.content
      BY <1>1, <2>1, FlatRestored DEF PackageInv
    <3> QED BY <3>2, <3>3
  <2> HIDE DEF raw
  <2>4. ArrayComesBack'
    BY <1>1, <2>1, <2>3 DEF ArrayComesBack, PackageInv, Bytes
  <2>5. PackageInv'
    BY <2>1, <2>4 DEF PackageInv
  <2> QED BY <2>2, <2>5 DEF AInv
<1>8. CASE Answered
  <2>1. apc' = "ended" /\ restored' = Nothing /\ UNCHANGED pyVars
    BY <1>1, <1>8 DEF Answered, PackageInv
  <2>2. PyInv'
    <3>1. UNCHANGED <<Owned, Outputs, Answers, Pair>>
      BY <2>1, ArgumentsStay DEF pyVars
    <3> QED BY <1>1, <2>1, <3>1 DEF PyInv, OwnInv, AnswerInv, ErrorOrResult, pyVars
  <2>3. PackageInv'
    BY <2>1 DEF PackageInv, ArrayComesBack
  <2> QED BY <2>2, <2>3 DEF AInv
<1>9. CASE Extension
  <2>1. PyInv' /\ UNCHANGED args /\ UNCHANGED arrayVars
    BY <1>1, <1>9, PyStepInv DEF Extension, PyStep, Parse, CheckArguments, Sequence, Reserve, Convert, RunCodec, Failed, ReleaseView, MakeBytes, MakeList
  <2>2. UNCHANGED <<CLevel, Pair, Flat>>
    BY <2>1, ArgumentsStay DEF arrayVars, Flat, Unshuffles
  <2>3. PackageInv'
    BY <1>1, <2>1, <2>2 DEF PackageInv, ArrayComesBack, arrayVars
  <2> QED BY <2>1, <2>3 DEF AInv
<1> QED BY <1>2, <1>3, <1>4, <1>5, <1>6, <1>7, <1>8, <1>9 DEF ANext, Ended, avars

\* What the extension owns and what the package keeps, always.
THEOREM PackageInvariance == ASpec => []AInv
BY ArrayInit, ArrayStep, PTL DEF ASpec

\* pyzmat_zmat and its likes: however many of the interpreter's calls fail, all that a call
\* owns is released, and released once.
THEOREM PythonKeepsNothing == ASpec => []NothingKept
<1>1. AInv => NothingKept
  BY DEF AInv, PyInv, OwnInv, NothingKept
<1> QED BY <1>1, PackageInvariance, PTL

\* NULL goes with an exception and an object without, but for the list with a hole.
THEOREM PythonErrorOrResult == ASpec => []ErrorOrResult
<1>1. AInv => ErrorOrResult
  BY DEF AInv, PyInv
<1> QED BY <1>1, PackageInvariance, PTL

\* zmat/__init__.py: what is restored of an array is the array, for elements of any size.
THEOREM PythonArrayComesBack == ASpec => []ArrayComesBack
<1>1. AInv => ArrayComesBack
  BY DEF AInv, PackageInv
<1> QED BY <1>1, PackageInvariance, PTL
=============================================================================
