---------------------------- MODULE MtCoderProofs ----------------------------
(***************************************************************************)
(* Proofs about MtCoder, for any number of threads, sizes and failures.     *)
(*                                                                          *)
(* The inductive invariant is the conjunction of the named parts below,     *)
(* each of which needs those before it.  CountInv is who has finished and   *)
(* who has the turn; ReadInv is how far the document is read, from which it *)
(* follows that the places of the ring are never used a second time;        *)
(* PlaceInv is that the blocks in flight have places of their own, BufferInv *)
(* that they have buffers of their own; and OrderInv, for a call in which    *)
(* nothing failed, that they are what is left of the document.              *)
(***************************************************************************)
EXTENDS MtCoder, TLAPS, FiniteSetTheorems, SequenceTheorems

Results == {"ok", "error"}
BlockType == [at : Nat, len : Nat]
Labels == {"none", "start", "turn", "reserve", "take", "code", "publish", "write", "next",
           "release", "finish", "compare", "gone"}

LocalType == [res : Results, finished : BOOLEAN, src : BlockType, bi : Ring,
              bufIndex : Ring \cup {None}, wi : Ring, isReady : BOOLEAN, numFinished : Nat]
RecordType == [res : Results, bufIndex : Ring \cup {None}, finished : BOOLEAN]

TypeMain ==
  /\ inputsize \in Sizes /\ nthread \in Threads
  /\ main \in {"create", "first", "serial", "wait", "footer", "stop", "join", "done"}
  /\ tid \in Nat \ {0} /\ rc \in {"none"} \cup Results
  /\ progress \in Results /\ readRes \in Results /\ writeRes \in Results
  /\ finishedEvent \in BOOLEAN /\ ended \in BOOLEAN /\ faults \in Nat

TypeThreads ==
  /\ pc \in [Threads -> Labels] /\ start \in [Threads -> BOOLEAN] /\ stop \in [Threads -> BOOLEAN]
  /\ numStarted \in 0 .. nthread /\ numFinished \in Nat

TypeRead ==
  /\ turn \in BOOLEAN /\ stopReading \in BOOLEAN
  /\ readProcessed \in 0 .. inputsize /\ blockIndex \in Ring /\ sem \in Int

TypeMy == my \in [Threads -> LocalType]

TypeRing ==
  /\ freeList \in Seq(Ring) /\ writeIndex \in Ring \cup {None} /\ ready \in SUBSET Ring
  /\ blocks \in [Ring -> RecordType] /\ enc \in [Ring -> BlockType]

TypeOut == out \in Seq(BlockType) /\ index \in Seq(BlockType)

TypeOK == /\ TypeMain /\ TypeThreads /\ TypeRead /\ TypeMy /\ TypeRing /\ TypeOut

-----------------------------------------------------------------------------
(* Threads *)

\* The caller has not gone past its wait.
Live == main \in {"create", "first", "serial", "wait"}

\* A thread that has counted itself.
Counted(t) == pc[t] = "compare" \/ (pc[t] = "start" /\ ~start[t])

CountInv ==
  /\ Live /\ main # "wait" => /\ \A t \in Threads : pc[t] = "none" /\ ~start[t]
                              /\ numStarted = 0 /\ ~turn /\ ~finishedEvent
  /\ main = "wait" =>
       /\ numStarted >= 1 /\ \A t \in Threads : pc[t] # "none" <=> t <= numStarted
       /\ \A t \in Threads : pc[t] # "gone" /\ (start[t] => pc[t] = "start")
  /\ Live =>
       /\ \A t \in Threads : ~stop[t]
       /\ numFinished = Cardinality({t \in Threads : Counted(t)})
       /\ \A t \in Threads : pc[t] = "compare" => my[t].numFinished <= numFinished
       /\ finishedEvent => \A t \in Threads : t <= numStarted => Counted(t)

\* One thread has the turn, or it is there to take.
TurnInv ==
  \A t \in Threads : pc[t] = "reserve" =>
    /\ ~turn /\ ~stopReading
    /\ \A u \in Threads : pc[u] = "reserve" => u = t

QuietInv ==
  ~Live => \A t \in Threads : /\ pc[t] \in {"none", "start", "compare", "gone"}
                              /\ start[t] => stop[t]

-----------------------------------------------------------------------------
(* The document and the ring *)

\* The k-th block, from 0.
BlockAt(k) == [at |-> k * BlockSize, len |-> Min({BlockSize, inputsize - k * BlockSize})]

\* Until the end is seen every block read was whole, and is one place of the ring.
ReadInv ==
  Live /\ ~stopReading =>
    /\ sem >= NumBlocks - blockIndex
    /\ (\A t \in Threads : pc[t] # "reserve") => readProcessed = blockIndex * BlockSize
    /\ \A t \in Threads : pc[t] = "reserve" =>
         IF my[t].res = "ok"
           THEN /\ my[t].src = BlockAt(blockIndex)
                /\ readProcessed = blockIndex * BlockSize + my[t].src.len
                /\ my[t].finished = (my[t].src.len # BlockSize)
           ELSE my[t].finished /\ readProcessed = blockIndex * BlockSize

\* The threads with a block between its place in the ring and its place in the stream.
Coding(t) == pc[t] \in {"take", "code", "publish"}
Writing(t) == pc[t] \in {"write", "next"} \/ (pc[t] = "release" /\ my[t].isReady)
InFlight(t) == Coding(t) \/ Writing(t)
Place(t) == IF Coding(t) THEN my[t].bi ELSE my[t].wi

PlaceInv ==
  Live =>
    /\ \A t, u \in Threads : InFlight(t) /\ InFlight(u) /\ Place(t) = Place(u) => t = u
    /\ \A t \in Threads : InFlight(t) => Place(t) \notin ready
    /\ \A t, u \in Threads : Writing(t) /\ Writing(u) => t = u
    /\ \A t \in Threads : Writing(t) => writeIndex = None
    /\ writeIndex = None => \E t \in Threads : Writing(t)
    /\ writeIndex \notin ready
    /\ ~stopReading => /\ \A t \in Threads : InFlight(t) => Place(t) < blockIndex
                       /\ \A b \in ready : b < blockIndex

\* The output buffer of a thread's block.
Holds(t) == IF pc[t] \in {"code", "publish", "write", "next"} THEN my[t].bufIndex
            ELSE IF pc[t] = "release" /\ my[t].isReady THEN blocks[my[t].wi].bufIndex
            ELSE None

Free(x) == \E i \in 1 .. Len(freeList) : freeList[i] = x

BufferInv ==
  Live =>
    /\ \A t \in Threads : pc[t] \in {"reserve", "take"} => my[t].bufIndex = None
    /\ \A t, u \in Threads : Holds(t) = Holds(u) /\ Holds(t) # None => t = u
    /\ \A t \in Threads, b \in ready : Holds(t) = blocks[b].bufIndex => Holds(t) = None
    /\ \A b, c \in ready : blocks[b].bufIndex = blocks[c].bufIndex
                             => b = c \/ blocks[b].bufIndex = None
    /\ \A i, j \in 1 .. Len(freeList) : freeList[i] = freeList[j] => i = j
    /\ \A t \in Threads : ~Free(Holds(t))
    /\ \A b \in ready : ~Free(blocks[b].bufIndex)
    /\ \A x \in Ring : \/ Free(x)
                       \/ \E t \in Threads : Holds(t) = x
                       \/ \E b \in ready : blocks[b].bufIndex = x

-----------------------------------------------------------------------------
(* A call in which nothing fails *)

Clean == Live /\ faults = 0

\* What a thread has: a block that was coded well is in its buffer, and the last one has
\* stopped the reading.
Good(t) ==
  /\ my[t].res = "ok"
  /\ pc[t] \in {"take", "code"} => my[t].src = BlockAt(my[t].bi)
  /\ pc[t] # "reserve" /\ my[t].finished => stopReading
  /\ pc[t] \in {"finish", "compare"} \/ Counted(t) => stopReading
  /\ pc[t] = "code" => Holds(t) # None
  /\ pc[t] \in {"publish", "write"} \/ (pc[t] = "release" /\ my[t].isReady)
       => Holds(t) # None /\ enc[Holds(t)] = BlockAt(Place(t))
  /\ pc[t] = "release" /\ my[t].isReady =>
       blocks[my[t].wi].res = "ok" /\ (blocks[my[t].wi].finished => stopReading)

\* The same for a finished block that waits to be written.
GoodBlock(b) ==
  /\ blocks[b].res = "ok" /\ (blocks[b].finished => stopReading)
  /\ blocks[b].bufIndex # None /\ enc[blocks[b].bufIndex] = BlockAt(b)

ContentInv ==
  Clean => /\ progress = "ok" /\ readRes = "ok" /\ writeRes = "ok"
           /\ \A t \in Threads : Good(t)
           /\ \A b \in ready : GoodBlock(b)

\* The blocks of the document, and those that have a place by now.
NWhole == (inputsize + BlockSize - 1) \div BlockSize
High == IF stopReading /\ blockIndex = 0 THEN NumBlocks ELSE blockIndex

\* A block that is still to be written.
Pending(k) ==
  k \in ready \/ \E t \in Threads : InFlight(t) /\ pc[t] # "next" /\ Place(t) = k

\* The first low blocks are written, and the others that have a place are on their way.
Written(low) ==
  /\ \A k \in Int : Pending(k) <=> low <= k /\ k < High
  /\ index = out
  /\ Len(out) = IF low < NWhole THEN low ELSE NWhole
  /\ \A k \in 1 .. Len(out) : out[k] = BlockAt(k - 1)
  /\ writeIndex # None => writeIndex = IF low = NumBlocks THEN 0 ELSE low
  /\ \A t \in Threads : Writing(t) => Place(t) = IF pc[t] = "next" THEN low - 1 ELSE low

OrderInv ==
  Clean => /\ \E low \in 0 .. High : Written(low)
           /\ stopReading => NWhole <= High

-----------------------------------------------------------------------------
(* The answer *)

OutIsWhole ==
  /\ index = out
  /\ \/ out = Whole
     \/ nthread = 1 /\ out = Append(Whole, [at |-> inputsize, len |-> 0])

AnswerInv ==
  /\ main \in {"create", "first", "serial"} => faults = 0 /\ out = <<>> /\ index = <<>>
  /\ main \in {"first", "wait"} => nthread > 1
  /\ main = "serial" => nthread = 1
  /\ main = "wait" /\ faults > 0 => ~(readRes = "ok" /\ progress = "ok" /\ writeRes = "ok")
  /\ main = "footer" => faults = 0 /\ OutIsWhole
  /\ main \in {"stop", "join", "done"} =>
       IF faults > 0 THEN rc = "error" ELSE rc = "ok" /\ ended /\ OutIsWhole

IInv == /\ TypeOK /\ CountInv /\ TurnInv /\ QuietInv /\ ReadInv /\ PlaceInv /\ BufferInv
        /\ ContentInv /\ OrderInv /\ AnswerInv

-----------------------------------------------------------------------------
(* Sizes *)

LEMMA MaxOfTwo ==
  ASSUME NEW a \in Int, NEW b \in Int
  PROVE  Max({a, b}) \in {a, b} /\ Max({a, b}) >= a /\ Max({a, b}) >= b
<1>1. \E x \in {a, b} : \A y \in {a, b} : x >= y
  OBVIOUS
<1> QED BY <1>1 DEF Max

LEMMA MinOfTwo ==
  ASSUME NEW a \in Int, NEW b \in Int
  PROVE  Min({a, b}) = IF a <= b THEN a ELSE b
<1>1. \E x \in {a, b} : \A y \in {a, b} : x =< y
  OBVIOUS
<1> QED BY <1>1 DEF Min

\* What rounding up costs.
LEMMA DivUp ==
  ASSUME NEW a \in Nat, NEW n \in Nat \ {0}
  PROVE  /\ (a + n - 1) \div n \in Nat
         /\ n * ((a + n - 1) \div n) >= a
         /\ n * ((a + n - 1) \div n) < a + n
<1> DEFINE q == (a + n - 1) \div n
<1>1. q \in Nat /\ n * q <= a + n - 1 /\ a + n - 1 < n * q + n
  OBVIOUS
<1> QED BY <1>1

\* There are more places in the ring than threads, and no more whole blocks than threads.
LEMMA Sizing ==
  ASSUME inputsize \in Sizes, nthread \in Threads
  PROVE  /\ inputsize \in Nat \ {0} /\ nthread \in Nat \ {0}
         /\ BlockSize \in Nat \ {0} /\ NumBlocks \in Nat /\ NumBlocks > nthread
         /\ nthread * BlockSize >= inputsize
         /\ \A k \in Nat : k * BlockSize <= inputsize => k <= nthread
<1>1. inputsize \in Nat \ {0} /\ nthread \in Nat \ {0} /\ MinBlock \in Nat \ {0}
  BY MtCoderAssumption DEF Threads
<1> DEFINE share == (inputsize + nthread - 1) \div nthread
<1>2. share \in Nat /\ nthread * share >= inputsize
  BY <1>1, DivUp
<1>3. BlockSize \in Nat \ {0} /\ BlockSize >= share
  <2> HIDE DEF share
  <2>1. BlockSize = Max({share, MinBlock})
    BY DEF BlockSize, share
  <2>2. Max({share, MinBlock}) \in {share, MinBlock}
        /\ Max({share, MinBlock}) >= share /\ Max({share, MinBlock}) >= MinBlock
    BY <1>1, <1>2, MaxOfTwo
  <2> QED BY <1>1, <1>2, <2>1, <2>2
<1>4. nthread * BlockSize >= inputsize
  <2> HIDE DEF share
  <2>1. nthread * BlockSize >= nthread * share
    BY <1>1, <1>2, <1>3
  <2> QED BY <1>1, <1>2, <1>3, <2>1
<1>5. NumBlocks \in Nat /\ NumBlocks > nthread
  <2> DEFINE wide == {w \in Widths : BlockSize < w}
  <2>1. Cardinality(wide) \in Nat
    BY MtCoderAssumption, FS_Subset, FS_CardinalityType
  <2>2. nthread \div 8 \in Nat
    BY <1>1
  <2> QED BY <1>1, <2>1, <2>2 DEF NumBlocks
<1>6. \A k \in Nat : k * BlockSize <= inputsize => k <= nthread
  <2> SUFFICES ASSUME NEW k \in Nat, k > nthread PROVE k * BlockSize > inputsize
    BY <1>1, <1>3
  <2>1. k * BlockSize >= (nthread + 1) * BlockSize
    BY <1>1, <1>3
  <2>2. (nthread + 1) * BlockSize = nthread * BlockSize + BlockSize
    BY <1>1, <1>3
  <2> QED BY <1>1, <1>3, <1>4, <2>1, <2>2
<1> QED BY <1>1, <1>3, <1>4, <1>5, <1>6

\* The blocks of a whole document.
LEMMA WholeType ==
  ASSUME TypeOK
  PROVE  /\ Whole \in Seq(BlockType) /\ Len(Whole) = NWhole /\ NWhole \in Nat
         /\ \A k \in 1 .. NWhole : Whole[k] = BlockAt(k - 1)
         /\ [at |-> inputsize, len |-> 0] \in BlockType
<1>1. inputsize \in Nat \ {0} /\ BlockSize \in Nat \ {0}
  BY Sizing DEF TypeOK, TypeMain
<1>2. /\ NWhole \in Nat /\ BlockSize * NWhole < inputsize + BlockSize
  BY <1>1, DivUp DEF NWhole
<1>3. Whole = [k \in 1 .. NWhole |-> BlockAt(k - 1)]
  BY DEF Whole, NWhole, BlockAt
<1>4. ASSUME NEW k \in 1 .. NWhole PROVE BlockAt(k - 1) \in BlockType
  <2>1. (k - 1) * BlockSize \in Nat /\ (k - 1) * BlockSize < inputsize
    <3>1. k * BlockSize <= NWhole * BlockSize
      BY <1>1, <1>2, <1>4
    <3>2. (k - 1) * BlockSize = k * BlockSize - BlockSize /\ (k - 1) * BlockSize >= 0
      BY <1>1, <1>4
    <3>3. NWhole * BlockSize = BlockSize * NWhole
      BY <1>1, <1>2
    <3> QED BY <1>1, <1>2, <3>1, <3>2, <3>3
  <2> DEFINE at == (k - 1) * BlockSize
  <2>2. at \in Nat /\ at < inputsize
    BY <2>1
  <2>3. BlockAt(k - 1) = [at |-> at, len |-> Min({BlockSize, inputsize - at})]
    BY DEF BlockAt
  <2> HIDE DEF at
  <2>4. Min({BlockSize, inputsize - at}) \in Nat
    BY <1>1, <2>2, MinOfTwo
  <2> QED BY <2>2, <2>3, <2>4 DEF BlockType
<1>5. Whole \in Seq(BlockType) /\ Len(Whole) = NWhole
  BY <1>2, <1>3, <1>4, IsASeq
<1>6. [at |-> inputsize, len |-> 0] \in BlockType
  BY <1>1 DEF BlockType
<1> QED BY <1>2, <1>3, <1>5, <1>6

\* The document, the number of threads and all sizes stay as they are.
LEMMA SizesStay ==
  ASSUME [Next]_vars
  PROVE  /\ inputsize' = inputsize /\ nthread' = nthread
         /\ BlockSize' = BlockSize /\ NumBlocks' = NumBlocks /\ Ring' = Ring
         /\ NWhole' = NWhole /\ Whole' = Whole /\ \A k : BlockAt(k)' = BlockAt(k)
<1>1. inputsize' = inputsize /\ nthread' = nthread
  BY DEF Next, vars, constVars, Caller, Thread, Done, Open, Serial, First, Wait, WriteFooter, Stop,
         Join, Return, Begin, TurnOver, ReadBlock, HandOn, TakeBuffer, Code, Publish, Write,
         NextBlock, Release, Finish, Compare
<1>2. BlockSize' = BlockSize
  BY <1>1 DEF BlockSize
<1>3. NumBlocks' = NumBlocks
  BY <1>1, <1>2 DEF NumBlocks
<1>4. Ring' = Ring /\ NWhole' = NWhole /\ Whole' = Whole /\ \A k : BlockAt(k)' = BlockAt(k)
  BY <1>1, <1>2, <1>3 DEF Ring, NWhole, Whole, BlockAt
<1> QED BY <1>1, <1>2, <1>3, <1>4

-----------------------------------------------------------------------------
(* The inductive invariant *)

\* No thread has a block yet, and every buffer is free.
LEMMA InitInv == Init => IInv
<1> SUFFICES ASSUME Init PROVE IInv
  OBVIOUS
<1>2. NumBlocks \in Nat \ {0} /\ nthread \in Nat \ {0} /\ inputsize \in Nat \ {0}
  BY Sizing DEF Init
<1>1. TypeOK
  <2>1. 0 \in Ring
    BY <1>2 DEF Ring
  <2>2. freeList \in Seq(Ring)
    <3>1. [i \in 1 .. NumBlocks |-> i - 1] \in Seq(Ring)
      BY <1>2, IsASeq DEF Ring
    <3> QED BY <3>1 DEF Init
  <2>3. Fresh \in LocalType
    BY <2>1 DEF Fresh, LocalType, Results, BlockType, Empty
  <2>4. my \in [Threads -> LocalType]
    BY <2>3 DEF Init
  <2>5. blocks \in [Ring -> RecordType] /\ enc \in [Ring -> BlockType]
    BY DEF Init, RecordType, Results, BlockType, Empty
  <2>6. out \in Seq(BlockType) /\ index \in Seq(BlockType)
    BY DEF Init
  <2>7. /\ pc \in [Threads -> Labels] /\ start \in [Threads -> BOOLEAN]
        /\ stop \in [Threads -> BOOLEAN]
    BY DEF Init, Labels
  <2>8. /\ inputsize \in Sizes /\ nthread \in Threads /\ readProcessed \in 0 .. inputsize
        /\ blockIndex \in Ring /\ numStarted \in 0 .. nthread /\ numFinished \in Nat
        /\ sem \in Int /\ writeIndex \in Ring \cup {None} /\ ready \in SUBSET Ring
        /\ tid \in Nat \ {0} /\ faults \in Nat
    BY <1>2, <2>1 DEF Init
  <2>9. /\ main = "create" /\ rc = "none" /\ turn = FALSE /\ stopReading = FALSE
        /\ progress = "ok" /\ readRes = "ok" /\ writeRes = "ok" /\ finishedEvent = FALSE
        /\ ended = FALSE
    BY DEF Init
  <2> QED BY <2>2, <2>4, <2>5, <2>6, <2>7, <2>8, <2>9
       DEF TypeOK, TypeMain, TypeThreads, TypeRead, TypeMy, TypeRing, TypeOut, Results
<1>3. CountInv
  <2>1. {t \in Threads : Counted(t)} = {}
    BY DEF Init, Counted
  <2> QED BY <2>1, FS_EmptySet DEF Init, CountInv, Live
<1>4. TurnInv /\ QuietInv
  BY DEF Init, TurnInv, QuietInv, Live
<1>5. ReadInv
  BY <1>1, <1>2, Sizing DEF Init, ReadInv, TypeOK, TypeMain
<1>6. PlaceInv
  BY <1>2 DEF Init, PlaceInv, InFlight, Coding, Writing, None
<1>7. BufferInv
  <2>1. freeList = [i \in 1 .. NumBlocks |-> i - 1] /\ Len(freeList) = NumBlocks
    BY <1>2 DEF Init
  <2>2. \A x \in Ring : Free(x)
    <3> TAKE x \in Ring
    <3>1. x + 1 \in 1 .. Len(freeList) /\ freeList[x + 1] = x
      BY <1>2, <2>1 DEF Ring
    <3> QED BY <3>1 DEF Free
  <2>3. ~Free(None)
    BY <1>2, <2>1 DEF Free, None
  <2>4. \A t \in Threads : Holds(t) = None
    BY DEF Init, Holds
  <2> QED BY <1>2, <2>1, <2>2, <2>3, <2>4 DEF Init, BufferInv
<1>8. ContentInv /\ AnswerInv
  BY DEF Init, ContentInv, AnswerInv, Good, Counted, Fresh
<1>9. OrderInv
  <2>1. Written(0)
    <3>1. High = 0 /\ NWhole \in Nat
      BY <1>1, WholeType DEF Init, High
    <3>2. \A k \in Int : ~Pending(k)
      BY DEF Init, Pending, InFlight, Coding, Writing
    <3> QED BY <1>2, <3>1, <3>2 DEF Init, Written, Writing, None
  <2>2. 0 \in 0 .. High /\ ~stopReading
    BY DEF Init, High
  <2> QED BY <2>1, <2>2 DEF OrderInv
<1> QED BY <1>1, <1>3, <1>4, <1>5, <1>6, <1>7, <1>8, <1>9 DEF IInv

\* When a buffer is taken one is free: the others cannot all be in use, as the block that is
\* to have this one has a place of its own.
LEMMA BufferThere ==
  ASSUME TypeOK, PlaceInv, BufferInv, Live, NEW t \in Threads, pc[t] = "take"
  PROVE  freeList # <<>>
<1> SUFFICES ASSUME freeList = <<>> PROVE FALSE
  OBVIOUS
<1> DEFINE Has(p, x) == \/ p \in ready /\ blocks[p].bufIndex = x
                        \/ \E u \in Threads : InFlight(u) /\ Place(u) = p /\ Holds(u) = x
           Others == Ring \ {my[t].bi}
           f == [x \in Ring |-> CHOOSE p \in Others : Has(p, x)]
<1>1. my[t].bi \in Ring /\ InFlight(t) /\ Place(t) = my[t].bi /\ Holds(t) = None
  BY DEF BufferInv, TypeOK, TypeMy, LocalType, InFlight, Coding, Place, Holds
<1>2. ASSUME NEW x \in Ring PROVE \E p \in Others : Has(p, x)
  <2>1. ~Free(x) /\ x # None
    BY Sizing DEF Free, Ring, None, TypeOK, TypeMain
  <2>2. CASE \E u \in Threads : Holds(u) = x
    <3>1. PICK u \in Threads : Holds(u) = x
      BY <2>2
    <3>2. InFlight(u) /\ Place(u) \in Ring
      BY <2>1, <3>1 DEF Holds, InFlight, Coding, Writing, Place, TypeOK, TypeMy, LocalType
    <3>3. Place(u) # my[t].bi
      BY <1>1, <2>1, <3>1, <3>2 DEF PlaceInv
    <3> QED BY <3>1, <3>2, <3>3
  <2>3. CASE \E b \in ready : blocks[b].bufIndex = x
    BY <1>1, <2>3 DEF PlaceInv, TypeOK, TypeRing
  <2> QED BY <2>1, <2>2, <2>3 DEF BufferInv
<1>3. ASSUME NEW p, NEW x, NEW y, Has(p, x), Has(p, y) PROVE x = y
  BY <1>3 DEF PlaceInv
<1>4. f \in [Ring -> Others] /\ \A x \in Ring : Has(f[x], x)
  <2> HIDE DEF Has, Others
  <2> QED BY <1>2
<1>5. IsFiniteSet(Ring) /\ Cardinality(Ring) \in Nat
  <2>1. NumBlocks - 1 \in Int
    BY Sizing DEF TypeOK, TypeMain
  <2>2. IsFiniteSet(Ring)
    BY <2>1, FS_Interval DEF Ring
  <2> QED BY <2>2, FS_CardinalityType
<1>6. IsFiniteSet(Others) /\ Cardinality(Others) < Cardinality(Ring)
  BY <1>1, <1>5, FS_RemoveElement
<1>7. \E x, y \in Ring : x # y /\ f[x] = f[y]
  <2> HIDE DEF f, Others, Has
  <2> QED BY <1>4, <1>5, <1>6, FS_PigeonHole
<1> QED
  <2> HIDE DEF f, Others, Has
  <2> QED BY <1>3, <1>4, <1>7

-----------------------------------------------------------------------------
(* Types *)

\* The places of the ring, and the block that is read next.
LEMMA RingAndRead ==
  ASSUME TypeOK
  PROVE  /\ 0 \in Ring /\ Ring \subseteq Nat /\ None \notin Ring
         /\ \A i \in Ring : After(i) \in Ring
         /\ \A i \in Ring : i + 1 < NumBlocks => After(i) = i + 1
         /\ \A i \in Ring : i + 1 = NumBlocks => After(i) = 0
         /\ Fresh \in LocalType
         /\ Read \in BlockType /\ readProcessed + Read.len \in 0 .. inputsize
         /\ Read.len <= BlockSize
<1>1. /\ NumBlocks \in Nat \ {0} /\ BlockSize \in Nat \ {0} /\ inputsize \in Nat \ {0}
      /\ readProcessed \in 0 .. inputsize
  BY Sizing DEF TypeOK, TypeMain, TypeRead
<1>2. 0 \in Ring /\ Ring \subseteq Nat /\ None \notin Ring
  BY <1>1 DEF Ring, None
<1>3. /\ \A i \in Ring : After(i) \in Ring
      /\ \A i \in Ring : i + 1 < NumBlocks => After(i) = i + 1
      /\ \A i \in Ring : i + 1 = NumBlocks => After(i) = 0
  BY <1>1 DEF After, Ring
<1>4. Fresh \in LocalType
  BY <1>2 DEF Fresh, LocalType, Results, BlockType, Empty
<1>5. Min({BlockSize, inputsize - readProcessed}) =
        IF BlockSize <= inputsize - readProcessed THEN BlockSize ELSE inputsize - readProcessed
  BY <1>1, MinOfTwo
<1>6. /\ Read \in BlockType /\ readProcessed + Read.len \in 0 .. inputsize
      /\ Read.len <= BlockSize
  BY <1>1, <1>5 DEF Read, BlockType
<1> QED BY <1>2, <1>3, <1>4, <1>6

\* What handing on leaves the thread with, and whether it creates another.
LEMMA HandOnDoes ==
  ASSUME TypeOK, NEW t \in Threads, HandOn(t)
  PROVE  /\ pc[t] = "reserve" /\ sem > 0 /\ sem' = sem - 1
         /\ blockIndex' = After(blockIndex) /\ turn' = TRUE
         /\ UNCHANGED <<constVars, mainVars, stop, readProcessed, readRes, csVars, blocks, enc,
                        writeRes, endVars, streamVars>>
         /\ my' \in [Threads -> LocalType] /\ \A u \in Threads \ {t} : my'[u] = my[u]
         /\ my'[t].bi = blockIndex /\ my'[t].src = my[t].src
         /\ my'[t].bufIndex = my[t].bufIndex
         /\ \/ my'[t].res = my[t].res /\ my'[t].finished = my[t].finished
            \/ my'[t].res = "error" /\ my'[t].finished = TRUE
         /\ stopReading' = my'[t].finished
         /\ faults' \in Nat /\ faults' >= faults /\ progress' \in Results
         /\ faults' = faults => progress' = progress
         /\ faults' # faults => progress' = "error"
         /\ progress' = "ok" => my'[t].res = my[t].res
         /\ \/ /\ pc' = [pc EXCEPT ![t] = IF my'[t].res = "ok" THEN "take" ELSE "publish"]
               /\ UNCHANGED <<start, numStarted>>
            \/ /\ pc' = [pc EXCEPT ![t] = "take", ![numStarted + 1] = "start"]
               /\ start' = [start EXCEPT ![numStarted + 1] = TRUE]
               /\ numStarted' = numStarted + 1 /\ numStarted < nthread
               /\ my'[t].finished = FALSE
<1> DEFINE bad == [my[t] EXCEPT !.bi = blockIndex, !.res = "error", !.finished = TRUE]
           good == [my[t] EXCEPT !.bi = blockIndex]
           r == IF progress = "ok" THEN good ELSE bad
<1>1. my[t] \in LocalType /\ blockIndex \in Ring /\ progress \in Results /\ faults \in Nat
  BY DEF TypeOK, TypeMy, TypeMain, TypeRead
<1>2. /\ bad \in LocalType /\ bad.bi = blockIndex /\ bad.src = my[t].src
      /\ bad.bufIndex = my[t].bufIndex /\ bad.res = "error" /\ bad.finished = TRUE
  BY <1>1 DEF LocalType, Results
<1>3. /\ good \in LocalType /\ good.bi = blockIndex /\ good.src = my[t].src
      /\ good.bufIndex = my[t].bufIndex /\ good.res = my[t].res
      /\ good.finished = my[t].finished
  BY <1>1 DEF LocalType, Results
<1>4. /\ pc[t] = "reserve" /\ sem > 0 /\ sem' = sem - 1
      /\ blockIndex' = After(blockIndex) /\ turn' = TRUE
      /\ UNCHANGED <<constVars, mainVars, stop, readProcessed, readRes, csVars, blocks, enc,
                     writeRes, endVars, streamVars>>
  BY DEF HandOn
<1>5. \/ /\ my' = [my EXCEPT ![t] = r] /\ stopReading' = r.finished
         /\ pc' = [pc EXCEPT ![t] = IF r.res = "ok" THEN "take" ELSE "publish"]
         /\ UNCHANGED <<start, numStarted, progress, faults>>
      \/ /\ my' = [my EXCEPT ![t] = r] /\ stopReading' = r.finished
         /\ pc' = [pc EXCEPT ![t] = "take", ![numStarted + 1] = "start"]
         /\ start' = [start EXCEPT ![numStarted + 1] = TRUE]
         /\ numStarted' = numStarted + 1 /\ numStarted < nthread /\ ~r.finished
         /\ UNCHANGED <<progress, faults>>
      \/ /\ my' = [my EXCEPT ![t] = bad] /\ stopReading' = TRUE /\ progress' = "error"
         /\ pc' = [pc EXCEPT ![t] = "publish"] /\ UNCHANGED <<start, numStarted>>
         /\ faults' = faults + 1
  BY DEF HandOn, SetMy, Goto, Works, Fails, NeedsThread
<1>6. r \in {good, bad} /\ (progress = "ok" => r = good) /\ r.finished \in BOOLEAN
  BY <1>2, <1>3 DEF LocalType
<1> HIDE DEF good, bad, r
<1>7. \/ my' = [my EXCEPT ![t] = good] \/ my' = [my EXCEPT ![t] = bad]
  BY <1>5, <1>6
<1>8. /\ my' \in [Threads -> LocalType] /\ \A u \in Threads \ {t} : my'[u] = my[u]
      /\ my'[t] \in {good, bad}
  BY <1>2, <1>3, <1>7 DEF TypeOK, TypeMy
<1>9. CASE /\ my' = [my EXCEPT ![t] = r] /\ stopReading' = r.finished
           /\ UNCHANGED <<progress, faults>>
  <2>1. my'[t] = r
    BY <1>9 DEF TypeOK, TypeMy
  <2> QED BY <1>1, <1>2, <1>3, <1>4, <1>5, <1>6, <1>8, <1>9, <2>1
<1>10. CASE /\ my' = [my EXCEPT ![t] = bad] /\ stopReading' = TRUE /\ progress' = "error"
            /\ pc' = [pc EXCEPT ![t] = "publish"] /\ UNCHANGED <<start, numStarted>>
            /\ faults' = faults + 1
  <2>1. my'[t] = bad
    BY <1>10 DEF TypeOK, TypeMy
  <2>2. my'[t].res = "error" /\ my'[t].finished = TRUE
    BY <1>2, <2>1
  <2>3. pc' = [pc EXCEPT ![t] = IF my'[t].res = "ok" THEN "take" ELSE "publish"]
    BY <1>10, <2>2
  <2>4. faults' \in Nat /\ faults' >= faults /\ faults' # faults /\ progress' \in Results
    BY <1>1, <1>10 DEF Results
  <2> QED BY <1>2, <1>4, <1>8, <1>10, <2>1, <2>2, <2>3, <2>4
<1> QED BY <1>5, <1>9, <1>10

\* What the other steps of a thread leave it with.
LEMMA ReadBlockDoes ==
  ASSUME TypeOK, NEW t \in Threads, ReadBlock(t)
  PROVE  /\ my' \in [Threads -> LocalType] /\ \A u \in Threads \ {t} : my'[u] = my[u]
         /\ my'[t].bufIndex = None /\ progress' \in Results /\ readRes' \in Results
         /\ faults' \in Nat /\ faults' >= faults
         /\ \/ /\ my'[t].res = "ok" /\ my'[t].src = Read
               /\ my'[t].finished = (Read.len # BlockSize)
               /\ readProcessed' = readProcessed + Read.len
               /\ progress = "ok" /\ UNCHANGED <<progress, readRes, faults>>
            \/ /\ my'[t].res = "error" /\ my'[t].finished = TRUE
               /\ readProcessed' = readProcessed /\ progress' = "error"
               /\ faults = 0 => progress = "error" \/ (faults' # 0 /\ readRes' = "error")
<1> DEFINE good == [Fresh EXCEPT !.src = Read, !.finished = Read.len # BlockSize]
           bad == [Fresh EXCEPT !.res = "error", !.finished = TRUE]
<1>1. Fresh \in LocalType /\ Read \in BlockType /\ faults \in Nat
  BY RingAndRead DEF TypeOK, TypeMain
<1>2. /\ good \in LocalType /\ good.bufIndex = None /\ good.res = "ok" /\ good.src = Read
      /\ good.finished = (Read.len # BlockSize)
  BY <1>1 DEF LocalType, Fresh
<1>3. /\ bad \in LocalType /\ bad.bufIndex = None /\ bad.res = "error" /\ bad.finished = TRUE
  BY <1>1 DEF LocalType, Fresh, Results
<1>4. \/ /\ my' = [my EXCEPT ![t] = good] /\ readProcessed' = readProcessed + Read.len
         /\ progress = "ok" /\ UNCHANGED <<progress, readRes, faults>>
      \/ /\ my' = [my EXCEPT ![t] = bad] /\ readProcessed' = readProcessed
         /\ readRes' = "error" /\ progress' = "error" /\ faults' = faults + 1
      \/ /\ my' = [my EXCEPT ![t] = bad] /\ readProcessed' = readProcessed
         /\ progress # "ok" /\ UNCHANGED <<progress, readRes, faults>>
  BY DEF ReadBlock, SetMy, Works, Fails
<1> HIDE DEF good, bad
<1>5. progress \in Results /\ readRes \in Results /\ my \in [Threads -> LocalType]
  BY DEF TypeOK, TypeMain, TypeMy
<1> QED BY <1>1, <1>2, <1>3, <1>4, <1>5 DEF Results

LEMMA TakeBufferDoes ==
  ASSUME TypeOK, NEW t \in Threads, TakeBuffer(t), freeList # <<>>
  PROVE  /\ my' \in [Threads -> LocalType] /\ \A u \in Threads \ {t} : my'[u] = my[u]
         /\ my'[t].bufIndex = freeList[1] /\ freeList[1] \in Ring
         /\ my'[t].res = my[t].res /\ my'[t].finished = my[t].finished
         /\ my'[t].src = my[t].src /\ my'[t].bi = my[t].bi
         /\ freeList' \in Seq(Ring) /\ Len(freeList') = Len(freeList) - 1
         /\ \A i \in 1 .. Len(freeList') : freeList'[i] = freeList[i + 1]
<1>1. freeList \in Seq(Ring) /\ my \in [Threads -> LocalType]
  BY DEF TypeOK, TypeRing, TypeMy
<1>2. /\ freeList[1] \in Ring /\ freeList' \in Seq(Ring) /\ Len(freeList') = Len(freeList) - 1
      /\ \A i \in 1 .. Len(freeList') : freeList'[i] = freeList[i + 1]
  BY <1>1 DEF TakeBuffer
<1> DEFINE r == [my[t] EXCEPT !.bufIndex = freeList[1]]
<1>3. /\ r \in LocalType /\ r.bufIndex = freeList[1] /\ r.res = my[t].res /\ r.src = my[t].src
      /\ r.finished = my[t].finished /\ r.bi = my[t].bi
  BY <1>1, <1>2 DEF LocalType
<1>4. my' = [my EXCEPT ![t] = r]
  BY DEF TakeBuffer, SetMy
<1> HIDE DEF r
<1> QED BY <1>1, <1>2, <1>3, <1>4

LEMMA CodeDoes ==
  ASSUME TypeOK, NEW t \in Threads, Code(t)
  PROVE  /\ my' \in [Threads -> LocalType] /\ \A u \in Threads \ {t} : my'[u] = my[u]
         /\ my'[t].bufIndex = my[t].bufIndex /\ my'[t].finished = my[t].finished
         /\ my'[t].bi = my[t].bi /\ my'[t].wi = my[t].wi
         /\ enc' \in [Ring -> BlockType] /\ progress' \in Results
         /\ faults' \in Nat /\ faults' >= faults
         /\ \/ /\ enc' = [enc EXCEPT ![my[t].bufIndex] = my[t].src]
               /\ my'[t].res = my[t].res /\ UNCHANGED <<progress, faults>>
            \/ progress' = "error" /\ faults' # faults
<1> DEFINE r == [my[t] EXCEPT !.res = "error"]
<1>1. /\ my \in [Threads -> LocalType] /\ faults \in Nat /\ enc \in [Ring -> BlockType]
      /\ progress \in Results
  BY DEF TypeOK, TypeMy, TypeMain, TypeRing
<1>2. /\ r \in LocalType /\ r.bufIndex = my[t].bufIndex /\ r.finished = my[t].finished
      /\ r.bi = my[t].bi /\ r.wi = my[t].wi
  BY <1>1 DEF LocalType, Results
<1>3. my[t].src \in BlockType /\ Empty \in BlockType
  BY <1>1 DEF LocalType, Empty, BlockType
<1>4. \/ /\ enc' = [enc EXCEPT ![my[t].bufIndex] = my[t].src]
         /\ UNCHANGED <<my, progress, faults>>
      \/ /\ enc' = [enc EXCEPT ![my[t].bufIndex] = Empty]
         /\ my' = [my EXCEPT ![t] = r] /\ progress' = "error" /\ faults' = faults + 1
  BY DEF Code, SetMy, Works, Fails
<1> HIDE DEF r
<1> QED BY <1>1, <1>2, <1>3, <1>4 DEF Results

LEMMA PublishDoes ==
  ASSUME TypeOK, NEW t \in Threads, Publish(t)
  PROVE  /\ my' \in [Threads -> LocalType] /\ \A u \in Threads \ {t} : my'[u] = my[u]
         /\ blocks' \in [Ring -> RecordType]
         /\ \A b \in Ring \ {my[t].bi} : blocks'[b] = blocks[b]
         /\ blocks'[my[t].bi].res = my[t].res /\ blocks'[my[t].bi].bufIndex = my[t].bufIndex
         /\ blocks'[my[t].bi].finished = my[t].finished
         /\ \/ /\ writeIndex = my[t].bi /\ writeIndex' = None /\ ready' = ready
               /\ my'[t].wi = my[t].bi /\ my'[t].bufIndex = my[t].bufIndex
               /\ my'[t].res = (IF writeRes # "ok" THEN writeRes ELSE my[t].res)
               /\ my'[t].finished = my[t].finished
               /\ pc' = [pc EXCEPT ![t] = "write"]
            \/ /\ writeIndex # my[t].bi /\ writeIndex' = writeIndex
               /\ ready' = ready \cup {my[t].bi}
               /\ my'[t] = Fresh /\ pc' = [pc EXCEPT ![t] = OnWith(my[t])]
<1> DEFINE r == [my[t] EXCEPT !.wi = my[t].bi, !.res = IF writeRes # "ok" THEN writeRes ELSE @]
           b == [res |-> my[t].res, bufIndex |-> my[t].bufIndex, finished |-> my[t].finished]
<1>1. /\ my \in [Threads -> LocalType] /\ blocks \in [Ring -> RecordType] /\ writeRes \in Results
      /\ Fresh \in LocalType
  BY RingAndRead DEF TypeOK, TypeMy, TypeMain, TypeRing
<1>2. /\ r \in LocalType /\ r.wi = my[t].bi /\ r.bufIndex = my[t].bufIndex
      /\ r.res = (IF writeRes # "ok" THEN writeRes ELSE my[t].res)
      /\ r.finished = my[t].finished /\ my[t].bi \in Ring
  BY <1>1 DEF LocalType
<1>3. /\ b \in RecordType /\ b.res = my[t].res /\ b.bufIndex = my[t].bufIndex
      /\ b.finished = my[t].finished
  BY <1>1 DEF LocalType, RecordType
<1>4. /\ blocks' = [blocks EXCEPT ![my[t].bi] = b]
      /\ \/ /\ writeIndex = my[t].bi /\ writeIndex' = None /\ ready' = ready
            /\ my' = [my EXCEPT ![t] = r] /\ pc' = [pc EXCEPT ![t] = "write"]
         \/ /\ writeIndex # my[t].bi /\ writeIndex' = writeIndex
            /\ ready' = ready \cup {my[t].bi}
            /\ my' = [my EXCEPT ![t] = Fresh] /\ pc' = [pc EXCEPT ![t] = OnWith(my[t])]
  BY DEF Publish, SetMy, Goto
<1> HIDE DEF r, b
<1>5. /\ blocks' \in [Ring -> RecordType] /\ blocks'[my[t].bi] = b
      /\ \A c \in Ring \ {my[t].bi} : blocks'[c] = blocks[c]
  BY <1>1, <1>2, <1>3, <1>4
<1> QED BY <1>1, <1>2, <1>3, <1>4, <1>5

LEMMA WriteDoes ==
  ASSUME TypeOK, NEW t \in Threads, Write(t)
  PROVE  /\ my' \in [Threads -> LocalType] /\ \A u \in Threads \ {t} : my'[u] = my[u]
         /\ my'[t].bufIndex = my[t].bufIndex /\ my'[t].wi = my[t].wi
         /\ my'[t].finished = my[t].finished
         /\ progress' \in Results /\ writeRes' \in Results /\ faults' \in Nat /\ faults' >= faults
         /\ faults' = faults => my'[t].res = my[t].res /\ UNCHANGED <<progress, writeRes>>
         /\ faults' # faults => progress' = "error" /\ writeRes' = "error"
<1> DEFINE r == [my[t] EXCEPT !.res = "error"]
<1>1. /\ my \in [Threads -> LocalType] /\ progress \in Results /\ writeRes \in Results
      /\ faults \in Nat
  BY DEF TypeOK, TypeMy, TypeMain
<1>2. /\ r \in LocalType /\ r.bufIndex = my[t].bufIndex /\ r.wi = my[t].wi
      /\ r.finished = my[t].finished
  BY <1>1 DEF LocalType, Results
<1>3. \/ UNCHANGED <<my, progress, writeRes, faults>>
      \/ /\ my' = [my EXCEPT ![t] = r] /\ progress' = "error" /\ writeRes' = "error"
         /\ faults' = faults + 1
  BY DEF Write, SetMy, Works, Fails
<1> HIDE DEF r
<1> QED BY <1>1, <1>2, <1>3 DEF Results

LEMMA NextBlockDoes ==
  ASSUME TypeOK, NEW t \in Threads, NextBlock(t)
  PROVE  /\ my' \in [Threads -> LocalType] /\ \A u \in Threads \ {t} : my'[u] = my[u]
         /\ my'[t].wi = After(my[t].wi) /\ After(my[t].wi) \in Ring
         /\ my'[t].isReady = (After(my[t].wi) \in ready)
         /\ my'[t].bufIndex = my[t].bufIndex /\ my'[t].res = my[t].res
         /\ my'[t].finished = my[t].finished /\ freeList' \in Seq(Ring)
         /\ \/ my[t].bufIndex = None /\ freeList' = freeList
            \/ /\ my[t].bufIndex \in Ring /\ Len(freeList') = Len(freeList) + 1
               /\ freeList'[1] = my[t].bufIndex
               /\ \A i \in 1 .. Len(freeList) : freeList'[i + 1] = freeList[i]
<1> DEFINE wi == After(my[t].wi)
           isReady == wi \in ready
           r == [my[t] EXCEPT !.wi = wi, !.isReady = isReady]
<1>1. my \in [Threads -> LocalType] /\ freeList \in Seq(Ring)
  BY DEF TypeOK, TypeMy, TypeRing
<1>2. wi \in Ring /\ my[t].bufIndex \in Ring \cup {None}
  BY <1>1, RingAndRead DEF LocalType
<1>3. /\ r \in LocalType /\ r.wi = wi /\ r.isReady = isReady
      /\ r.bufIndex = my[t].bufIndex /\ r.res = my[t].res /\ r.finished = my[t].finished
  <2>1. isReady \in BOOLEAN
    OBVIOUS
  <2> HIDE DEF wi, isReady
  <2> QED BY <1>1, <1>2, <2>1 DEF LocalType
<1>4. /\ my' = [my EXCEPT ![t] = r]
      /\ freeList' = IF my[t].bufIndex = None THEN freeList ELSE <<my[t].bufIndex>> \o freeList
  BY DEF NextBlock, SetMy
<1> HIDE DEF r
<1>5. CASE my[t].bufIndex = None
  BY <1>1, <1>2, <1>3, <1>4, <1>5
<1>6. CASE my[t].bufIndex # None
  <2>1. my[t].bufIndex \in Ring /\ freeList' = <<my[t].bufIndex>> \o freeList
    BY <1>2, <1>4, <1>6
  <2>2. /\ freeList' \in Seq(Ring) /\ Len(freeList') = Len(freeList) + 1
        /\ freeList'[1] = my[t].bufIndex
        /\ \A i \in 1 .. Len(freeList) : freeList'[i + 1] = freeList[i]
    BY <1>1, <2>1
  <2> QED BY <1>1, <1>2, <1>3, <1>4, <2>1, <2>2
<1> QED BY <1>5, <1>6

LEMMA ReleaseDoes ==
  ASSUME TypeOK, NEW t \in Threads, Release(t)
  PROVE  /\ my' \in [Threads -> LocalType] /\ \A u \in Threads \ {t} : my'[u] = my[u]
         /\ \/ /\ my[t].isReady /\ pc' = [pc EXCEPT ![t] = "write"]
               /\ my'[t].wi = my[t].wi /\ my[t].wi \in Ring
               /\ my'[t].bufIndex = blocks[my[t].wi].bufIndex
               /\ my'[t].finished = blocks[my[t].wi].finished
               /\ my'[t].res = IF my[t].res = "ok" THEN blocks[my[t].wi].res ELSE my[t].res
            \/ /\ ~my[t].isReady /\ pc' = [pc EXCEPT ![t] = OnWith(my[t])]
               /\ my'[t] = Fresh
<1> DEFINE b == blocks[my[t].wi]
           r == [my[t] EXCEPT !.res = IF @ = "ok" THEN b.res ELSE @,
                              !.bufIndex = b.bufIndex, !.finished = b.finished]
<1>1. my \in [Threads -> LocalType] /\ blocks \in [Ring -> RecordType] /\ Fresh \in LocalType
  BY RingAndRead DEF TypeOK, TypeMy, TypeRing
<1>2. my[t].wi \in Ring /\ b \in RecordType
  BY <1>1 DEF LocalType
<1>3. /\ r \in LocalType /\ r.wi = my[t].wi /\ r.bufIndex = b.bufIndex
      /\ r.finished = b.finished /\ r.res = IF my[t].res = "ok" THEN b.res ELSE my[t].res
  BY <1>1, <1>2 DEF LocalType, RecordType
<1>4. \/ my[t].isReady /\ my' = [my EXCEPT ![t] = r] /\ pc' = [pc EXCEPT ![t] = "write"]
      \/ /\ ~my[t].isReady /\ my' = [my EXCEPT ![t] = Fresh]
         /\ pc' = [pc EXCEPT ![t] = OnWith(my[t])]
  BY DEF Release, SetMy, Goto
<1> HIDE DEF r
<1> QED BY <1>1, <1>2, <1>3, <1>4

\* Every step of a thread changes its own locals only.
LEMMA LocalsStep ==
  ASSUME TypeOK, NEW t \in Threads, Thread(t), pc[t] = "take" => freeList # <<>>
  PROVE  my' \in [Threads -> LocalType] /\ \A u \in Threads \ {t} : my'[u] = my[u]
<1>1. my \in [Threads -> LocalType] /\ Fresh \in LocalType
  BY RingAndRead DEF TypeOK, TypeMy
<1>2. CASE Begin(t) \/ TurnOver(t)
  BY <1>1, <1>2 DEF Begin, TurnOver
<1>3. CASE ReadBlock(t) \/ HandOn(t)
  BY <1>3, ReadBlockDoes, HandOnDoes
<1>4. CASE TakeBuffer(t)
  BY <1>4, TakeBufferDoes DEF TakeBuffer
<1>5. CASE Code(t) \/ Publish(t) \/ Write(t)
  BY <1>5, CodeDoes, PublishDoes, WriteDoes
<1>6. CASE NextBlock(t) \/ Release(t)
  BY <1>6, NextBlockDoes, ReleaseDoes
<1>7. CASE Finish(t)
  <2> DEFINE r == [my[t] EXCEPT !.numFinished = numFinished + 1]
  <2>0. my[t] \in LocalType /\ numFinished + 1 \in Nat
    BY <1>1 DEF TypeOK, TypeThreads
  <2>1. r \in LocalType
    BY <2>0 DEF LocalType
  <2>2. my' = [my EXCEPT ![t] = r]
    BY <1>7 DEF Finish, SetMy
  <2> HIDE DEF r
  <2> QED BY <1>1, <2>1, <2>2
<1>8. CASE Compare(t)
  BY <1>1, <1>8 DEF Compare, SetMy
<1> QED BY <1>2, <1>3, <1>4, <1>5, <1>6, <1>7, <1>8 DEF Thread

LEMMA TypeStep ==
  ASSUME IInv, [Next]_vars
  PROVE  TypeOK'
<1> USE DEF constVars, mainVars, threadVars, turnVars, csVars, streamVars, endVars, Works, Fails,
            Goto
<1>1. /\ TypeOK /\ TypeMain /\ TypeThreads /\ TypeRead /\ TypeMy /\ TypeRing /\ TypeOut
  BY DEF IInv, TypeOK
<1>2. inputsize' = inputsize /\ nthread' = nthread /\ Ring' = Ring /\ LocalType' = LocalType
      /\ RecordType' = RecordType
  BY SizesStay DEF LocalType, RecordType
<1>3. nthread \in Nat \ {0} /\ nthread <= MaxThreads /\ 1 \in Threads /\ MaxThreads \in Nat
  BY <1>1, MtCoderAssumption DEF TypeMain, Threads
<1>4. CASE UNCHANGED vars
  BY <1>1, <1>2, <1>4
     DEF vars, TypeOK, TypeMain, TypeThreads, TypeRead, TypeMy, TypeRing, TypeOut
<1>5. ASSUME Caller PROVE TypeOK'
  <2> USE DEF Caller, Open, Wait, WriteFooter, Stop, Join, Return, Serial, First
  <2>1. TypeMain'
    <3>1. CASE WriteFooter
      <4>1. /\ main' = "stop" /\ rc' \in {"ok", "error"} /\ (ended' = ended \/ ended' = TRUE)
            /\ faults' = faults \/ faults' = faults + 1
        BY <3>1
      <4>2. UNCHANGED <<tid, progress, readRes, writeRes, finishedEvent>>
        BY <3>1
      <4>3. faults' \in Nat
        BY <1>1, <4>1 DEF TypeMain
      <4>4. ended' \in BOOLEAN
        BY <1>1, <4>1, Zenon DEF TypeMain
      <4> QED BY <1>1, <1>2, <4>1, <4>2, <4>3, <4>4 DEF TypeMain, Results
    <3>2. CASE Wait \/ Stop \/ Join \/ Return
      <4>1. /\ main' \in {"footer", "stop", "join", "done"} \cup {main}
            /\ rc' \in {rc, "error"} /\ finishedEvent' \in {finishedEvent, FALSE}
        BY <3>2
      <4>3. tid' \in Nat \ {0}
        BY <1>1, <3>2 DEF TypeMain
      <4>2. UNCHANGED <<ended, progress, readRes, writeRes, faults>>
        BY <3>2
      <4> QED BY <1>1, <1>2, <4>1, <4>2, <4>3 DEF TypeMain, Results
    <3>3. CASE Open \/ Serial \/ First
      BY <1>1, <1>2, <3>3 DEF TypeMain, Results
    <3> QED BY <1>5, <3>1, <3>2, <3>3
  <2>2. TypeThreads'
    <3>1. CASE First
      <4>1. numStarted' \in 0 .. nthread' /\ UNCHANGED <<stop, numFinished>>
        BY <1>2, <1>3, <3>1
      <4>2. UNCHANGED <<pc, start>> \/ Starts(1)
        BY <3>1
      <4> QED BY <1>1, <1>3, <4>1, <4>2 DEF TypeThreads, Labels, Starts
    <3>2. CASE ~First
      BY <1>1, <1>2, <1>5, <3>2 DEF TypeThreads
    <3> QED BY <3>1, <3>2
  <2>3. TypeRead' /\ TypeMy' /\ TypeRing'
    BY <1>1, <1>2, <1>5 DEF TypeRead, TypeMy, TypeRing
  <2>4. TypeOut'
    <3>1. CASE Serial
      <4>1. /\ Whole \in Seq(BlockType)
            /\ Append(Whole, [at |-> inputsize, len |-> 0]) \in Seq(BlockType)
        BY <1>1, WholeType
      <4> QED BY <1>1, <3>1, <4>1 DEF TypeOut
    <3>2. CASE ~Serial
      BY <1>1, <1>5, <3>2 DEF TypeOut
    <3> QED BY <3>1, <3>2
  <2> QED BY <2>1, <2>2, <2>3, <2>4 DEF TypeOK
<1>6. ASSUME NEW t \in Threads, Thread(t) PROVE TypeOK'
  <2> USE DEF Begin, TurnOver, Finish, Compare
  <2>1. my[t] \in LocalType /\ pc[t] \in Labels
    BY <1>1 DEF TypeMy, TypeThreads
  <2>2. pc[t] = "take" => freeList # <<>>
    BY <1>1, BufferThere DEF IInv, QuietInv
  <2>3. TypeMy'
    BY <1>1, <1>2, <1>6, <2>2, LocalsStep DEF TypeMy
  <2>4. OnWith(my[t]) \in Labels
    BY DEF OnWith, Labels
  <2>5. CASE Begin(t) \/ TurnOver(t) \/ Finish(t) \/ Compare(t)
    <3>1. TypeThreads'
      <4>1. /\ UNCHANGED <<stop, numStarted>> 
            /\ numFinished' = numFinished \/ numFinished' = numFinished + 1
            /\ start' = start \/ start' = [start EXCEPT ![t] = FALSE]
        BY <2>5
      <4>2. \E label \in {"gone", "turn", "finish", "compare", "start"} :
               pc' = [pc EXCEPT ![t] = label]
        BY <2>5
      <4>3. pc' \in [Threads -> Labels]
        BY <1>1, <4>2 DEF TypeThreads, Labels
      <4>4. numFinished' \in Nat
        BY <1>1, <4>1 DEF TypeThreads
      <4>5. [start EXCEPT ![t] = FALSE] \in [Threads -> BOOLEAN]
        BY <1>1 DEF TypeThreads
      <4>6. start' \in [Threads -> BOOLEAN]
        BY <1>1, <4>1, <4>5, Zenon DEF TypeThreads
      <4> QED BY <1>1, <1>2, <4>1, <4>3, <4>4, <4>6 DEF TypeThreads
    <3>2. finishedEvent' \in BOOLEAN
      BY <1>1, <2>5 DEF TypeMain
    <3>3. UNCHANGED <<main, tid, rc, ended, progress, readRes, writeRes, faults>>
      BY <2>5
    <3>4. UNCHANGED <<turn, stopReading, readProcessed, blockIndex, sem, freeList, writeIndex,
                      ready, blocks, enc, out, index>>
      BY <2>5
    <3> QED BY <1>1, <1>2, <2>3, <3>1, <3>2, <3>3, <3>4
            DEF TypeOK, TypeMain, TypeRead, TypeRing, TypeOut
  <2>6. CASE ReadBlock(t)
    <3>1. readProcessed' \in 0 .. inputsize
      BY <1>1, <2>6, ReadBlockDoes, RingAndRead DEF TypeRead
    <3>2. TypeMain' /\ TypeThreads' /\ TypeRead'
      BY <1>1, <1>2, <2>6, <3>1, ReadBlockDoes
         DEF ReadBlock, TypeMain, TypeThreads, TypeRead, Labels
    <3> QED BY <1>1, <1>2, <2>3, <2>6, <3>2 DEF ReadBlock, TypeOK, TypeRing, TypeOut
  <2>7. CASE HandOn(t)
    <3>1. blockIndex' \in Ring
      BY <1>1, <2>7, HandOnDoes, RingAndRead DEF TypeRead
    <3>2. my'[t].finished \in BOOLEAN
      BY <1>1, <2>7, HandOnDoes DEF LocalType
    <3>3. UNCHANGED <<stop, numFinished>>
      BY <1>1, <2>7, HandOnDoes
    <3>6. TypeThreads'
      <4>1. CASE UNCHANGED <<start, numStarted>>
        <5>1. numStarted # numStarted + 1
          BY <1>1, <1>3 DEF TypeThreads
        <5>2. pc' = [pc EXCEPT ![t] = IF my'[t].res = "ok" THEN "take" ELSE "publish"]
          BY <1>1, <2>7, <4>1, <5>1, HandOnDoes
        <5>3. pc' \in [Threads -> Labels]
          BY <1>1, <5>2 DEF TypeThreads, Labels
        <5> QED BY <1>1, <1>2, <3>3, <4>1, <5>3 DEF TypeThreads
      <4>2. CASE ~UNCHANGED <<start, numStarted>>
        <5>1. /\ pc' = [pc EXCEPT ![t] = "take", ![numStarted + 1] = "start"]
              /\ start' = [start EXCEPT ![numStarted + 1] = TRUE]
              /\ numStarted' = numStarted + 1 /\ numStarted < nthread
          BY <1>1, <2>7, <4>2, HandOnDoes
        <5>2. numStarted + 1 \in Threads /\ numStarted' \in 0 .. nthread
          BY <1>1, <1>3, <5>1 DEF TypeThreads, Threads
        <5>3. pc' \in [Threads -> Labels] /\ start' \in [Threads -> BOOLEAN]
          BY <1>1, <5>1, <5>2 DEF TypeThreads, Labels
        <5> QED BY <1>1, <1>2, <3>3, <5>2, <5>3 DEF TypeThreads
      <4> QED BY <4>1, <4>2
    <3>7. /\ UNCHANGED <<main, tid, rc, ended, readRes, writeRes, finishedEvent>>
          /\ progress' \in Results /\ faults' \in Nat
      BY <1>1, <2>7, HandOnDoes
    <3>8. /\ turn' = TRUE /\ stopReading' = my'[t].finished /\ sem' = sem - 1
          /\ readProcessed' = readProcessed
      BY <1>1, <2>7, HandOnDoes
    <3>9. UNCHANGED <<freeList, writeIndex, ready, blocks, enc, out, index>>
      BY <1>1, <2>7, HandOnDoes
    <3> QED BY <1>1, <1>2, <2>3, <3>1, <3>2, <3>6, <3>7, <3>8, <3>9
            DEF TypeOK, TypeMain, TypeRead, TypeRing, TypeOut
  <2>8. CASE TakeBuffer(t)
    <3>1. freeList' \in Seq(Ring)
      BY <1>1, <2>2, <2>8, TakeBufferDoes DEF TakeBuffer
    <3> QED BY <1>1, <1>2, <2>3, <2>8, <3>1
            DEF TakeBuffer, TypeOK, TypeMain, TypeThreads, TypeRead, TypeRing, TypeOut, Labels
  <2>9. CASE Code(t)
    <3>1. /\ enc' \in [Ring -> BlockType] /\ progress' \in Results /\ faults' \in Nat
      BY <1>1, <2>9, CodeDoes
    <3> QED BY <1>1, <1>2, <2>3, <2>9, <3>1
            DEF Code, TypeOK, TypeMain, TypeThreads, TypeRead, TypeRing, TypeOut, Labels
  <2>10. CASE Publish(t)
    <3>1. my[t].bi \in Ring
      BY <2>1 DEF LocalType
    <3>0. UNCHANGED <<freeList, enc>>
      BY <2>10 DEF Publish
    <3>2. TypeRing'
      BY <1>1, <1>2, <2>10, <3>0, <3>1, PublishDoes DEF TypeRing
    <3>3. TypeThreads'
      BY <1>1, <1>2, <2>4, <2>10, PublishDoes DEF Publish, TypeThreads, Labels
    <3> QED BY <1>1, <1>2, <2>3, <2>10, <3>2, <3>3
            DEF Publish, TypeOK, TypeMain, TypeRead, TypeOut
  <2>11. CASE Write(t)
    <3>1. TypeMain'
      BY <1>1, <1>2, <2>11, WriteDoes DEF Write, TypeMain
    <3>2. CASE UNCHANGED <<out, index>>
      BY <1>1, <1>2, <2>3, <2>11, <3>1, <3>2
         DEF Write, TypeOK, TypeThreads, TypeRead, TypeRing, TypeOut, Labels
    <3>3. CASE ~UNCHANGED <<out, index>>
      <4> DEFINE block == enc[my[t].bufIndex]
      <4>1. /\ my[t].bufIndex # None
            /\ out' \in {out, Append(out, block)} /\ index' \in {index, Append(index, block)}
        BY <2>11, <3>3 DEF Write
      <4>2. block \in BlockType
        BY <1>1, <2>1, <4>1 DEF LocalType, TypeRing
      <4> HIDE DEF block
      <4>3. TypeOut'
        <5>1. Append(out, block) \in Seq(BlockType) /\ Append(index, block) \in Seq(BlockType)
          BY <1>1, <4>2 DEF TypeOut
        <5> QED BY <1>1, <4>1, <5>1 DEF TypeOut
      <4> QED BY <1>1, <1>2, <2>3, <2>11, <3>1, <4>3
              DEF Write, TypeOK, TypeThreads, TypeRead, TypeRing, Labels
    <3> QED BY <3>2, <3>3
  <2>12. CASE NextBlock(t)
    <3>1. freeList' \in Seq(Ring) /\ After(my[t].wi) \in Ring
      BY <1>1, <2>12, NextBlockDoes
    <3>2. TypeRing'
      BY <1>1, <1>2, <2>12, <3>1 DEF NextBlock, TypeRing
    <3> QED BY <1>1, <1>2, <2>3, <2>12, <3>2
            DEF NextBlock, TypeOK, TypeMain, TypeThreads, TypeRead, TypeOut, Labels
  <2>13. CASE Release(t)
    <3>1. TypeThreads'
      BY <1>1, <1>2, <2>4, <2>13, ReleaseDoes DEF Release, TypeThreads, Labels
    <3> QED BY <1>1, <1>2, <2>3, <2>13, <3>1
            DEF Release, TypeOK, TypeMain, TypeRead, TypeRing, TypeOut
  <2> QED BY <1>6, <2>5, <2>6, <2>7, <2>8, <2>9, <2>10, <2>11, <2>12, <2>13 DEF Thread
<1> QED BY <1>4, <1>5, <1>6 DEF Next, Done

-----------------------------------------------------------------------------
(* Counting and turns *)

\* A thread is at work only while the caller waits for it, or has been through its wait.
LEMMA AtWork ==
  ASSUME IInv, Live, NEW t \in Threads, Thread(t)
  PROVE  /\ main = "wait" /\ main' = "wait" /\ Live' /\ t <= numStarted
         /\ nthread \in Nat /\ nthread <= MaxThreads /\ MaxThreads \in Nat
         /\ numStarted \in 1 .. nthread
<1>1. main' = main
  BY DEF Thread, mainVars, Begin, TurnOver, ReadBlock, HandOn, TakeBuffer, Code, Publish, Write,
         NextBlock, Release, Finish, Compare
<1>2. pc[t] # "none"
  BY DEF Thread, Begin, TurnOver, ReadBlock, HandOn, TakeBuffer, Code, Publish, Write,
         NextBlock, Release, Finish, Compare
<1>3. main = "wait"
  BY <1>2 DEF IInv, CountInv
<1>4. nthread \in Nat /\ nthread <= MaxThreads /\ MaxThreads \in Nat
  BY MtCoderAssumption DEF IInv, TypeOK, TypeMain, Threads
<1> QED BY <1>1, <1>2, <1>3, <1>4 DEF IInv, CountInv, TypeOK, TypeThreads, Live

\* A thread in the middle of its work has not counted itself, so the event is not set.
LEMMA NotYet ==
  ASSUME IInv, Live, NEW t \in Threads, t <= numStarted, ~Counted(t)
  PROVE  ~finishedEvent
BY DEF IInv, CountInv

LEMMA CountStep ==
  ASSUME IInv, [Next]_vars
  PROVE  CountInv'
<1> USE DEF constVars, mainVars, threadVars, turnVars, csVars, streamVars, endVars, Goto
<1>1. TypeOK /\ CountInv /\ TypeThreads
  BY DEF IInv, TypeOK
<1> DEFINE S == {u \in Threads : Counted(u)}
<1>2. CASE UNCHANGED vars
  <2>1. S' = S
    BY <1>2 DEF vars, Counted
  <2> QED BY <1>1, <1>2, <2>1 DEF vars, CountInv, Live, Counted
<1>3. ASSUME Caller PROVE CountInv'
  <2>1. CASE Open
    <3>1. S' = S
      BY <2>1 DEF Open, Counted
    <3> QED BY <1>1, <2>1, <3>1 DEF Open, CountInv, Live, Counted
  <2>2. CASE First
    <3>1. 1 \in Threads /\ nthread >= 1
      BY <1>1, MtCoderAssumption DEF Threads, TypeOK, TypeMain
    <3>2. CASE main' = "stop"
      BY <3>2 DEF CountInv, Live
    <3>3. CASE main' # "stop"
      <4>1. /\ main = "first" /\ main' = "wait" /\ numStarted' = 1 /\ pc' = [pc EXCEPT ![1] = "start"]
            /\ start' = [start EXCEPT ![1] = TRUE]
            /\ UNCHANGED <<stop, numFinished, finishedEvent, my>>
        BY <2>2, <3>3 DEF First, Starts
      <4>2. S' = S
        BY <1>1, <3>1, <4>1 DEF TypeThreads, CountInv, Live, Counted
      <4>3. \A u \in Threads : (pc'[u] # "none" <=> u <= 1) /\ pc'[u] # "gone"
                               /\ (start'[u] => pc'[u] = "start") /\ pc'[u] # "compare"
        BY <1>1, <3>1, <4>1 DEF TypeThreads, CountInv, Live, Threads
      <4> QED BY <1>1, <4>1, <4>2, <4>3 DEF CountInv, Live
    <3> QED BY <3>2, <3>3
  <2>3. CASE Wait \/ WriteFooter \/ Stop \/ Join \/ Return \/ Serial
    BY <2>3 DEF Wait, WriteFooter, Stop, Join, Return, Serial, CountInv, Live
  <2> QED BY <1>3, <2>1, <2>2, <2>3 DEF Caller
<1>4. ASSUME NEW t \in Threads, Thread(t), Live PROVE CountInv'
  <2>1. /\ main = "wait" /\ main' = "wait" /\ Live' /\ t <= numStarted
        /\ numStarted \in 1 .. nthread /\ nthread \in Nat /\ nthread <= MaxThreads
        /\ MaxThreads \in Nat
    BY <1>4, AtWork
  <2>2. CASE Finish(t)
    <3>1. /\ pc[t] = "finish" /\ pc' = [pc EXCEPT ![t] = "compare"]
          /\ numFinished' = numFinished + 1
          /\ UNCHANGED <<start, stop, numStarted, finishedEvent>>
      BY <2>2 DEF Finish
    <3>2. S' = S \cup {t} /\ t \notin S
      BY <1>1, <3>1 DEF TypeThreads, Counted
    <3>3. IsFiniteSet(S)
      <4>1. IsFiniteSet(Threads)
        BY <2>1, FS_Interval DEF Threads
      <4> QED BY <4>1, FS_Subset
    <3>4. numFinished' = Cardinality(S')
      BY <1>1, <1>4, <3>1, <3>2, <3>3, FS_AddElement DEF CountInv
    <3>5. /\ \A u \in Threads \ {t} : my'[u] = my[u]
          /\ my'[t].numFinished = numFinished'
      BY <1>1, <2>2 DEF Finish, SetMy, TypeOK, TypeMy, LocalType
    <3>6. \A u \in Threads : pc'[u] = "compare" => my'[u].numFinished <= numFinished'
      BY <1>1, <1>4, <3>1, <3>5 DEF CountInv, TypeThreads, TypeOK, TypeMy, LocalType
    <3>7. ~finishedEvent
      BY <1>4, <2>1, <3>1, NotYet DEF Counted
    <3> QED BY <1>1, <1>4, <2>1, <3>1, <3>4, <3>6, <3>7 DEF CountInv, TypeThreads
  <2>3. CASE Compare(t)
    <3>1. /\ pc[t] = "compare" /\ pc' = [pc EXCEPT ![t] = "start"] /\ my' = [my EXCEPT ![t] = Fresh]
          /\ finishedEvent' = (finishedEvent \/ my[t].numFinished = numStarted)
          /\ UNCHANGED <<start, stop, numStarted, numFinished>>
      BY <2>3 DEF Compare, SetMy
    <3>2. ~start[t]
      BY <1>1, <2>1, <3>1 DEF CountInv
    <3>3. S' = S /\ \A u \in Threads : Counted(u)' <=> Counted(u)
      BY <1>1, <3>1, <3>2 DEF TypeThreads, Counted
    <3>4. \A u \in Threads : pc'[u] = "compare" => my'[u].numFinished <= numFinished'
      BY <1>1, <1>4, <3>1 DEF CountInv, TypeThreads, TypeOK, TypeMy
    <3>5. ASSUME my[t].numFinished = numStarted
          PROVE  \A u \in Threads : u <= numStarted => Counted(u)
      <4>1. S \subseteq 1 .. numStarted
        BY <1>1, <2>1 DEF Counted, CountInv, Threads
      <4>2. Cardinality(S) >= numStarted
        BY <1>1, <1>4, <3>1, <3>5 DEF CountInv
      <4>3. IsFiniteSet(1 .. numStarted) /\ Cardinality(1 .. numStarted) = numStarted
        BY <2>1, FS_Interval
      <4>4. S = 1 .. numStarted
        <5>1. IsFiniteSet(S) /\ (Cardinality(S) = numStarted => S = 1 .. numStarted)
              /\ Cardinality(S) <= numStarted
          <6> DEFINE T == 1 .. numStarted
          <6>1. S \in SUBSET T /\ IsFiniteSet(T) /\ Cardinality(T) = numStarted
            BY <4>1, <4>3
          <6> HIDE DEF S, T
          <6>2. /\ IsFiniteSet(S) /\ (Cardinality(T) = Cardinality(S) => T = S)
                /\ Cardinality(S) <= Cardinality(T)
            BY <6>1, FS_Subset
          <6> QED BY <6>1, <6>2 DEF T
        <5>2. Cardinality(S) \in Nat
          BY <5>1, FS_CardinalityType
        <5> QED BY <2>1, <4>2, <5>1, <5>2
      <4> QED BY <4>4 DEF Threads
    <3> QED BY <1>1, <1>4, <2>1, <3>1, <3>2, <3>3, <3>4, <3>5 DEF CountInv, TypeThreads
  <2>4. CASE HandOn(t)
    <3>1. /\ pc[t] = "reserve" /\ UNCHANGED <<stop, numFinished, finishedEvent>>
          /\ \A u \in Threads \ {t} : my'[u] = my[u]
      BY <1>1, <2>4, HandOnDoes
    <3>2. ~finishedEvent
      BY <1>4, <2>1, <3>1, NotYet DEF Counted
    <3>3. CASE /\ pc' = [pc EXCEPT ![t] = IF my'[t].res = "ok" THEN "take" ELSE "publish"]
               /\ UNCHANGED <<start, numStarted>>
      <4>1. S' = S
        BY <1>1, <3>1, <3>3 DEF TypeThreads, Counted
      <4> QED BY <1>1, <1>4, <2>1, <3>1, <3>2, <3>3, <4>1 DEF CountInv, TypeThreads
    <3>4. CASE /\ pc' = [pc EXCEPT ![t] = "take", ![numStarted + 1] = "start"]
               /\ start' = [start EXCEPT ![numStarted + 1] = TRUE]
               /\ numStarted' = numStarted + 1 /\ numStarted < nthread
      <4>1. numStarted + 1 \in Threads /\ pc[numStarted + 1] = "none" /\ numStarted + 1 # t
        BY <1>1, <2>1, <3>4 DEF CountInv, Threads
      <4>2. /\ pc'[t] = "take" /\ pc'[numStarted + 1] = "start" /\ start'[numStarted + 1]
            /\ \A u \in Threads \ {t, numStarted + 1} : pc'[u] = pc[u]
            /\ \A u \in Threads \ {numStarted + 1} : start'[u] = start[u]
        BY <1>1, <3>4, <4>1 DEF TypeThreads
      <4>3. S' = S
        BY <3>1, <4>1, <4>2 DEF Counted
      <4>4. \A u \in Threads : u <= numStarted + 1 <=> (u <= numStarted \/ u = numStarted + 1)
        BY <2>1 DEF Threads
      <4>5. \A u \in Threads : /\ pc'[u] # "none" <=> u <= numStarted'
                              /\ pc'[u] # "gone" /\ (start'[u] => pc'[u] = "start")
        BY <1>1, <2>1, <3>1, <3>4, <4>1, <4>2, <4>4 DEF CountInv
      <4>6. \A u \in Threads : pc'[u] = "compare" => my'[u].numFinished <= numFinished'
        BY <1>1, <1>4, <3>1, <4>2 DEF CountInv
      <4>7. numFinished' = Cardinality(S')
        BY <1>1, <1>4, <3>1, <4>3 DEF CountInv
      <4>8. \A u \in Threads : ~stop'[u]
        BY <1>1, <1>4, <3>1 DEF CountInv
      <4>9. numStarted' >= 1
        BY <2>1, <3>4
      <4> QED BY <2>1, <3>1, <3>2, <4>5, <4>6, <4>7, <4>8, <4>9 DEF CountInv
    <3> QED BY <1>1, <2>4, <3>3, <3>4, HandOnDoes
  <2>5. CASE ~Finish(t) /\ ~Compare(t) /\ ~HandOn(t)
    <3>1. /\ UNCHANGED <<stop, numStarted, numFinished, finishedEvent>>
          /\ ~Counted(t) /\ pc[t] \in Labels \ {"none", "gone"}
          /\ \/ pc[t] = "start" /\ start' = [start EXCEPT ![t] = FALSE]
             \/ pc[t] # "start" /\ start' = start
      BY <1>4, <2>5 DEF Thread, Begin, TurnOver, ReadBlock, TakeBuffer, Code, Publish, Write,
         NextBlock, Release, Counted, Labels
    <3>2. \E label \in Labels \ {"none", "start", "compare", "gone"} : pc' = [pc EXCEPT ![t] = label]
      <4>1. ~stop[t]
        BY <1>1, <1>4 DEF CountInv
      <4> QED BY <1>4, <2>5, <4>1 DEF Thread, Begin, TurnOver, ReadBlock, TakeBuffer, Code,
              Publish, Write, NextBlock, Release, Labels, OnWith
    <3>3. \A u \in Threads \ {t} : my'[u] = my[u]
      <4>1. pc[t] = "take" => freeList # <<>>
        BY <1>4, BufferThere DEF IInv
      <4> QED BY <1>1, <1>4, <4>1, LocalsStep
    <3>4. ~finishedEvent
      BY <1>4, <2>1, <3>1, NotYet
    <3>5. /\ ~start'[t] /\ \A u \in Threads \ {t} : start'[u] = start[u] /\ pc'[u] = pc[u]
          /\ pc'[t] \notin {"none", "start", "compare", "gone"}
      BY <1>1, <2>1, <3>1, <3>2 DEF TypeThreads, CountInv
    <3>6. S' = S
      BY <3>1, <3>5 DEF Counted
    <3>7. \A u \in Threads : /\ pc'[u] # "none" <=> u <= numStarted'
                            /\ pc'[u] # "gone" /\ (start'[u] => pc'[u] = "start")
      BY <1>1, <2>1, <3>1, <3>5 DEF CountInv
    <3>8. \A u \in Threads : pc'[u] = "compare" => my'[u].numFinished <= numFinished'
      BY <1>1, <1>4, <3>1, <3>3, <3>5 DEF CountInv
    <3> QED BY <1>1, <1>4, <2>1, <3>1, <3>4, <3>6, <3>7, <3>8 DEF CountInv
  <2> QED BY <2>2, <2>3, <2>4, <2>5
<1>5. ASSUME NEW t \in Threads, Thread(t), ~Live PROVE CountInv'
  BY <1>5 DEF Thread, Begin, TurnOver, ReadBlock, HandOn, TakeBuffer, Code, Publish, Write,
              NextBlock, Release, Finish, Compare, CountInv, Live
<1> QED BY <1>2, <1>3, <1>4, <1>5 DEF Next, Done

\* The other threads stay where they are, but for the one that is created.
LEMMA OthersStay ==
  ASSUME IInv, NEW t \in Threads, Thread(t)
  PROVE  /\ my' \in [Threads -> LocalType] /\ pc' \in [Threads -> Labels]
         /\ \A u \in Threads \ {t} :
              /\ my'[u] = my[u]
              /\ \/ pc'[u] = pc[u] /\ start'[u] = start[u]
                 \/ pc[u] = "none" /\ pc'[u] = "start" /\ start'[u] = TRUE
         /\ HandOn(t) => pc'[t] \in {"take", "publish"}
<1>1. TypeOK /\ TypeThreads /\ pc \in [Threads -> Labels] /\ start \in [Threads -> BOOLEAN]
  BY DEF IInv, TypeOK, TypeThreads
<1>2. pc[t] = "take" => freeList # <<>>
  BY BufferThere DEF IInv, QuietInv
<1>3. my' \in [Threads -> LocalType] /\ \A u \in Threads \ {t} : my'[u] = my[u]
  BY <1>1, <1>2, LocalsStep
<1>4. CASE HandOn(t)
  <2>1. pc[t] = "reserve"
    BY <1>4 DEF HandOn
  <2>2. Live /\ numStarted \in Nat
    BY <1>1, <2>1 DEF IInv, QuietInv, TypeThreads
  <2>3. \/ start' = start /\ \E label \in {"take", "publish"} : pc' = [pc EXCEPT ![t] = label]
        \/ /\ pc' = [pc EXCEPT ![t] = "take", ![numStarted + 1] = "start"]
           /\ start' = [start EXCEPT ![numStarted + 1] = TRUE]
           /\ numStarted < nthread
    BY <1>1, <1>4, HandOnDoes
  <2>4. CASE start' = start /\ \E label \in {"take", "publish"} : pc' = [pc EXCEPT ![t] = label]
    BY <1>1, <1>3, <2>4 DEF Labels
  <2>5. CASE /\ pc' = [pc EXCEPT ![t] = "take", ![numStarted + 1] = "start"]
             /\ start' = [start EXCEPT ![numStarted + 1] = TRUE]
             /\ numStarted < nthread
    <3>1. numStarted + 1 \in Threads /\ pc[numStarted + 1] = "none" /\ main = "wait"
      BY <1>4, <2>2, <2>5, AtWork DEF IInv, CountInv, Threads, Thread
    <3> QED BY <1>1, <1>3, <2>1, <2>5, <3>1 DEF Labels
  <2> QED BY <2>3, <2>4, <2>5
<1>5. CASE ~HandOn(t)
  <2>1. \E label \in Labels : pc' = [pc EXCEPT ![t] = label]
    BY <1>5 DEF Thread, Begin, TurnOver, ReadBlock, TakeBuffer, Code, Publish, Write, NextBlock,
                Release, Finish, Compare, Labels, OnWith, Goto
  <2>2. start' = start \/ start' = [start EXCEPT ![t] = FALSE]
    BY <1>5 DEF Thread, Begin, TurnOver, ReadBlock, TakeBuffer, Code, Publish, Write, NextBlock,
                Release, Finish, Compare, threadVars
  <2> QED BY <1>1, <1>3, <1>5, <2>1, <2>2
<1> QED BY <1>4, <1>5

\* No thread is at work once the caller is past its wait.
LEMMA QuietStep ==
  ASSUME IInv, [Next]_vars
  PROVE  QuietInv'
<1> USE DEF constVars, mainVars, threadVars, turnVars, csVars, streamVars, endVars, Goto
<1>1. TypeThreads /\ QuietInv /\ CountInv
  BY DEF IInv, TypeOK
<1>2. CASE UNCHANGED vars
  BY <1>1, <1>2 DEF vars, QuietInv, Live
<1>3. CASE Open \/ First \/ Serial
  <2>1. CASE Live'
    BY <2>1 DEF QuietInv
  <2>2. CASE ~Live'
    <3>1. \A u \in Threads : pc'[u] = "none" /\ ~start'[u]
      BY <1>1, <1>3, <2>2 DEF Open, First, Serial, CountInv, Live
    <3> QED BY <3>1 DEF QuietInv
  <2> QED BY <2>1, <2>2
<1>4. CASE Wait
  <2>1. finishedEvent /\ main = "wait" /\ Live /\ UNCHANGED <<pc, start, stop>>
    BY <1>4 DEF Wait, Live
  <2>2. \A u \in Threads : pc[u] # "none" => Counted(u)
    BY <1>1, <2>1 DEF CountInv
  <2>3. \A u \in Threads : pc[u] \in {"none", "start", "compare"} /\ ~start[u]
    BY <1>1, <2>1, <2>2 DEF CountInv, Counted
  <2> QED BY <2>1, <2>3 DEF QuietInv
<1>5. CASE WriteFooter \/ Stop \/ Join \/ Return
  <2>1. ~Live /\ pc' = pc
    BY <1>5 DEF WriteFooter, Stop, Join, Return, Live
  <2>2. \/ UNCHANGED <<start, stop>>
        \/ /\ stop' = [stop EXCEPT ![tid] = TRUE] /\ start' = [start EXCEPT ![tid] = TRUE]
    BY <1>5 DEF WriteFooter, Stop, Join, Return
  <2> QED BY <1>1, <2>1, <2>2 DEF QuietInv, TypeThreads
<1>6. ASSUME NEW t \in Threads, Thread(t) PROVE QuietInv'
  <2>1. Live' = Live
    BY <1>6 DEF Live, Thread, Begin, TurnOver, ReadBlock, HandOn, TakeBuffer, Code, Publish, Write,
                NextBlock, Release, Finish, Compare
  <2>2. CASE Live
    BY <2>1, <2>2 DEF QuietInv
  <2>3. CASE ~Live
    <3>1. Begin(t) \/ Compare(t)
      BY <1>1, <1>6, <2>3 DEF QuietInv, Thread, TurnOver, ReadBlock, HandOn, TakeBuffer, Code,
                              Publish, Write, NextBlock, Release, Finish
    <3>2. CASE Begin(t)
      BY <1>1, <2>3, <3>2 DEF QuietInv, TypeThreads, Begin
    <3>3. CASE Compare(t)
      BY <1>1, <2>3, <3>3 DEF QuietInv, TypeThreads, Compare
    <3> QED BY <3>1, <3>2, <3>3
  <2> QED BY <2>2, <2>3
<1> QED BY <1>2, <1>3, <1>4, <1>5, <1>6 DEF Next, Caller, Done

\* The turn is taken by reading and handed on by its holder only.
LEMMA TurnStep ==
  ASSUME IInv, [Next]_vars
  PROVE  TurnInv'
<1> USE DEF constVars, mainVars, threadVars, turnVars, csVars, streamVars, endVars, Goto
<1>1. TypeOK /\ TypeThreads /\ TurnInv
  BY DEF IInv, TypeOK
<1>2. CASE UNCHANGED vars
  BY <1>1, <1>2 DEF vars, TurnInv
<1>3. CASE First
  <2>1. \A u \in Threads : pc'[u] # "reserve"
    BY <1>1, <1>3 DEF First, Starts, IInv, CountInv, Live, TypeThreads
  <2> QED BY <2>1 DEF TurnInv
<1>4. CASE Open \/ Serial \/ Wait \/ WriteFooter \/ Stop \/ Join \/ Return
  BY <1>1, <1>4 DEF TurnInv, Open, Serial, Wait, WriteFooter, Stop, Join, Return
<1>5. ASSUME NEW t \in Threads, Thread(t) PROVE TurnInv'
  <2>1. \A u \in Threads \ {t} : pc'[u] = "reserve" => pc[u] = "reserve"
    BY <1>5, OthersStay
  <2>2. CASE HandOn(t)
    <3>1. pc[t] = "reserve" /\ pc'[t] # "reserve"
      BY <1>1, <1>5, <2>2, HandOnDoes, OthersStay
    <3> QED BY <1>1, <2>1, <3>1 DEF TurnInv
  <2>3. CASE ReadBlock(t)
    <3>1. turn /\ ~stopReading /\ turn' = FALSE /\ stopReading' = stopReading
      BY <2>3 DEF ReadBlock
    <3> QED BY <1>1, <2>1, <3>1 DEF TurnInv
  <2>4. CASE ~HandOn(t) /\ ~ReadBlock(t)
    <3>1. UNCHANGED <<turn, stopReading>> /\ pc'[t] # "reserve"
      BY <1>1, <1>5, <2>4 DEF TypeThreads, Thread, Begin, TurnOver, TakeBuffer, Code, Publish,
                              Write, NextBlock, Release, Finish, Compare, OnWith
    <3> QED BY <1>1, <2>1, <3>1 DEF TurnInv
  <2> QED BY <2>2, <2>3, <2>4
<1> QED BY <1>2, <1>3, <1>4, <1>5 DEF Next, Caller, Done

\* Until the end is seen every block that is handed on is a whole one, so that there are no more
\* of them than threads and the ring does not come round.
LEMMA HandOnWhole ==
  ASSUME IInv, NEW t \in Threads, HandOn(t), ~stopReading'
  PROVE  /\ blockIndex' = blockIndex + 1 /\ blockIndex' < NumBlocks
         /\ readProcessed = blockIndex' * BlockSize
<1>1. TypeOK /\ TypeRead /\ pc[t] = "reserve" /\ blockIndex' = After(blockIndex)
  BY HandOnDoes DEF IInv, TypeOK
<1>2. Live /\ ~stopReading
  BY <1>1 DEF IInv, QuietInv, TurnInv
<1>3. ~my[t].finished
  BY <1>1, HandOnDoes
<1>4. my[t].src.len = BlockSize /\ readProcessed = blockIndex * BlockSize + BlockSize
  BY <1>1, <1>2, <1>3 DEF IInv, ReadInv, TypeOK, TypeMy, LocalType, Results
<1>5. /\ BlockSize \in Nat \ {0} /\ NumBlocks \in Nat /\ NumBlocks > nthread /\ nthread \in Nat
      /\ blockIndex \in 0 .. (NumBlocks - 1) /\ readProcessed <= inputsize
      /\ \A k \in Nat : k * BlockSize <= inputsize => k <= nthread
  BY <1>1, Sizing DEF TypeOK, TypeMain, TypeRead, Ring
<1>6. readProcessed = (blockIndex + 1) * BlockSize
  BY <1>4, <1>5
<1>7. blockIndex + 1 <= nthread
  <2> DEFINE k == blockIndex + 1
  <2>1. k \in Nat /\ k * BlockSize <= inputsize
    BY <1>5, <1>6
  <2> HIDE DEF k
  <2>2. k <= nthread
    BY <1>5, <2>1
  <2> QED BY <2>2 DEF k
<1>8. After(blockIndex) = blockIndex + 1
  BY <1>1, <1>5, <1>7, RingAndRead DEF TypeRead
<1> QED BY <1>1, <1>5, <1>6, <1>7, <1>8

LEMMA ReadStep ==
  ASSUME IInv, [Next]_vars
  PROVE  ReadInv'
<1> USE DEF constVars, mainVars, threadVars, turnVars, csVars, streamVars, endVars, Goto
<1>1. TypeOK /\ TypeThreads /\ TypeRead /\ ReadInv /\ BlockSize' = BlockSize
      /\ NumBlocks' = NumBlocks /\ inputsize' = inputsize /\ \A k : BlockAt(k)' = BlockAt(k)
  BY SizesStay DEF IInv, TypeOK
<1>2. CASE UNCHANGED vars
  BY <1>1, <1>2 DEF vars, ReadInv, Live
<1>3. CASE Caller
  <2>1. CASE First
    <3>1. /\ Live /\ UNCHANGED <<my, sem, blockIndex, readProcessed, stopReading>>
          /\ \A u \in Threads : pc'[u] # "reserve" /\ pc[u] # "reserve"
      BY <1>1, <2>1 DEF First, Starts, IInv, CountInv, Live, TypeThreads
    <3> QED BY <1>1, <3>1 DEF ReadInv
  <2>2. CASE ~First
    <3>1. /\ UNCHANGED <<my, pc, sem, blockIndex, readProcessed, stopReading>>
          /\ Live' => Live
      BY <1>3, <2>2 DEF Caller, Open, Serial, Wait, WriteFooter, Stop, Join, Return, Live
    <3> QED BY <1>1, <3>1 DEF ReadInv
  <2> QED BY <2>1, <2>2
<1>4. ASSUME NEW t \in Threads, Thread(t), Live, ~stopReading' PROVE ReadInv'
  <2>1. \A u \in Threads \ {t} : my'[u] = my[u] /\ (pc'[u] = "reserve" <=> pc[u] = "reserve")
    BY <1>4, OthersStay
  <2>2. CASE HandOn(t)
    <3>1. \A u \in Threads : pc'[u] # "reserve"
      <4>1. pc[t] = "reserve" /\ pc'[t] # "reserve"
        BY <1>1, <1>4, <2>2, HandOnDoes, OthersStay
      <4> QED BY <2>1, <4>1 DEF IInv, TurnInv
    <3>2. /\ blockIndex' = blockIndex + 1 /\ readProcessed = blockIndex' * BlockSize
          /\ readProcessed' = readProcessed /\ sem' = sem - 1
      BY <1>1, <1>4, <2>2, HandOnDoes, HandOnWhole
    <3>3. ~stopReading
      BY <2>2 DEF HandOn, IInv, TurnInv
    <3>4. sem >= NumBlocks - blockIndex /\ NumBlocks \in Nat /\ blockIndex \in Nat /\ sem \in Int
      BY <1>1, <1>4, <3>3, Sizing, RingAndRead DEF ReadInv, TypeOK, TypeMain, TypeRead
    <3> QED BY <1>1, <3>1, <3>2, <3>4 DEF ReadInv
  <2>3. CASE ReadBlock(t)
    <3>1. /\ turn /\ ~stopReading /\ pc'[t] = "reserve" /\ UNCHANGED <<blockIndex, sem>>
      BY <1>1, <2>3 DEF ReadBlock, TypeThreads
    <3>2. \A u \in Threads : pc[u] # "reserve"
      BY <3>1 DEF IInv, TurnInv
    <3>3. readProcessed = blockIndex * BlockSize /\ sem >= NumBlocks - blockIndex
      BY <1>1, <1>4, <3>1, <3>2 DEF ReadInv
    <3>4. Read = BlockAt(blockIndex)
      BY <3>3 DEF Read, BlockAt
    <3>5. \/ /\ my'[t].res = "ok" /\ my'[t].src = BlockAt(blockIndex)
             /\ my'[t].finished = (my'[t].src.len # BlockSize)
             /\ readProcessed' = blockIndex * BlockSize + my'[t].src.len
          \/ /\ my'[t].res = "error" /\ my'[t].finished = TRUE
             /\ readProcessed' = readProcessed
      BY <1>1, <2>3, <3>3, <3>4, ReadBlockDoes
    <3>6. \A u \in Threads : pc'[u] = "reserve" => u = t
      BY <2>1, <3>2
    <3> QED BY <1>1, <3>1, <3>3, <3>5, <3>6 DEF ReadInv
  <2>4. CASE ~HandOn(t) /\ ~ReadBlock(t)
    <3>1. /\ UNCHANGED <<stopReading, blockIndex, readProcessed>> /\ sem' \in {sem, sem + 1}
          /\ pc[t] # "reserve" /\ pc'[t] # "reserve"
      BY <1>1, <1>4, <2>4 DEF TypeThreads, Thread, Begin, TurnOver, TakeBuffer, Code, Publish,
                              Write, NextBlock, Release, Finish, Compare, OnWith
    <3>2. sem' >= NumBlocks - blockIndex
      BY <1>1, <1>4, <3>1, Sizing, RingAndRead DEF ReadInv, TypeOK, TypeMain, TypeRead
    <3> QED BY <1>1, <1>4, <2>1, <3>1, <3>2 DEF ReadInv
  <2> QED BY <2>2, <2>3, <2>4
<1>5. ASSUME NEW t \in Threads, Thread(t), ~(Live /\ ~stopReading') PROVE ReadInv'
  <2>1. main' = main
    BY <1>5 DEF Thread, Begin, TurnOver, ReadBlock, HandOn, TakeBuffer, Code, Publish, Write,
                NextBlock, Release, Finish, Compare
  <2> QED BY <1>5, <2>1 DEF ReadInv, Live
<1> QED BY <1>2, <1>3, <1>4, <1>5 DEF Next, Done

-----------------------------------------------------------------------------
(* Places in the ring *)

\* A step of one thread moves no other thread's block.
LEMMA OthersInFlight ==
  ASSUME IInv, NEW t \in Threads, Thread(t), NEW u \in Threads \ {t}
  PROVE  /\ InFlight(u)' <=> InFlight(u)
         /\ Coding(u)' <=> Coding(u)
         /\ Writing(u)' <=> Writing(u)
         /\ Place(u)' = Place(u)
<1>1. /\ my'[u] = my[u]
      /\ pc'[u] = pc[u] \/ (pc[u] = "none" /\ pc'[u] = "start")
  BY OthersStay
<1> QED BY <1>1 DEF InFlight, Coding, Writing, Place

\* Where a step takes its thread's block.
LEMMA BlockMoves ==
  ASSUME IInv, NEW t \in Threads, Thread(t)
  PROVE  /\ HandOn(t) => ~InFlight(t) /\ Coding(t)' /\ ~Writing(t)' /\ Place(t)' = blockIndex
         /\ TakeBuffer(t) \/ Code(t) =>
              Coding(t) /\ Coding(t)' /\ ~Writing(t) /\ ~Writing(t)' /\ Place(t)' = Place(t)
         /\ Publish(t) =>
              /\ Coding(t) /\ ~Coding(t)' /\ ~Writing(t) /\ Place(t) = my[t].bi
              /\ IF writeIndex = my[t].bi THEN Writing(t)' /\ Place(t)' = Place(t) ELSE ~Writing(t)'
         /\ Write(t) => /\ ~Coding(t) /\ ~Coding(t)' /\ Writing(t) /\ Writing(t)'
                        /\ Place(t) = my[t].wi /\ Place(t)' = Place(t)
         /\ NextBlock(t) =>
              /\ ~Coding(t) /\ ~Coding(t)' /\ Writing(t) /\ Place(t) = my[t].wi
              /\ Place(t)' = After(my[t].wi) /\ (Writing(t)' <=> After(my[t].wi) \in ready)
         /\ Release(t) =>
              /\ ~Coding(t) /\ ~Coding(t)' /\ (Writing(t) <=> my[t].isReady)
              /\ Writing(t)' <=> my[t].isReady
              /\ Writing(t) => Place(t) = my[t].wi /\ Place(t)' = Place(t)
         /\ Begin(t) \/ TurnOver(t) \/ ReadBlock(t) \/ Finish(t) \/ Compare(t) =>
              ~InFlight(t) /\ ~InFlight(t)'
<1> USE DEF Goto
<1>1. TypeOK /\ pc \in [Threads -> Labels]
  BY DEF IInv, TypeOK, TypeThreads
<1>2. freeList # <<>> \/ ~TakeBuffer(t)
  BY BufferThere DEF IInv, QuietInv, TakeBuffer
<1>3. HandOn(t) => ~InFlight(t) /\ Coding(t)' /\ ~Writing(t)' /\ Place(t)' = blockIndex
  BY <1>1, HandOnDoes, OthersStay DEF InFlight, Coding, Writing, Place
<1>4. TakeBuffer(t) => /\ Coding(t) /\ Coding(t)' /\ ~Writing(t) /\ ~Writing(t)'
                       /\ Place(t)' = Place(t)
  BY <1>1, <1>2, TakeBufferDoes DEF TakeBuffer, Coding, Writing, Place
<1>5. Code(t) => Coding(t) /\ Coding(t)' /\ ~Writing(t) /\ ~Writing(t)' /\ Place(t)' = Place(t)
  BY <1>1, CodeDoes DEF Code, Coding, Writing, Place
<1>6. ASSUME Publish(t)
      PROVE  /\ Coding(t) /\ ~Coding(t)' /\ ~Writing(t) /\ Place(t) = my[t].bi
             /\ IF writeIndex = my[t].bi THEN Writing(t)' /\ Place(t)' = Place(t) ELSE ~Writing(t)'
  <2>1. pc[t] = "publish" /\ OnWith(my[t]) \in {"finish", "turn"}
    BY <1>6 DEF Publish, OnWith
  <2> QED BY <1>1, <1>6, <2>1, PublishDoes DEF Coding, Writing, Place
<1>7. Write(t) => /\ ~Coding(t) /\ ~Coding(t)' /\ Writing(t) /\ Writing(t)'
                  /\ Place(t) = my[t].wi /\ Place(t)' = Place(t)
  BY <1>1, WriteDoes DEF Write, Coding, Writing, Place
<1>8. NextBlock(t) => /\ ~Coding(t) /\ ~Coding(t)' /\ Writing(t) /\ Place(t) = my[t].wi
                      /\ Place(t)' = After(my[t].wi)
                      /\ (Writing(t)' <=> After(my[t].wi) \in ready)
  BY <1>1, NextBlockDoes DEF NextBlock, Coding, Writing, Place
<1>9. ASSUME Release(t)
      PROVE  /\ ~Coding(t) /\ ~Coding(t)' /\ (Writing(t) <=> my[t].isReady)
             /\ Writing(t)' <=> my[t].isReady
             /\ Writing(t) => Place(t) = my[t].wi /\ Place(t)' = Place(t)
  <2>1. pc[t] = "release" /\ OnWith(my[t]) \in {"finish", "turn"}
    BY <1>9 DEF Release, OnWith
  <2> QED BY <1>1, <1>9, <2>1, ReleaseDoes DEF Coding, Writing, Place
<1>10. Begin(t) \/ TurnOver(t) \/ ReadBlock(t) \/ Finish(t) \/ Compare(t) =>
         ~InFlight(t) /\ ~InFlight(t)'
  BY <1>1 DEF Begin, TurnOver, ReadBlock, Finish, Compare, InFlight, Coding, Writing
<1> QED BY <1>3, <1>4, <1>5, <1>6, <1>7, <1>8, <1>9, <1>10

LEMMA PlaceStep ==
  ASSUME IInv, [Next]_vars
  PROVE  PlaceInv'
<1> USE DEF constVars, mainVars, threadVars, turnVars, csVars, streamVars, endVars, Goto
<1>1. TypeOK /\ TypeThreads /\ TypeMy /\ TypeRing /\ TypeRead /\ PlaceInv
  BY DEF IInv, TypeOK
<1>2. /\ Ring \subseteq Nat /\ None \notin Ring /\ Ring' = Ring
      /\ \A u \in Threads : my[u].bi \in Ring /\ my[u].wi \in Ring
      /\ \A u \in Threads : InFlight(u) => Place(u) \in Ring
  BY <1>1, SizesStay, RingAndRead DEF TypeMy, LocalType, Place
<1>3. CASE UNCHANGED vars
  BY <1>1, <1>3 DEF vars, PlaceInv, Live, InFlight, Coding, Writing, Place
<1>4. CASE Caller
  <2>1. CASE First
    <3>1. /\ Live /\ UNCHANGED <<ready, writeIndex, blockIndex, stopReading>>
          /\ \A u \in Threads : ~InFlight(u)' /\ ~Writing(u)' /\ ~Writing(u)
      BY <1>1, <2>1 DEF First, Starts, IInv, CountInv, Live, TypeThreads, InFlight, Coding, Writing
    <3>2. writeIndex' # None
      BY <1>1, <3>1 DEF PlaceInv
    <3> QED BY <1>1, <3>1, <3>2 DEF PlaceInv
  <2>2. CASE ~First
    <3>1. /\ UNCHANGED <<my, pc, ready, writeIndex, blockIndex, stopReading>>
          /\ Live' => Live
      BY <1>4, <2>2 DEF Caller, Open, Serial, Wait, WriteFooter, Stop, Join, Return, Live
    <3> QED BY <1>1, <3>1 DEF PlaceInv, InFlight, Coding, Writing, Place
  <2> QED BY <2>1, <2>2
<1>5. ASSUME NEW t \in Threads, Thread(t), Live PROVE PlaceInv'
  <2>1. \A u \in Threads \ {t} : /\ InFlight(u)' <=> InFlight(u)
                                 /\ Writing(u)' <=> Writing(u)
                                 /\ Place(u)' = Place(u)
    BY <1>5, OthersInFlight
  <2>2. CASE HandOn(t)
    <3>1. /\ ~InFlight(t) /\ ~Writing(t)' /\ Place(t)' = blockIndex
          /\ UNCHANGED <<ready, writeIndex>>
      BY <1>1, <1>5, <2>2, BlockMoves, HandOnDoes
    <3>2. ~stopReading
      BY <2>2 DEF HandOn, IInv, TurnInv
    <3>3. blockIndex \in Nat /\ blockIndex \notin ready
          /\ \A u \in Threads : InFlight(u) => Place(u) < blockIndex
      BY <1>1, <1>2, <1>5, <3>2 DEF PlaceInv, TypeRead
    <3>4. ~stopReading' => blockIndex' = blockIndex + 1
      BY <2>2, HandOnWhole
    <3>5. \A u \in Threads : Writing(u)' <=> Writing(u)
      BY <2>1, <3>1 DEF InFlight
    <3>9. writeIndex' = None => \E u \in Threads : Writing(u)'
      BY <1>1, <1>5, <3>1, <3>5 DEF PlaceInv
    <3>6. \A u, v \in Threads : InFlight(u)' /\ InFlight(v)' /\ Place(u)' = Place(v)' => u = v
      BY <1>1, <1>2, <1>5, <2>1, <3>1, <3>3 DEF PlaceInv
    <3>7. \A u \in Threads : InFlight(u)' => Place(u)' \notin ready'
      BY <1>1, <1>5, <2>1, <3>1, <3>3 DEF PlaceInv
    <3>8. ~stopReading' => /\ \A u \in Threads : InFlight(u)' => Place(u)' < blockIndex'
                           /\ \A b \in ready' : b < blockIndex'
      <4> SUFFICES ASSUME ~stopReading'
                   PROVE  /\ \A u \in Threads : InFlight(u)' => Place(u)' < blockIndex'
                          /\ \A b \in ready' : b < blockIndex'
        OBVIOUS
      <4>1. blockIndex' = blockIndex + 1 /\ blockIndex \in Nat
        BY <3>3, <3>4
      <4>2. ASSUME NEW u \in Threads \ {t}, InFlight(u)' PROVE Place(u)' < blockIndex'
        <5>1. InFlight(u) /\ Place(u)' = Place(u)
          BY <2>1, <4>2
        <5>2. Place(u) \in Nat /\ Place(u) < blockIndex
          BY <1>2, <3>3, <5>1
        <5> QED BY <4>1, <5>1, <5>2
      <4>3. Place(t)' < blockIndex'
        BY <3>1, <4>1
      <4>4. \A b \in ready : b \in Nat /\ b < blockIndex
        BY <1>1, <1>2, <1>5, <3>2 DEF PlaceInv, TypeRing
      <4> QED BY <3>1, <4>1, <4>2, <4>3, <4>4
    <3> QED BY <1>1, <1>5, <3>1, <3>5, <3>6, <3>7, <3>8, <3>9 DEF PlaceInv
  <2>3. CASE TakeBuffer(t) \/ Code(t) \/ Write(t)
    <3>1. /\ UNCHANGED <<ready, writeIndex, blockIndex, stopReading>>
          /\ InFlight(t)' /\ InFlight(t) /\ Place(t)' = Place(t) /\ (Writing(t)' <=> Writing(t))
      BY <1>5, <2>3, BlockMoves DEF TakeBuffer, Code, Write, InFlight
    <3> QED BY <1>1, <1>5, <2>1, <3>1 DEF PlaceInv
  <2>4. CASE Publish(t)
    <3>1. /\ InFlight(t) /\ ~Writing(t) /\ ~Coding(t)' /\ Place(t) = my[t].bi
          /\ UNCHANGED <<blockIndex, stopReading>>
      BY <1>5, <2>4, BlockMoves DEF Publish, InFlight
    <3>2. CASE writeIndex = my[t].bi
      <4>1. Writing(t)' /\ Place(t)' = Place(t) /\ writeIndex' = None /\ ready' = ready
        BY <1>1, <1>5, <2>4, <3>2, BlockMoves, PublishDoes
      <4>2. \A u \in Threads : ~Writing(u)
        BY <1>1, <1>2, <1>5, <3>2 DEF PlaceInv
      <4>3. None \notin ready
        BY <1>1, <1>2 DEF TypeRing
      <4> QED BY <1>1, <1>5, <2>1, <3>1, <4>1, <4>2, <4>3 DEF PlaceInv, InFlight
    <3>3. CASE writeIndex # my[t].bi
      <4>1. ~InFlight(t)' /\ writeIndex' = writeIndex /\ ready' = ready \cup {my[t].bi}
        BY <1>1, <1>5, <2>4, <3>1, <3>3, BlockMoves, PublishDoes DEF InFlight
      <4> QED BY <1>1, <1>5, <2>1, <3>1, <3>3, <4>1 DEF PlaceInv, InFlight
    <3> QED BY <3>2, <3>3
  <2>5. CASE NextBlock(t)
    <3> DEFINE wi == After(my[t].wi)
    <3>1. /\ Writing(t) /\ ~Coding(t)' /\ Place(t)' = wi /\ (Writing(t)' <=> wi \in ready)
          /\ ready' = ready \ {wi} /\ writeIndex' = (IF wi \in ready THEN writeIndex ELSE wi)
          /\ UNCHANGED <<blockIndex, stopReading>>
      BY <1>5, <2>5, BlockMoves DEF NextBlock
    <3>2. writeIndex = None /\ \A u \in Threads \ {t} : ~Writing(u)
      BY <1>1, <1>5, <3>1 DEF PlaceInv
    <3>3. wi # None
      BY <1>1, <1>2, RingAndRead DEF TypeMy
    <3> HIDE DEF wi
    <3>4. writeIndex' = None => Writing(t)'
      BY <3>1, <3>3
    <3> QED BY <1>1, <1>5, <2>1, <3>1, <3>2, <3>4 DEF PlaceInv, InFlight
  <2>6. CASE Release(t)
    <3>1. /\ UNCHANGED <<ready, writeIndex, blockIndex, stopReading>>
          /\ InFlight(t)' <=> InFlight(t)
          /\ Writing(t)' <=> Writing(t)
          /\ InFlight(t) => Place(t)' = Place(t)
      BY <1>5, <2>6, BlockMoves DEF Release, InFlight
    <3> QED BY <1>1, <1>5, <2>1, <3>1 DEF PlaceInv
  <2>7. CASE Begin(t) \/ TurnOver(t) \/ ReadBlock(t) \/ Finish(t) \/ Compare(t)
    <3>1. /\ UNCHANGED <<ready, writeIndex, blockIndex, stopReading>>
          /\ ~InFlight(t)' /\ ~Writing(t)' /\ ~Writing(t)
      BY <1>5, <2>7, BlockMoves DEF Begin, TurnOver, ReadBlock, Finish, Compare, InFlight
    <3>2. \A u \in Threads : Writing(u)' <=> Writing(u)
      BY <2>1, <3>1
    <3>3. writeIndex' = None => \E u \in Threads : Writing(u)'
      BY <1>1, <1>5, <3>1, <3>2 DEF PlaceInv
    <3> QED BY <1>1, <1>5, <2>1, <3>1, <3>2, <3>3 DEF PlaceInv
  <2> QED BY <1>5, <2>2, <2>3, <2>4, <2>5, <2>6, <2>7 DEF Thread
<1>6. ASSUME NEW t \in Threads, Thread(t), ~Live PROVE PlaceInv'
  <2>1. main' = main
    BY <1>6 DEF Thread, Begin, TurnOver, ReadBlock, HandOn, TakeBuffer, Code, Publish, Write,
                NextBlock, Release, Finish, Compare
  <2> QED BY <1>6, <2>1 DEF PlaceInv, Live
<1> QED BY <1>3, <1>4, <1>5, <1>6 DEF Next, Done

-----------------------------------------------------------------------------
(* Output buffers *)

\* A step of one thread leaves the others and the finished blocks their buffers.
LEMMA OthersHold ==
  ASSUME IInv, Live, NEW t \in Threads, Thread(t)
  PROVE  /\ \A u \in Threads \ {t} : Holds(u)' = Holds(u)
         /\ \A b \in ready : blocks'[b] = blocks[b]
<1>1. TypeOK /\ TypeRing /\ TypeMy /\ PlaceInv
  BY DEF IInv, TypeOK
<1>2. \A b \in Ring : blocks'[b] = blocks[b] \/ (Publish(t) /\ b = my[t].bi)
  <2>1. CASE Publish(t)
    BY <1>1, <2>1, PublishDoes
  <2>2. CASE ~Publish(t)
    <3>1. blocks' = blocks
      BY <2>2 DEF Thread, Begin, TurnOver, ReadBlock, HandOn, TakeBuffer, Code, Write, NextBlock,
                  Release, Finish, Compare
    <3> QED BY <3>1
  <2> QED BY <2>1, <2>2
<1>3. ASSUME NEW b \in ready PROVE blocks'[b] = blocks[b]
  <2>1. Publish(t) => my[t].bi \notin ready
    BY <1>1, BlockMoves DEF PlaceInv, InFlight
  <2> QED BY <1>1, <1>2, <2>1 DEF TypeRing
<1>4. ASSUME NEW u \in Threads \ {t} PROVE Holds(u)' = Holds(u)
  <2>1. /\ my'[u] = my[u] /\ my[u].wi \in Ring
        /\ pc'[u] = pc[u] \/ (pc[u] = "none" /\ pc'[u] = "start")
    BY <1>1, OthersStay DEF TypeMy, LocalType
  <2>2. pc[u] = "release" /\ my[u].isReady => blocks'[my[u].wi] = blocks[my[u].wi]
    <3>1. Publish(t) /\ pc[u] = "release" /\ my[u].isReady => my[u].wi # my[t].bi
      BY <1>1, BlockMoves DEF PlaceInv, InFlight, Coding, Writing, Place
    <3> QED BY <1>2, <2>1, <3>1
  <2> QED BY <2>1, <2>2 DEF Holds
<1> QED BY <1>3, <1>4

LEMMA BufferStep ==
  ASSUME IInv, [Next]_vars
  PROVE  BufferInv'
<1> USE DEF constVars, mainVars, threadVars, turnVars, csVars, streamVars, endVars, Goto
<1>1. TypeOK /\ TypeThreads /\ TypeMy /\ TypeRing /\ PlaceInv /\ BufferInv
  BY DEF IInv, TypeOK
<1>2. Ring \subseteq Nat /\ None \notin Ring /\ Ring' = Ring
  BY <1>1, SizesStay, RingAndRead
<1>3. ~Free(None) /\ Len(freeList) \in Nat
  BY <1>1, <1>2 DEF TypeRing, Free
<1>4. CASE UNCHANGED vars
  BY <1>1, <1>2, <1>4 DEF vars, BufferInv, Live, Holds, Free
<1>5. CASE Caller
  <2>1. CASE First
    <3>1. /\ Live /\ UNCHANGED <<my, freeList, ready, blocks>>
          /\ \A u \in Threads : pc'[u] \in {"none", "start"} /\ pc[u] = "none"
      BY <1>1, <2>1 DEF First, Starts, IInv, CountInv, Live, TypeThreads
    <3>2. \A u \in Threads : Holds(u)' = Holds(u)
      BY <3>1 DEF Holds
    <3> QED BY <1>1, <1>2, <3>1, <3>2 DEF BufferInv, Free
  <2>2. CASE ~First
    <3>1. UNCHANGED <<my, pc, freeList, ready, blocks>> /\ (Live' => Live)
      BY <1>5, <2>2 DEF Caller, Open, Serial, Wait, WriteFooter, Stop, Join, Return, Live
    <3> QED BY <1>1, <1>2, <3>1 DEF BufferInv, Holds, Free
  <2> QED BY <2>1, <2>2
<1>6. ASSUME NEW t \in Threads, Thread(t), Live PROVE BufferInv'
  <2>1. /\ \A u \in Threads \ {t} : Holds(u)' = Holds(u)
        /\ \A b \in ready : blocks'[b] = blocks[b]
        /\ \A u \in Threads \ {t} : my'[u].bufIndex = my[u].bufIndex
                                    /\ (pc'[u] \in {"reserve", "take"} => pc[u] = pc'[u])
    BY <1>6, OthersHold, OthersStay
  <2>2. CASE /\ UNCHANGED <<freeList, ready>> /\ Holds(t)' = Holds(t)
             /\ pc'[t] \in {"reserve", "take"} => my'[t].bufIndex = None
    <3>1. \A u \in Threads : Holds(u)' = Holds(u)
      BY <2>1, <2>2
    <3>2. \A x : Free(x)' <=> Free(x)
      BY <2>2 DEF Free
    <3>3. \A u \in Threads : pc'[u] \in {"reserve", "take"} => my'[u].bufIndex = None
      BY <1>1, <1>6, <2>1, <2>2 DEF BufferInv
    <3> QED BY <1>1, <1>2, <1>6, <2>1, <2>2, <3>1, <3>2, <3>3 DEF BufferInv
  <2>3. CASE HandOn(t)
    <3>1. /\ pc[t] = "reserve" /\ pc'[t] \in {"take", "publish"} /\ UNCHANGED <<freeList, ready>>
          /\ my'[t].bufIndex = my[t].bufIndex
      BY <1>1, <1>6, <2>3, HandOnDoes, OthersStay
    <3>2. my[t].bufIndex = None
      BY <1>1, <1>6, <3>1 DEF BufferInv
    <3> QED BY <2>2, <3>1, <3>2 DEF Holds
  <2>4. CASE TakeBuffer(t)
    <3> DEFINE h == freeList[1]
    <3>1. /\ pc[t] = "take" /\ freeList # <<>> /\ pc'[t] = "code" /\ ready' = ready
      BY <1>1, <1>6, <2>4, BufferThere DEF TakeBuffer, TypeThreads
    <3>2. /\ my'[t].bufIndex = h /\ h \in Ring /\ Len(freeList') = Len(freeList) - 1
          /\ \A i \in 1 .. Len(freeList') : freeList'[i] = freeList[i + 1]
      BY <1>1, <2>4, <3>1, TakeBufferDoes
    <3>3. Holds(t) = None /\ Holds(t)' = h /\ Free(h) /\ h # None
      BY <1>1, <1>2, <1>3, <3>1, <3>2 DEF Holds, Free, TypeRing
    <3>4. \A i, j \in 1 .. Len(freeList') : freeList'[i] = freeList'[j] => i = j
      BY <1>1, <1>3, <1>6, <3>2 DEF BufferInv
    <3>5. ASSUME NEW x PROVE Free(x)' <=> Free(x) /\ x # h
      <4>1. Free(x)' => Free(x) /\ x # h
        BY <1>1, <1>3, <1>6, <3>2 DEF Free, BufferInv
      <4>2. ASSUME Free(x), x # h PROVE Free(x)'
        <5>1. PICK i \in 1 .. Len(freeList) : freeList[i] = x
          BY <4>2 DEF Free
        <5>2. i - 1 \in 1 .. Len(freeList') /\ freeList'[i - 1] = x
          BY <1>3, <3>2, <4>2, <5>1
        <5> QED BY <5>2 DEF Free
      <4> QED BY <4>1, <4>2
    <3> HIDE DEF h
    <3> QED BY <1>1, <1>2, <1>6, <2>1, <3>1, <3>3, <3>4, <3>5 DEF BufferInv
  <2>5. CASE Code(t) \/ Write(t)
    <3>1. /\ UNCHANGED <<freeList, ready>> /\ my'[t].bufIndex = my[t].bufIndex
          /\ pc[t] \in {"code", "write"} /\ pc'[t] \in {"publish", "next"}
      BY <1>1, <2>5, CodeDoes, WriteDoes DEF Code, Write, TypeThreads
    <3> QED BY <2>2, <3>1 DEF Holds
  <2>6. CASE Publish(t)
    <3>1. pc[t] = "publish" /\ freeList' = freeList /\ my[t].bi \in Ring
      BY <1>1, <2>6 DEF Publish, TypeMy, LocalType
    <3>2. CASE writeIndex = my[t].bi
      <4>1. ready' = ready /\ my'[t].bufIndex = my[t].bufIndex /\ pc'[t] = "write"
        BY <1>1, <2>6, <3>2, PublishDoes DEF TypeThreads
      <4> QED BY <2>2, <3>1, <4>1 DEF Holds
    <3>3. CASE writeIndex # my[t].bi
      <4>1. /\ ready' = ready \cup {my[t].bi} /\ pc'[t] \in {"finish", "turn"}
            /\ blocks'[my[t].bi].bufIndex = Holds(t)
        BY <1>1, <2>6, <3>1, <3>3, PublishDoes DEF TypeThreads, OnWith, Holds
      <4>2. Holds(t)' = None
        BY <4>1 DEF Holds
      <4>3. \A x : Free(x)' <=> Free(x)
        BY <3>1 DEF Free
      <4>4. \A b, c \in ready' : blocks'[b].bufIndex = blocks'[c].bufIndex
                                   => b = c \/ blocks'[b].bufIndex = None
        BY <1>1, <1>6, <2>1, <4>1 DEF BufferInv
      <4>5. /\ \A u \in Threads, b \in ready' : Holds(u)' = blocks'[b].bufIndex => Holds(u)' = None
            /\ \A b \in ready' : ~Free(blocks'[b].bufIndex)
        BY <1>1, <1>6, <2>1, <4>1, <4>2 DEF BufferInv
      <4>6. \A x \in Ring : \/ Free(x)
                            \/ \E u \in Threads : Holds(u)' = x
                            \/ \E b \in ready' : blocks'[b].bufIndex = x
        BY <1>1, <1>6, <2>1, <4>1 DEF BufferInv
      <4> QED BY <1>1, <1>2, <1>3, <1>6, <2>1, <3>1, <4>1, <4>2, <4>3, <4>4, <4>5, <4>6
              DEF BufferInv
    <3> QED BY <3>2, <3>3
  <2>7. CASE NextBlock(t)
    <3> DEFINE wi == After(my[t].wi)
               x == my[t].bufIndex
    <3>1. /\ pc[t] = "next" /\ pc'[t] = "release" /\ ready' = ready \ {wi} /\ blocks' = blocks
      BY <1>1, <2>7 DEF NextBlock, TypeThreads
    <3>2. /\ my'[t].wi = wi /\ my'[t].isReady = (wi \in ready)
          /\ \/ x = None /\ freeList' = freeList
             \/ /\ x \in Ring /\ Len(freeList') = Len(freeList) + 1 /\ freeList'[1] = x
                /\ \A i \in 1 .. Len(freeList) : freeList'[i + 1] = freeList[i]
      BY <1>1, <2>7, NextBlockDoes
    <3>3. Holds(t) = x /\ Holds(t)' = IF wi \in ready THEN blocks[wi].bufIndex ELSE None
      BY <3>1, <3>2 DEF Holds
    <3> HIDE DEF wi, x
    <3>4. ~Free(x)
      BY <1>1, <1>6, <3>3 DEF BufferInv
    <3>5. /\ \A y \in Ring : Free(y)' <=> Free(y) \/ y = x
          /\ ~Free(None)'
          /\ \A i, j \in 1 .. Len(freeList') : freeList'[i] = freeList'[j] => i = j
      <4>1. CASE x = None
        BY <1>1, <1>2, <1>3, <1>6, <3>2, <4>1 DEF BufferInv, Free
      <4>2. CASE x # None
        <5>1. /\ x \in Ring /\ Len(freeList') = Len(freeList) + 1 /\ freeList'[1] = x
              /\ \A i \in 1 .. Len(freeList) : freeList'[i + 1] = freeList[i]
          BY <3>2, <4>2
        <5>2. \A i \in 1 .. Len(freeList') : i = 1 \/ i - 1 \in 1 .. Len(freeList)
          BY <1>3, <5>1
        <5>3. \A i \in 1 .. Len(freeList') : i # 1 => freeList'[i] = freeList[i - 1]
          <6> TAKE i \in 1 .. Len(freeList')
          <6> HAVE i # 1
          <6>1. i - 1 \in 1 .. Len(freeList) /\ (i - 1) + 1 = i
            BY <5>2
          <6> QED BY <5>1, <6>1
        <5>4. ASSUME NEW y PROVE Free(y)' <=> Free(y) \/ y = x
          <6>1. ASSUME Free(y) PROVE Free(y)'
            <7>1. PICK i \in 1 .. Len(freeList) : freeList[i] = y
              BY <6>1 DEF Free
            <7>2. i + 1 \in 1 .. Len(freeList') /\ freeList'[i + 1] = y
              BY <1>3, <5>1, <7>1
            <7> QED BY <7>2 DEF Free
          <6>2. y = x => Free(y)'
            <7>1. 1 \in 1 .. Len(freeList')
              BY <1>3, <5>1
            <7> QED BY <5>1, <7>1 DEF Free
          <6>3. Free(y)' => Free(y) \/ y = x
            BY <5>1, <5>2, <5>3 DEF Free
          <6> QED BY <6>1, <6>2, <6>3
        <5>5. ASSUME NEW i \in 1 .. Len(freeList'), NEW j \in 1 .. Len(freeList'),
                     freeList'[i] = freeList'[j]
              PROVE  i = j
          <6>1. CASE i = 1 \/ j = 1
            BY <3>4, <5>1, <5>2, <5>3, <5>5, <6>1 DEF Free
          <6>2. CASE i # 1 /\ j # 1
            <7>1. freeList[i - 1] = freeList[j - 1]
              BY <5>3, <5>5, <6>2
            <7>2. i - 1 = j - 1
              BY <1>1, <1>6, <5>2, <6>2, <7>1 DEF BufferInv
            <7> QED BY <7>2
          <6> QED BY <6>1, <6>2
        <5> QED BY <1>3, <4>2, <5>4, <5>5
      <4> QED BY <4>1, <4>2
    <3>6. ASSUME NEW b \in ready PROVE blocks[b].bufIndex \in Ring \cup {None}
      BY <1>1 DEF TypeRing, RecordType
    <3>7. ASSUME NEW u \in Threads PROVE Holds(u) \in Ring \cup {None}
      BY <1>1 DEF TypeRing, RecordType, TypeMy, LocalType, Holds
    <3>8. \A u, v \in Threads : Holds(u)' = Holds(v)' /\ Holds(u)' # None => u = v
      BY <1>1, <1>6, <2>1, <3>3 DEF BufferInv
    <3>9. \A u \in Threads, b \in ready' : Holds(u)' = blocks[b].bufIndex => Holds(u)' = None
      BY <1>1, <1>6, <2>1, <3>1, <3>3 DEF BufferInv
    <3>10. \A u \in Threads : ~Free(Holds(u))'
      <4> TAKE u \in Threads
      <4>1. CASE u # t
        <5>1. Holds(u)' = Holds(u) /\ ~Free(Holds(u)) /\ (Holds(u) = x => Holds(u) = None)
          BY <1>1, <1>6, <2>1, <3>3, <4>1 DEF BufferInv
        <5>2. Free(Holds(u))' <=> \E i \in 1 .. Len(freeList') : freeList'[i] = Holds(u)
          BY <5>1 DEF Free
        <5> QED BY <3>5, <3>7, <5>1, <5>2 DEF Free
      <4>2. CASE u = t /\ wi \in ready
        <5>1. /\ Holds(u)' = blocks[wi].bufIndex /\ ~Free(blocks[wi].bufIndex)
              /\ blocks[wi].bufIndex = x => x = None
          BY <1>1, <1>6, <3>3, <4>2 DEF BufferInv
        <5>2. Free(Holds(u))' <=> \E i \in 1 .. Len(freeList') : freeList'[i] = blocks[wi].bufIndex
          BY <5>1 DEF Free
        <5> QED BY <3>5, <3>6, <4>2, <5>1, <5>2 DEF Free
      <4>3. CASE u = t /\ wi \notin ready
        BY <3>3, <3>5, <4>3 DEF Free, None
      <4> QED BY <4>1, <4>2, <4>3
    <3>11. \A b \in ready' : ~Free(blocks[b].bufIndex)'
      <4> TAKE b \in ready'
      <4>1. b \in ready /\ blocks'[b].bufIndex = blocks[b].bufIndex
        BY <3>1
      <4>2. ~Free(blocks[b].bufIndex) /\ (blocks[b].bufIndex = x => blocks[b].bufIndex = None)
        BY <1>1, <1>6, <3>3, <4>1 DEF BufferInv
      <4> QED BY <3>5, <3>6, <4>1, <4>2 DEF Free
    <3>12. ASSUME NEW y \in Ring
           PROVE  \/ Free(y)'
                  \/ \E u \in Threads : Holds(u)' = y
                  \/ \E b \in ready' : blocks[b].bufIndex = y
      <4>1. \/ Free(y)
            \/ \E u \in Threads : Holds(u) = y
            \/ \E b \in ready : blocks[b].bufIndex = y
        BY <1>1, <1>6 DEF BufferInv
      <4>2. CASE \E u \in Threads : Holds(u) = y
        BY <2>1, <3>3, <3>5, <4>2
      <4>3. CASE \E b \in ready : blocks[b].bufIndex = y
        BY <3>1, <3>3, <4>3
      <4> QED BY <3>5, <4>1, <4>2, <4>3
    <3>13. \A u \in Threads : pc'[u] \in {"reserve", "take"} => my'[u].bufIndex = None
      BY <1>1, <1>6, <2>1, <3>1 DEF BufferInv
    <3>14. \A b, c \in ready' : blocks[b].bufIndex = blocks[c].bufIndex
                                  => b = c \/ blocks[b].bufIndex = None
      BY <1>1, <1>6, <3>1 DEF BufferInv
    <3> QED BY <1>2, <3>1, <3>5, <3>8, <3>9, <3>10, <3>11, <3>12, <3>13, <3>14 DEF BufferInv
  <2>8. CASE Release(t)
    <3>1. pc[t] = "release" /\ UNCHANGED <<freeList, ready, blocks>>
      BY <2>8 DEF Release
    <3>2. /\ pc'[t] \in {"write", "finish", "turn"}
          /\ Holds(t)' = Holds(t)
      <4>1. CASE my[t].isReady
        BY <1>1, <2>8, <3>1, <4>1, ReleaseDoes DEF TypeThreads, Holds
      <4>2. CASE ~my[t].isReady
        BY <1>1, <2>8, <3>1, <4>2, ReleaseDoes DEF TypeThreads, Holds, OnWith
      <4> QED BY <4>1, <4>2
    <3> QED BY <2>2, <3>1, <3>2
  <2>9. CASE Begin(t) \/ TurnOver(t) \/ ReadBlock(t) \/ Finish(t) \/ Compare(t)
    <3>1. /\ UNCHANGED <<freeList, ready>>
          /\ pc[t] \in {"start", "turn", "finish", "compare"}
          /\ pc'[t] \in {"gone", "turn", "finish", "compare", "start", "reserve"}
          /\ pc'[t] = "reserve" => ReadBlock(t)
      BY <1>1, <2>9 DEF Begin, TurnOver, ReadBlock, Finish, Compare, TypeThreads
    <3>2. ReadBlock(t) => my'[t].bufIndex = None
      BY <1>1, ReadBlockDoes
    <3> QED BY <2>2, <3>1, <3>2 DEF Holds
  <2> QED BY <1>6, <2>3, <2>4, <2>5, <2>6, <2>7, <2>8, <2>9 DEF Thread
<1>7. ASSUME NEW t \in Threads, Thread(t), ~Live PROVE BufferInv'
  <2>1. main' = main
    BY <1>7 DEF Thread, Begin, TurnOver, ReadBlock, HandOn, TakeBuffer, Code, Publish, Write,
                NextBlock, Release, Finish, Compare
  <2> QED BY <1>7, <2>1 DEF BufferInv, Live
<1> QED BY <1>4, <1>5, <1>6, <1>7 DEF Next, Done

-----------------------------------------------------------------------------
(* What a clean call has coded *)

\* A step in which nothing fails does not unsee the end of the document.
LEMMA CleanBefore ==
  ASSUME IInv, NEW t \in Threads, Thread(t), Clean'
  PROVE  /\ Live /\ Clean /\ faults' = faults
         /\ stopReading \in BOOLEAN /\ (stopReading => stopReading')
<1>1. TypeOK /\ faults \in Nat /\ stopReading \in BOOLEAN
  BY DEF IInv, TypeOK, TypeMain, TypeRead
<1>2. main' = main
  BY DEF Thread, mainVars, Begin, TurnOver, ReadBlock, HandOn, TakeBuffer, Code, Publish, Write,
         NextBlock, Release, Finish, Compare
<1>3. faults' >= faults
  <2>1. CASE ReadBlock(t) \/ HandOn(t) \/ Code(t) \/ Write(t)
    BY <1>1, <2>1, ReadBlockDoes, HandOnDoes, CodeDoes, WriteDoes
  <2>2. CASE ~(ReadBlock(t) \/ HandOn(t) \/ Code(t) \/ Write(t))
    BY <1>1, <2>2 DEF Thread, Begin, TurnOver, TakeBuffer, Publish, NextBlock, Release, Finish,
                      Compare
  <2> QED BY <2>1, <2>2
<1>4. stopReading => stopReading'
  <2>1. CASE HandOn(t)
    BY <2>1 DEF HandOn, IInv, TurnInv
  <2>2. CASE ~HandOn(t)
    BY <2>2 DEF Thread, turnVars, Begin, TurnOver, ReadBlock, TakeBuffer, Code, Publish, Write,
                NextBlock, Release, Finish, Compare
  <2> QED BY <2>1, <2>2
<1> QED BY <1>1, <1>2, <1>3, <1>4 DEF Clean, Live

\* A step of one thread codes into no other's buffer.
LEMMA OthersCoded ==
  ASSUME IInv, NEW t \in Threads, Thread(t), Clean'
  PROVE  /\ \A u \in Threads \ {t} : Holds(u) # None => enc'[Holds(u)] = enc[Holds(u)]
         /\ \A b \in ready : blocks[b].bufIndex # None
                               => enc'[blocks[b].bufIndex] = enc[blocks[b].bufIndex]
<1>1. CASE Code(t)
  <2>1. Live /\ Clean /\ faults' = faults
    BY CleanBefore
  <2>2. enc' = [enc EXCEPT ![my[t].bufIndex] = my[t].src] /\ Holds(t) = my[t].bufIndex
    BY <1>1, <2>1, CodeDoes DEF IInv, Code, Holds
  <2>3. enc \in [Ring -> BlockType]
        /\ \A u \in Threads : Holds(u) \in Ring \cup {None}
        /\ \A b \in ready : blocks[b].bufIndex \in Ring \cup {None}
    BY DEF IInv, TypeOK, TypeRing, TypeMy, LocalType, RecordType, Holds
  <2>4. \A u \in Threads \ {t} : Holds(u) # None => Holds(u) # Holds(t)
    BY <2>1 DEF IInv, BufferInv
  <2>5. \A b \in ready : blocks[b].bufIndex # None => blocks[b].bufIndex # Holds(t)
    BY <2>1 DEF IInv, BufferInv
  <2> QED BY <2>2, <2>3, <2>4, <2>5
<1>2. CASE ~Code(t)
  <2>1. enc' = enc
    BY <1>2 DEF Thread, Begin, TurnOver, ReadBlock, HandOn, TakeBuffer, Publish, Write, NextBlock,
                Release, Finish, Compare
  <2> QED BY <2>1
<1> QED BY <1>1, <1>2

LEMMA OthersGood ==
  ASSUME IInv, NEW t \in Threads, Thread(t), Clean'
  PROVE  /\ \A u \in Threads \ {t} : Good(u)'
         /\ \A b \in ready : GoodBlock(b)'
<1>1. Live /\ Clean /\ (stopReading => stopReading') /\ [Next]_vars /\ ContentInv
  BY CleanBefore DEF IInv, Next
<1>2. \A k : BlockAt(k)' = BlockAt(k)
  BY <1>1, SizesStay
<1>3. ASSUME NEW u \in Threads \ {t} PROVE Good(u)'
  <2>1. /\ my'[u] = my[u]
        /\ \/ pc'[u] = pc[u] /\ start'[u] = start[u]
           \/ pc[u] = "none" /\ pc'[u] = "start" /\ start'[u] = TRUE
    BY OthersStay
  <2>2. Place(u)' = Place(u) /\ Holds(u)' = Holds(u)
    BY <1>1, OthersInFlight, OthersHold
  <2>3. Holds(u) # None => enc'[Holds(u)] = enc[Holds(u)]
    BY OthersCoded
  <2>4. pc[u] = "release" /\ my[u].isReady => blocks'[my[u].wi] = blocks[my[u].wi]
    <3>1. CASE Publish(t)
      <4>1. my[u].wi \in Ring /\ my[t].bi \in Ring
        BY DEF IInv, TypeOK, TypeMy, LocalType
      <4>2. pc[u] = "release" /\ my[u].isReady => my[u].wi # my[t].bi
        BY <1>1, <3>1, BlockMoves DEF IInv, PlaceInv, InFlight, Coding, Writing, Place
      <4> QED BY <3>1, <4>1, <4>2, PublishDoes DEF IInv
    <3>2. CASE ~Publish(t)
      BY <3>2 DEF Thread, Begin, TurnOver, ReadBlock, HandOn, TakeBuffer, Code, Write, NextBlock,
                  Release, Finish, Compare
    <3> QED BY <3>1, <3>2
  <2>5. Good(u) /\ (Counted(u)' => Counted(u))
    BY <1>1, <2>1 DEF ContentInv, Counted
  <2> QED BY <1>1, <1>2, <2>1, <2>2, <2>3, <2>4, <2>5 DEF Good
<1>4. ASSUME NEW b \in ready PROVE GoodBlock(b)'
  <2>1. GoodBlock(b) /\ blocks'[b] = blocks[b]
    BY <1>1, OthersHold DEF ContentInv
  <2>2. enc'[blocks[b].bufIndex] = enc[blocks[b].bufIndex]
    BY <2>1, OthersCoded DEF GoodBlock
  <2> QED BY <1>1, <1>2, <2>1, <2>2 DEF GoodBlock
<1> QED BY <1>3, <1>4

LEMMA ContentStep ==
  ASSUME IInv, [Next]_vars
  PROVE  ContentInv'
<1> USE DEF constVars, mainVars, threadVars, turnVars, csVars, streamVars, endVars, Goto
<1>1. TypeOK /\ TypeThreads /\ TypeMy /\ TypeRing /\ ContentInv /\ faults \in Nat
  BY DEF IInv, TypeOK, TypeMain
<1>2. \A k : BlockAt(k)' = BlockAt(k)
  BY SizesStay
<1>3. CASE UNCHANGED vars
  BY <1>1, <1>2, <1>3 DEF vars, ContentInv, Clean, Live, Good, GoodBlock, Counted, Holds, Place,
                          Coding
<1>4. CASE Caller
  <2>1. Clean' => Clean
    BY <1>1, <1>4 DEF Caller, Open, First, Serial, Wait, WriteFooter, Stop, Join, Return, Clean,
                      Live, Works, Fails
  <2>2. UNCHANGED <<my, enc, blocks, ready, progress, readRes, writeRes, stopReading>>
    BY <1>4 DEF Caller, Open, First, Serial, Wait, WriteFooter, Stop, Join, Return
  <2>3. CASE First
    <3>1. \/ UNCHANGED <<pc, start>>
          \/ pc' = [pc EXCEPT ![1] = "start"] /\ start' = [start EXCEPT ![1] = TRUE]
      BY <2>3 DEF First, Starts
    <3>2. \A u \in Threads : pc[u] = "none" /\ ~start[u]
      BY <2>3 DEF First, IInv, CountInv, Live
    <3>3. \A u \in Threads : pc'[u] \in {"none", "start"} /\ ~Counted(u)'
      BY <1>1, <3>1, <3>2 DEF TypeThreads, Counted
    <3>4. \A u \in Threads : Good(u) => Good(u)'
      BY <2>2, <3>2, <3>3 DEF Good
    <3> QED BY <1>1, <1>2, <2>1, <2>2, <3>4 DEF ContentInv, GoodBlock
  <2>4. CASE ~First
    <3>1. Clean' => UNCHANGED <<pc, start>>
      BY <1>4, <2>4 DEF Caller, Open, Serial, Wait, WriteFooter, Stop, Join, Return, Clean, Live
    <3> QED BY <1>1, <1>2, <2>1, <2>2, <3>1
            DEF ContentInv, Good, GoodBlock, Counted, Holds, Place, Coding
  <2> QED BY <2>3, <2>4
<1>5. ASSUME NEW t \in Threads, Thread(t), Clean' PROVE ContentInv'
  <2>1. /\ Live /\ Clean /\ faults' = faults /\ (stopReading => stopReading')
        /\ \A u \in Threads \ {t} : Good(u)'
        /\ \A b \in ready : GoodBlock(b)'
    BY <1>5, CleanBefore, OthersGood
  <2>2. /\ Good(t) /\ progress = "ok" /\ readRes = "ok" /\ writeRes = "ok"
        /\ \A b \in ready : GoodBlock(b)
    BY <1>1, <2>1 DEF ContentInv
  <2>3. progress' = "ok" /\ readRes' = "ok" /\ writeRes' = "ok"
    <3>1. CASE ReadBlock(t)
      BY <1>1, <2>1, <2>2, <3>1, ReadBlockDoes DEF ReadBlock, Clean
    <3>2. CASE HandOn(t)
      BY <1>1, <2>1, <2>2, <3>2, HandOnDoes
    <3>3. CASE Code(t) \/ Write(t)
      BY <1>1, <2>1, <2>2, <3>3, CodeDoes, WriteDoes DEF Code, Write
    <3>4. CASE ~(ReadBlock(t) \/ HandOn(t) \/ Code(t) \/ Write(t))
      BY <1>5, <2>2, <3>4 DEF Thread, Begin, TurnOver, TakeBuffer, Publish, NextBlock, Release,
                              Finish, Compare
    <3> QED BY <3>1, <3>2, <3>3, <3>4
  <2>4. CASE ready' \subseteq ready /\ Good(t)'
    BY <2>1, <2>3, <2>4 DEF ContentInv
  <2>5. CASE Begin(t) \/ TurnOver(t) \/ Finish(t) \/ Compare(t)
    <3>1. /\ ready' = ready /\ pc'[t] \in {"turn", "gone", "finish", "compare", "start"}
          /\ pc[t] \in {"start", "turn", "finish", "compare"}
          /\ pc'[t] \in {"finish", "compare"} \/ Counted(t)' => stopReading
      <4>1. ~stop[t] /\ (pc[t] = "start" /\ start[t] => ~Counted(t))
        BY <2>1 DEF IInv, CountInv, Counted
      <4> QED BY <1>1, <2>2, <2>5, <4>1
              DEF Begin, TurnOver, Finish, Compare, TypeThreads, Counted, Good
    <3>2. my'[t].res = "ok" /\ (my'[t].finished => my[t].finished)
      <4>1. CASE Begin(t) \/ TurnOver(t)
        BY <2>2, <4>1 DEF Begin, TurnOver, Good
      <4>2. CASE Compare(t)
        BY <1>1, <4>2 DEF Compare, SetMy, Fresh, TypeMy
      <4>3. CASE Finish(t)
        <5>1. my'[t] = [my[t] EXCEPT !.numFinished = numFinished + 1]
          BY <1>1, <4>3 DEF Finish, SetMy, TypeMy
        <5>2. my[t] \in LocalType
          BY <1>1 DEF TypeMy
        <5>3. my'[t].res = my[t].res /\ my'[t].finished = my[t].finished
          BY <5>1, <5>2 DEF LocalType
        <5> QED BY <2>2, <5>3 DEF Good
      <4> QED BY <2>5, <4>1, <4>2, <4>3
    <3> QED BY <2>1, <2>2, <2>4, <3>1, <3>2 DEF Good
  <2>6. CASE ReadBlock(t)
    <3>1. ready' = ready /\ pc'[t] = "reserve"
      BY <1>1, <2>6 DEF ReadBlock, TypeThreads
    <3>2. my'[t].res = "ok"
      BY <1>1, <2>1, <2>2, <2>3, <2>6, ReadBlockDoes
    <3> QED BY <2>4, <3>1, <3>2 DEF Good, Counted
  <2>7. CASE HandOn(t)
    <3>1. /\ ready' = ready /\ pc[t] = "reserve" /\ pc'[t] \in {"take", "publish"}
          /\ my'[t].res = "ok" /\ my'[t].src = my[t].src /\ my'[t].bi = blockIndex
          /\ stopReading' = my'[t].finished
      BY <1>1, <1>5, <2>2, <2>3, <2>7, HandOnDoes, OthersStay DEF Good
    <3>2. pc'[t] = "take"
      BY <1>1, <2>7, <3>1, HandOnDoes DEF TypeThreads
    <3>3. my[t].src = BlockAt(blockIndex)
      BY <2>1, <2>2, <3>1 DEF IInv, TurnInv, ReadInv, Good
    <3> QED BY <1>2, <2>4, <3>1, <3>2, <3>3 DEF Good, Counted
  <2>8. CASE TakeBuffer(t)
    <3>1. pc[t] = "take" /\ freeList # <<>> /\ pc'[t] = "code" /\ ready' = ready
      BY <1>1, <2>1, <2>8, BufferThere DEF TakeBuffer, TypeThreads, IInv
    <3>2. /\ my'[t].res = my[t].res /\ my'[t].finished = my[t].finished
          /\ my'[t].src = my[t].src /\ my'[t].bi = my[t].bi /\ my'[t].bufIndex # None
      BY <1>1, <2>8, <3>1, TakeBufferDoes, RingAndRead
    <3> QED BY <1>2, <2>1, <2>2, <2>4, <3>1, <3>2 DEF Good, Counted, Holds
  <2>9. CASE Code(t)
    <3>1. /\ pc[t] = "code" /\ pc'[t] = "publish" /\ ready' = ready
      BY <1>1, <2>9 DEF Code, TypeThreads
    <3>2. /\ my'[t].bufIndex = my[t].bufIndex /\ my'[t].finished = my[t].finished
          /\ my'[t].bi = my[t].bi /\ my'[t].res = my[t].res
          /\ enc' = [enc EXCEPT ![my[t].bufIndex] = my[t].src]
      BY <1>1, <2>1, <2>9, CodeDoes
    <3>3. /\ Holds(t) = my[t].bufIndex /\ Holds(t)' = my[t].bufIndex /\ Place(t)' = my[t].bi
          /\ my[t].bufIndex \in Ring
      BY <1>1, <2>2, <3>1, <3>2 DEF Holds, Place, Coding, Good, TypeMy, LocalType
    <3>4. enc'[Holds(t)'] = BlockAt(my[t].bi)
      BY <1>1, <2>2, <3>1, <3>2, <3>3 DEF Good, TypeRing
    <3> QED BY <1>2, <2>1, <2>2, <2>4, <3>1, <3>2, <3>3, <3>4 DEF Good, Counted
  <2>10. CASE Publish(t)
    <3>1. pc[t] = "publish" /\ UNCHANGED <<enc, stopReading>> /\ my[t].bi \in Ring
      BY <1>1, <2>10 DEF Publish, TypeMy, LocalType
    <3>2. Holds(t) = my[t].bufIndex /\ Place(t) = my[t].bi
      BY <3>1 DEF Holds, Place, Coding
    <3>3. CASE writeIndex = my[t].bi
      <4>1. /\ ready' = ready /\ my'[t].wi = my[t].bi /\ my'[t].bufIndex = my[t].bufIndex
            /\ my'[t].res = my[t].res /\ my'[t].finished = my[t].finished /\ pc'[t] = "write"
        BY <1>1, <2>2, <2>10, <3>3, PublishDoes DEF TypeThreads
      <4>2. Holds(t)' = Holds(t) /\ Place(t)' = Place(t)
        BY <3>2, <4>1 DEF Holds, Place, Coding
      <4> QED BY <1>2, <2>2, <2>4, <3>1, <4>1, <4>2 DEF Good, Counted
    <3>4. CASE writeIndex # my[t].bi
      <4>1. /\ ready' = ready \cup {my[t].bi} /\ my'[t] = Fresh
            /\ blocks'[my[t].bi].res = my[t].res
            /\ blocks'[my[t].bi].bufIndex = my[t].bufIndex
            /\ blocks'[my[t].bi].finished = my[t].finished
            /\ pc'[t] = OnWith(my[t])
        BY <1>1, <2>10, <3>4, PublishDoes DEF TypeThreads
      <4>2. ASSUME NEW b, b = my[t].bi PROVE GoodBlock(b)'
        BY <1>2, <2>2, <3>1, <3>2, <4>1, <4>2 DEF Good, GoodBlock
      <4>3. Good(t)'
        BY <2>2, <3>1, <4>1 DEF Good, OnWith, Fresh, Counted
      <4> QED BY <2>1, <2>3, <4>1, <4>2, <4>3 DEF ContentInv
    <3> QED BY <3>3, <3>4
  <2>11. CASE Write(t)
    <3>1. pc[t] = "write" /\ pc'[t] = "next" /\ ready' = ready /\ stopReading' = stopReading
      BY <1>1, <2>11 DEF Write, TypeThreads
    <3>2. my'[t].res = my[t].res /\ my'[t].finished = my[t].finished
      BY <1>1, <2>1, <2>11, WriteDoes
    <3> QED BY <2>2, <2>4, <3>1, <3>2 DEF Good, Counted
  <2>12. CASE NextBlock(t)
    <3> DEFINE wi == After(my[t].wi)
    <3>1. /\ pc[t] = "next" /\ pc'[t] = "release" /\ ready' = ready \ {wi}
          /\ UNCHANGED <<blocks, enc, stopReading>>
      BY <1>1, <2>12 DEF NextBlock, TypeThreads
    <3>2. /\ my'[t].wi = wi /\ my'[t].isReady = (wi \in ready) /\ my'[t].res = my[t].res
          /\ my'[t].finished = my[t].finished
      BY <1>1, <2>12, NextBlockDoes
    <3> HIDE DEF wi
    <3>3. my'[t].isReady => Holds(t)' = blocks[wi].bufIndex /\ Place(t)' = wi /\ GoodBlock(wi)
      BY <2>2, <3>1, <3>2 DEF Holds, Place, Coding
    <3> QED BY <1>2, <2>2, <2>4, <3>1, <3>2, <3>3 DEF Good, GoodBlock, Counted
  <2>13. CASE Release(t)
    <3>1. pc[t] = "release" /\ UNCHANGED <<ready, blocks, enc, stopReading>>
      BY <2>13 DEF Release
    <3>2. CASE my[t].isReady
      <4>1. /\ pc'[t] = "write" /\ my'[t].wi = my[t].wi
            /\ my'[t].bufIndex = blocks[my[t].wi].bufIndex
            /\ my'[t].finished = blocks[my[t].wi].finished
            /\ my'[t].res = IF my[t].res = "ok" THEN blocks[my[t].wi].res ELSE my[t].res
        BY <1>1, <2>13, <3>2, ReleaseDoes DEF TypeThreads
      <4>2. Holds(t)' = Holds(t) /\ Place(t)' = Place(t)
        BY <3>1, <3>2, <4>1 DEF Holds, Place, Coding
      <4> QED BY <1>2, <2>2, <2>4, <3>1, <3>2, <4>1, <4>2 DEF Good, Counted
    <3>3. CASE ~my[t].isReady
      <4>1. pc'[t] = OnWith(my[t]) /\ my'[t] = Fresh
        BY <1>1, <2>13, <3>3, ReleaseDoes DEF TypeThreads
      <4> QED BY <2>2, <2>4, <3>1, <4>1 DEF Good, OnWith, Fresh, Counted
    <3> QED BY <3>2, <3>3
  <2> QED BY <1>5, <2>5, <2>6, <2>7, <2>8, <2>9, <2>10, <2>11, <2>12, <2>13 DEF Thread
<1>6. CASE ~Clean'
  BY <1>6 DEF ContentInv
<1> QED BY <1>3, <1>4, <1>5, <1>6 DEF Next, Done

-----------------------------------------------------------------------------
(* The order of the blocks in the stream *)

\* A block is empty exactly when it is past the last one of the document.
LEMMA BlockLength ==
  ASSUME TypeOK, NEW k \in Nat
  PROVE  /\ BlockAt(k).len > 0 <=> k < NWhole
         /\ BlockAt(k).len # BlockSize => NWhole <= k + 1
<1>1. inputsize \in Nat \ {0} /\ BlockSize \in Nat \ {0}
  BY Sizing DEF TypeOK, TypeMain
<1>2. /\ NWhole \in Nat /\ BlockSize * NWhole >= inputsize
      /\ BlockSize * NWhole < inputsize + BlockSize
  BY <1>1, DivUp DEF NWhole
<1> DEFINE at == k * BlockSize
           product == BlockSize * NWhole
<1>3. at \in Nat /\ product \in Nat
  BY <1>1, <1>2
<1>4. NWhole <= k => product <= at
  <2>1. NWhole <= k => BlockSize * (k - NWhole) >= 0
    BY <1>1, <1>2
  <2> QED BY <1>1, <1>2, <2>1
<1>5. NWhole >= k + 1 => product >= at + BlockSize
  <2>1. NWhole >= k + 1 => BlockSize * (NWhole - (k + 1)) >= 0
    BY <1>1, <1>2
  <2> QED BY <1>1, <1>2, <2>1
<1>6. NWhole >= k + 2 => product >= at + 2 * BlockSize
  <2>1. NWhole >= k + 2 => BlockSize * (NWhole - (k + 2)) >= 0
    BY <1>1, <1>2
  <2> QED BY <1>1, <1>2, <2>1
<1>7. BlockAt(k).len = Min({BlockSize, inputsize - at})
  BY DEF BlockAt
<1>8. product >= inputsize /\ product < inputsize + BlockSize
  BY <1>2
<1> HIDE DEF at, product
<1>9. BlockAt(k).len = IF BlockSize <= inputsize - at THEN BlockSize ELSE inputsize - at
  BY <1>1, <1>3, <1>7, MinOfTwo
<1> QED BY <1>1, <1>2, <1>3, <1>4, <1>5, <1>6, <1>8, <1>9

\* The blocks that have a place are one more after each that is handed on.
LEMMA HighMoves ==
  ASSUME IInv, NEW t \in Threads, Thread(t), Clean'
  PROVE  /\ High \in 0 .. NumBlocks /\ High' = IF HandOn(t) THEN High + 1 ELSE High
         /\ HandOn(t) => High = blockIndex
<1>1. /\ TypeOK /\ TypeRead /\ Live /\ Clean /\ [Next]_vars
      /\ NumBlocks \in Nat /\ NumBlocks > 1 /\ blockIndex \in 0 .. (NumBlocks - 1)
  BY CleanBefore, Sizing DEF IInv, TypeOK, TypeMain, TypeRead, Ring, Next
<1>2. CASE HandOn(t)
  <2>1. ~stopReading /\ blockIndex' = After(blockIndex)
    BY <1>2 DEF HandOn, IInv, TurnInv
  <2>2. High = blockIndex /\ NumBlocks' = NumBlocks
    BY <1>1, <2>1, SizesStay DEF High
  <2>3. CASE blockIndex + 1 < NumBlocks
    <3>1. blockIndex' = blockIndex + 1
      BY <1>1, <2>1, <2>3, RingAndRead DEF TypeRead
    <3> QED BY <1>1, <1>2, <2>2, <3>1 DEF High
  <2>4. CASE blockIndex + 1 = NumBlocks
    <3>1. blockIndex' = 0
      BY <1>1, <2>1, <2>4, RingAndRead DEF TypeRead
    <3>2. stopReading'
      BY <1>1, <1>2, <3>1, HandOnWhole
    <3> QED BY <1>1, <1>2, <2>2, <2>4, <3>1, <3>2 DEF High
  <2> QED BY <1>1, <2>3, <2>4
<1>3. CASE ~HandOn(t)
  <2>1. UNCHANGED <<stopReading, blockIndex>> /\ NumBlocks' = NumBlocks
    BY <1>1, <1>3, SizesStay DEF turnVars, Thread, Begin, TurnOver, ReadBlock, TakeBuffer, Code,
       Publish, Write, NextBlock, Release, Finish, Compare
  <2> QED BY <1>1, <1>3, <2>1 DEF High
<1> QED BY <1>2, <1>3

\* Reading stops when every block has a place.
LEMMA StopStep ==
  ASSUME IInv, NEW t \in Threads, Thread(t), Clean'
  PROVE  stopReading' => NWhole' <= High'
<1>1. /\ TypeOK /\ TypeRead /\ Live /\ Clean /\ [Next]_vars /\ faults' = faults /\ NWhole' = NWhole
      /\ stopReading => NWhole <= High
  BY CleanBefore, SizesStay DEF IInv, TypeOK, Next, OrderInv
<1>2. CASE HandOn(t)
  <2>1. ~stopReading /\ pc[t] = "reserve"
    BY <1>2 DEF HandOn, IInv, TurnInv
  <2>2. progress' = "ok" /\ my[t].res = "ok"
    BY <1>1, <1>2, HandOnDoes DEF IInv, ContentInv, Good
  <2>3. stopReading' = my[t].finished
    BY <1>1, <1>2, <2>2, HandOnDoes
  <2>4. my[t].finished = (BlockAt(blockIndex).len # BlockSize)
    BY <1>1, <2>1, <2>2 DEF IInv, ReadInv
  <2>5. High' = blockIndex + 1 /\ blockIndex \in Nat
    BY <1>1, <1>2, HighMoves, RingAndRead DEF TypeRead
  <2> QED BY <1>1, <2>3, <2>4, <2>5, BlockLength
<1>3. CASE ~HandOn(t)
  <2>1. stopReading' = stopReading
    BY <1>3 DEF turnVars, Thread, Begin, TurnOver, ReadBlock, TakeBuffer, Code, Publish, Write,
                NextBlock, Release, Finish, Compare
  <2> QED BY <1>1, <1>3, <2>1, HighMoves
<1> QED BY <1>2, <1>3

\* Each block has its turn in the stream: what a step does to the blocks that are to be written.
LEMMA WrittenStep ==
  ASSUME IInv, NEW t \in Threads, Thread(t), Clean', NEW low \in 0 .. High, Written(low)
  PROVE  \E l \in 0 .. High' : Written(l)'
<1> USE DEF turnVars, csVars, streamVars
<1>1. /\ TypeOK /\ TypeThreads /\ TypeMy /\ TypeRing /\ TypeOut /\ PlaceInv
      /\ Live /\ Clean /\ [Next]_vars /\ faults' = faults
  BY CleanBefore DEF IInv, TypeOK, Next
<1>2. /\ NWhole' = NWhole /\ NumBlocks' = NumBlocks /\ (\A k : BlockAt(k)' = BlockAt(k))
      /\ NWhole \in Nat /\ NumBlocks \in Nat /\ Ring = 0 .. (NumBlocks - 1)
  BY <1>1, SizesStay, WholeType, Sizing DEF TypeOK, TypeMain, Ring
<1>3. /\ High \in 0 .. NumBlocks /\ High' = IF HandOn(t) THEN High + 1 ELSE High
      /\ HandOn(t) => High = blockIndex
  BY HighMoves
<1>4. \A u \in Threads \ {t} : /\ InFlight(u)' <=> InFlight(u)
                               /\ Writing(u)' <=> Writing(u)
                               /\ Place(u)' = Place(u)
                               /\ pc'[u] = "next" <=> pc[u] = "next"
  BY OthersInFlight, OthersStay
<1>5. \A u \in Threads : Place(u) \in Ring
  BY <1>1 DEF TypeMy, LocalType, Place
<1>6. CASE HandOn(t)
  <2>1. /\ UNCHANGED <<ready, writeIndex, out, index>>
        /\ ~InFlight(t) /\ InFlight(t)' /\ ~Writing(t)' /\ Place(t)' = blockIndex
        /\ pc'[t] # "next"
    BY <1>1, <1>6, BlockMoves, HandOnDoes, OthersStay DEF InFlight
  <2>2. \A k \in Int : Pending(k)' <=> Pending(k) \/ k = blockIndex
    BY <1>4, <2>1 DEF Pending
  <2>3. low \in 0 .. High' /\ \A k \in Int : Pending(k)' <=> low <= k /\ k < High'
    BY <1>3, <1>6, <2>2 DEF Written
  <2>4. \A u \in Threads : Writing(u)' => Writing(u) /\ u # t
    BY <1>4, <2>1
  <2>5. Written(low)'
    BY <1>2, <1>4, <2>1, <2>3, <2>4 DEF Written
  <2> QED BY <2>3, <2>5
<1>7. CASE Write(t)
  <2>1. /\ Writing(t) /\ Writing(t)' /\ InFlight(t) /\ Place(t)' = Place(t)
        /\ pc[t] = "write" /\ pc'[t] = "next" /\ UNCHANGED <<ready, writeIndex>>
    BY <1>1, <1>7, BlockMoves DEF Write, Goto, TypeThreads, InFlight
  <2>2. Place(t) = low
    BY <2>1 DEF Written
  <2>3. low < High /\ low \notin ready /\ low \in Nat
    BY <1>1, <1>3, <2>1, <2>2 DEF Written, Pending, PlaceInv
  <2>4. \A k \in Int : Pending(k)' <=> Pending(k) /\ k # low
    BY <1>1, <1>4, <2>1, <2>2, <2>3 DEF Pending, PlaceInv
  <2>5. writeIndex = None /\ \A u \in Threads \ {t} : ~Writing(u)
    BY <1>1, <2>1 DEF PlaceInv
  <2>6. /\ Holds(t) = my[t].bufIndex /\ Holds(t) # None /\ enc[Holds(t)] = BlockAt(low)
        /\ my[t].res = "ok"
    BY <1>1, <2>1, <2>2 DEF IInv, ContentInv, Good, Holds
  <2>7. BlockAt(low).len > 0 <=> low < NWhole
    BY <1>1, <2>3, BlockLength
  <2>8. \/ BlockAt(low).len > 0 /\ out' = Append(out, BlockAt(low)) /\ index' = Append(index, BlockAt(low))
        \/ ~(BlockAt(low).len > 0) /\ out' = out /\ index' = index
    <3>1. faults' # faults + 1
      BY <1>1 DEF TypeOK, TypeMain
    <3>2. enc[my[t].bufIndex] = BlockAt(low) /\ my[t].bufIndex # None
      BY <2>6
    <3> QED BY <1>7, <2>6, <3>1, <3>2 DEF Write, Fails
  <2>9. /\ index' = out' /\ Len(out') = IF low + 1 < NWhole THEN low + 1 ELSE NWhole
        /\ \A k \in 1 .. Len(out') : out'[k] = BlockAt(k - 1)
    <3>1. /\ Len(out) = (IF low < NWhole THEN low ELSE NWhole) /\ index = out
          /\ \A k \in 1 .. Len(out) : out[k] = BlockAt(k - 1)
      BY DEF Written
    <3>2. CASE low < NWhole
      <4>1. out' = Append(out, BlockAt(low)) /\ index' = out' /\ Len(out) = low
        BY <2>7, <2>8, <3>1, <3>2
      <4>2. Len(out') = low + 1 /\ \A k \in 1 .. low : out'[k] = out[k]
        BY <1>1, <4>1 DEF TypeOut
      <4>3. out'[low + 1] = BlockAt(low)
        BY <1>1, <4>1 DEF TypeOut
      <4> QED BY <1>2, <2>3, <3>1, <3>2, <4>1, <4>2, <4>3
    <3>3. CASE ~(low < NWhole)
      BY <1>2, <2>3, <2>7, <2>8, <3>1, <3>3
    <3> QED BY <3>2, <3>3
  <2>10. \A k \in Int : Pending(k)' <=> low + 1 <= k /\ k < High'
    BY <1>3, <1>7, <2>3, <2>4 DEF Written, Write, HandOn
  <2>11. \A u \in Threads : Writing(u)' => u = t
    BY <1>4, <2>5
  <2> DEFINE l == low + 1
  <2>12. l \in 0 .. High'
    BY <1>3, <2>1, <2>3 DEF HandOn
  <2>13. Place(t)' = l - 1
    BY <2>1, <2>2, <2>3
  <2> HIDE DEF l
  <2>14. Written(l)'
    BY <1>2, <2>1, <2>5, <2>9, <2>10, <2>11, <2>13 DEF Written, l
  <2> QED BY <2>12, <2>14
<1>8. CASE NextBlock(t)
  <2> DEFINE wi == After(my[t].wi)
  <2>1. /\ Writing(t) /\ ~Coding(t)' /\ Place(t) = my[t].wi /\ Place(t)' = wi
        /\ (Writing(t)' <=> wi \in ready)
        /\ pc[t] = "next" /\ pc'[t] = "release" /\ ready' = ready \ {wi}
        /\ writeIndex' = (IF wi \in ready THEN writeIndex ELSE wi)
        /\ UNCHANGED <<out, index>>
    BY <1>1, <1>8, BlockMoves DEF NextBlock, Goto, TypeThreads
  <2>2. writeIndex = None /\ \A u \in Threads \ {t} : ~Writing(u)
    BY <1>1, <2>1 DEF PlaceInv
  <2>3. my[t].wi = low - 1 /\ my[t].wi \in Ring /\ low \in 0 .. NumBlocks
    BY <1>1, <1>2, <1>3, <1>5, <2>1 DEF Written
  <2>4. wi = IF low = NumBlocks THEN 0 ELSE low
    <3>1. /\ my[t].wi + 1 < NumBlocks => wi = my[t].wi + 1
          /\ my[t].wi + 1 = NumBlocks => wi = 0
      BY <1>1, <2>3, RingAndRead
    <3> HIDE DEF wi
    <3> QED BY <1>2, <2>3, <3>1
  <2> HIDE DEF wi
  <2>5. wi \in ready => wi = low
    <3>1. wi \in ready => low <= wi /\ wi < High
      BY <1>1, <1>2 DEF Written, Pending, TypeRing
    <3> QED BY <1>2, <1>3, <2>3, <2>4, <3>1
  <2>6. \A k \in Int : Pending(k)' <=> Pending(k)
    BY <1>1, <1>4, <2>1 DEF Pending, InFlight, PlaceInv
  <2>7. High' = High
    BY <1>3, <2>1 DEF HandOn
  <2>8. \A u \in Threads : Writing(u)' => u = t /\ wi \in ready
    BY <1>4, <2>1, <2>2
  <2>9. Written(low)'
    BY <1>2, <2>1, <2>2, <2>4, <2>5, <2>6, <2>7, <2>8 DEF Written
  <2> QED BY <2>7, <2>9
<1>9. CASE Publish(t)
  <2>1. /\ InFlight(t) /\ ~Writing(t) /\ Place(t) = my[t].bi /\ pc[t] = "publish" /\ ~Coding(t)'
        /\ UNCHANGED <<out, index>>
    BY <1>1, <1>9, BlockMoves DEF Publish, InFlight
  <2>2. High' = High
    BY <1>3, <2>1 DEF HandOn
  <2>3. Pending(my[t].bi) /\ my[t].bi \in Ring
    BY <1>5, <2>1 DEF Pending
  <2>4. CASE writeIndex = my[t].bi
    <3>1. /\ Writing(t)' /\ Place(t)' = Place(t) /\ writeIndex' = None /\ ready' = ready
          /\ pc'[t] = "write"
      BY <1>1, <1>9, <2>4, BlockMoves, PublishDoes DEF TypeThreads
    <3>2. writeIndex # None /\ \A u \in Threads : ~Writing(u)
      BY <1>1, <2>3, <2>4, RingAndRead DEF PlaceInv
    <3>3. my[t].bi = low
      BY <1>2, <1>3, <2>3, <2>4, <3>2 DEF Written
    <3>4. \A k \in Int : Pending(k)' <=> Pending(k)
      BY <1>4, <2>1, <3>1 DEF Pending, InFlight
    <3>5. \A u \in Threads : Writing(u)' => u = t
      BY <1>4, <3>2
    <3>6. Written(low)'
      BY <1>2, <2>1, <2>2, <3>1, <3>3, <3>4, <3>5 DEF Written
    <3> QED BY <2>2, <3>6
  <2>5. CASE writeIndex # my[t].bi
    <3>1. ~InFlight(t)' /\ ~Writing(t)' /\ writeIndex' = writeIndex /\ ready' = ready \cup {my[t].bi}
      BY <1>1, <1>9, <2>1, <2>5, BlockMoves, PublishDoes DEF InFlight
    <3>2. \A k \in Int : Pending(k)' <=> Pending(k)
      BY <1>4, <2>1, <3>1 DEF Pending
    <3>3. Written(low)'
      BY <1>2, <1>4, <2>1, <2>2, <3>1, <3>2 DEF Written
    <3> QED BY <2>2, <3>3
  <2> QED BY <2>4, <2>5
<1>10. CASE ~(HandOn(t) \/ Write(t) \/ NextBlock(t) \/ Publish(t))
  <2>1. UNCHANGED <<ready, writeIndex, out, index>> /\ pc[t] # "next" /\ pc'[t] # "next"
    BY <1>1, <1>10 DEF Thread, Begin, TurnOver, ReadBlock, TakeBuffer, Code, Release, Finish,
                       Compare, TypeThreads, Goto, OnWith
  <2>2. /\ InFlight(t)' <=> InFlight(t)
        /\ Writing(t)' <=> Writing(t)
        /\ InFlight(t) => Place(t)' = Place(t)
    BY <1>10, BlockMoves DEF Thread, InFlight
  <2>3. High' = High
    BY <1>3, <1>10
  <2>4. \A k \in Int : Pending(k)' <=> Pending(k)
    BY <1>4, <2>1, <2>2 DEF Pending
  <2>5. \A u \in Threads : Writing(u)' => /\ Writing(u) /\ Place(u)' = Place(u)
                                          /\ (pc'[u] = "next" <=> pc[u] = "next")
    BY <1>4, <2>1, <2>2 DEF InFlight
  <2>6. \A u \in Threads : Writing(u)' => Place(u)' = IF pc'[u] = "next" THEN low - 1 ELSE low
    BY <2>5 DEF Written
  <2>7. Written(low)'
    BY <1>2, <2>1, <2>3, <2>4, <2>6 DEF Written
  <2> QED BY <2>3, <2>7
<1> QED BY <1>6, <1>7, <1>8, <1>9, <1>10

LEMMA OrderStep ==
  ASSUME IInv, [Next]_vars
  PROVE  OrderInv'
<1> USE DEF constVars, mainVars, threadVars, turnVars, csVars, streamVars, endVars
<1>1. TypeOK /\ TypeThreads /\ OrderInv /\ faults \in Nat
  BY DEF IInv, TypeOK, TypeMain
<1>2. NWhole' = NWhole /\ NumBlocks' = NumBlocks /\ \A k : BlockAt(k)' = BlockAt(k)
  BY SizesStay
<1>3. CASE UNCHANGED <<ready, my, writeIndex, out, index, stopReading, blockIndex>>
           /\ (Clean' => Clean)
           /\ \/ pc' = pc
              \/ \A u \in Threads : ~InFlight(u) /\ ~InFlight(u)'
  <2>1. High' = High
    BY <1>2, <1>3 DEF High
  <2>2. \A u \in Threads : /\ InFlight(u)' <=> InFlight(u)
                           /\ Writing(u)' <=> Writing(u)
                           /\ InFlight(u) => Place(u)' = Place(u)
                                             /\ (pc'[u] = "next" <=> pc[u] = "next")
    BY <1>3 DEF InFlight, Coding, Writing, Place
  <2>3. \A k \in Int : Pending(k)' <=> Pending(k)
    BY <1>3, <2>2 DEF Pending
  <2>4. ASSUME NEW low, Written(low) PROVE Written(low)'
    BY <1>2, <1>3, <2>1, <2>2, <2>3, <2>4 DEF Written, InFlight
  <2> QED BY <1>1, <1>2, <1>3, <2>1, <2>4 DEF OrderInv
<1>4. CASE UNCHANGED vars
  BY <1>3, <1>4 DEF vars, Clean, Live
<1>5. CASE Caller
  <2>1. Clean' => Clean
    BY <1>1, <1>5 DEF Caller, Open, First, Serial, Wait, WriteFooter, Stop, Join, Return, Clean,
                      Live, Works, Fails
  <2>2. CASE First
    <3>1. \A u \in Threads : ~InFlight(u) /\ ~InFlight(u)'
      BY <1>1, <2>2 DEF First, Starts, Goto, IInv, CountInv, Live, TypeThreads, InFlight, Coding,
                        Writing
    <3>2. UNCHANGED <<ready, my, writeIndex, out, index, stopReading, blockIndex>>
      BY <2>2 DEF First
    <3> QED BY <1>3, <2>1, <3>1, <3>2
  <2>3. CASE Serial
    BY <2>3 DEF Serial, OrderInv, Clean, Live
  <2>4. CASE ~First /\ ~Serial
    <3>1. UNCHANGED <<pc, ready, my, writeIndex, out, index, stopReading, blockIndex>>
      BY <1>5, <2>4 DEF Caller, Open, Wait, WriteFooter, Stop, Join, Return
    <3> QED BY <1>3, <2>1, <3>1
  <2> QED BY <2>2, <2>3, <2>4
<1>6. ASSUME NEW t \in Threads, Thread(t), Clean' PROVE OrderInv'
  <2>1. \E low \in 0 .. High : Written(low)
    BY <1>1, <1>6, CleanBefore DEF OrderInv
  <2>2. \E l \in 0 .. High' : Written(l)'
    BY <1>6, <2>1, WrittenStep
  <2> QED BY <1>6, <2>2, StopStep DEF OrderInv
<1>7. CASE ~Clean'
  BY <1>7 DEF OrderInv
<1> QED BY <1>4, <1>5, <1>6, <1>7 DEF Next, Done

-----------------------------------------------------------------------------
(* The answer *)

\* An error that a thread has seen is not forgotten.
LEMMA ErrorsStay ==
  ASSUME IInv, NEW t \in Threads, Thread(t)
  PROVE  /\ progress # "ok" => progress' # "ok"
         /\ readRes # "ok" => readRes' # "ok"
         /\ writeRes # "ok" => writeRes' # "ok"
         /\ faults' # faults => progress' # "ok"
<1>1. TypeOK /\ faults \in Nat
  BY DEF IInv, TypeOK, TypeMain
<1>2. CASE ReadBlock(t)
  BY <1>2 DEF ReadBlock, Works, Fails
<1>3. CASE HandOn(t)
  BY <1>1, <1>3, HandOnDoes DEF HandOn, Works, Fails
<1>4. CASE Code(t)
  BY <1>1, <1>4 DEF Code, Works, Fails, turnVars
<1>6. CASE Write(t)
  BY <1>1, <1>6 DEF Write, Works, Fails, turnVars
<1>5. CASE ~(ReadBlock(t) \/ HandOn(t) \/ Code(t) \/ Write(t))
  BY <1>5 DEF Thread, turnVars, Begin, TurnOver, TakeBuffer, Publish, NextBlock, Release, Finish,
              Compare
<1> QED BY <1>2, <1>3, <1>4, <1>5, <1>6

\* When the event is set and nothing has failed, the whole document is written.
LEMMA AllWritten ==
  ASSUME IInv, main = "wait", finishedEvent, faults = 0
  PROVE  out = Whole /\ index = out
<1>1. Live /\ Clean /\ TypeOK /\ TypeThreads /\ TypeRing /\ TypeOut
  BY DEF IInv, TypeOK, Live, Clean
<1>2. ASSUME NEW t \in Threads PROVE pc[t] \in {"none", "compare", "start"}
  BY <1>1 DEF IInv, CountInv, Counted
<1>3. \A t \in Threads : ~InFlight(t) /\ ~Writing(t)
  BY <1>2 DEF InFlight, Coding, Writing
<1>4. stopReading
  <2>1. 1 \in Threads /\ 1 <= numStarted
    BY <1>1, MtCoderAssumption DEF IInv, CountInv, TypeThreads, TypeOK, TypeMain, Threads
  <2>2. Counted(1)
    BY <1>1, <2>1 DEF IInv, CountInv
  <2> QED BY <1>1, <2>1, <2>2 DEF IInv, ContentInv, Good
<1>5. PICK low \in 0 .. High : Written(low)
  BY <1>1 DEF IInv, OrderInv
<1>6. NWhole <= High /\ NWhole \in Nat /\ High \in Nat /\ High <= NumBlocks /\ NumBlocks \in Nat
  BY <1>1, <1>4, WholeType, Sizing
     DEF IInv, OrderInv, High, TypeOK, TypeMain, TypeRead, Ring
<1>7. low = High
  <2> SUFFICES ASSUME low < High PROVE FALSE
    BY <1>5, <1>6
  <2>1. low \in ready
    BY <1>3, <1>5, <1>6 DEF Written, Pending
  <2>2. writeIndex # None
    BY <1>1, <1>3 DEF IInv, PlaceInv
  <2>3. writeIndex = low
    BY <1>5, <1>6, <2>2 DEF Written
  <2> QED BY <1>1, <2>1, <2>3 DEF IInv, PlaceInv
<1>8. /\ index = out /\ Len(out) = NWhole
      /\ \A k \in 1 .. NWhole : out[k] = BlockAt(k - 1)
  BY <1>5, <1>6, <1>7 DEF Written
<1>9. /\ Whole \in Seq(BlockType) /\ Len(Whole) = NWhole
      /\ \A k \in 1 .. NWhole : Whole[k] = BlockAt(k - 1)
  BY <1>1, WholeType
<1>10. out \in Seq(BlockType) /\ Len(out) = Len(Whole) /\ \A k \in 1 .. Len(out) : out[k] = Whole[k]
  BY <1>1, <1>8, <1>9 DEF TypeOut
<1>11. out = Whole
  BY <1>9, <1>10, SeqEqual
<1> QED BY <1>8, <1>11

LEMMA AnswerStep ==
  ASSUME IInv, [Next]_vars
  PROVE  AnswerInv'
<1> USE DEF constVars, mainVars, threadVars, turnVars, csVars, streamVars, endVars, Works, Fails
<1>1. TypeOK /\ AnswerInv /\ faults \in Nat /\ nthread \in Nat \ {0}
  BY Sizing DEF IInv, TypeOK, TypeMain
<1>2. inputsize' = inputsize /\ nthread' = nthread /\ Whole' = Whole
  BY SizesStay
<1>3. CASE UNCHANGED vars
  BY <1>1, <1>2, <1>3 DEF vars, AnswerInv, OutIsWhole
<1>4. CASE Open
  BY <1>1, <1>2, <1>4 DEF Open, AnswerInv
<1>5. CASE Serial
  <2>1. main = "serial" /\ faults = 0 /\ nthread = 1
    BY <1>1, <1>5 DEF Serial, AnswerInv
  <2>2. CASE faults' = faults
    <3>1. main' = "footer" /\ index' = out'
          /\ out' \in {Whole, Append(Whole, [at |-> inputsize, len |-> 0])}
      BY <1>1, <1>5, <2>2 DEF Serial
    <3> QED BY <1>2, <2>1, <2>2, <3>1 DEF AnswerInv, OutIsWhole
  <2>3. CASE faults' # faults
    BY <1>1, <1>5, <2>3 DEF Serial, AnswerInv
  <2> QED BY <2>2, <2>3
<1>6. CASE First
  BY <1>1, <1>2, <1>6 DEF First, AnswerInv
<1>7. CASE Wait
  <2>1. main = "wait" /\ finishedEvent /\ UNCHANGED <<out, index, faults>>
    BY <1>7 DEF Wait
  <2>2. CASE readRes = "ok" /\ progress = "ok" /\ writeRes = "ok"
    <3>1. main' = "footer" /\ faults = 0
      BY <1>1, <1>7, <2>1, <2>2 DEF Wait, AnswerInv
    <3>2. out = Whole /\ index = out
      BY <2>1, <3>1, AllWritten
    <3> QED BY <1>2, <2>1, <3>1, <3>2 DEF AnswerInv, OutIsWhole
  <2>3. CASE ~(readRes = "ok" /\ progress = "ok" /\ writeRes = "ok")
    <3>1. main' = "stop" /\ rc' = "error"
      BY <1>7, <2>3 DEF Wait
    <3>2. faults > 0
      BY <1>1, <2>1, <2>3 DEF IInv, ContentInv, Clean, Live
    <3> QED BY <2>1, <3>1, <3>2 DEF AnswerInv
  <2> QED BY <2>2, <2>3
<1>8. CASE WriteFooter
  <2>1. faults = 0 /\ OutIsWhole /\ UNCHANGED <<out, index>> /\ main' = "stop"
    BY <1>1, <1>8 DEF WriteFooter, AnswerInv
  <2>2. \/ faults' = 0 /\ ended' = TRUE /\ rc' = "ok"
        \/ faults' = 1 /\ rc' = "error"
    BY <1>8, <2>1 DEF WriteFooter
  <2> QED BY <1>2, <2>1, <2>2 DEF AnswerInv, OutIsWhole
<1>9. CASE Stop \/ Join \/ Return
  <2>1. /\ main \in {"stop", "join"} /\ main' \in {"stop", "join", "done"}
        /\ UNCHANGED <<rc, ended, faults, out, index>>
    BY <1>9 DEF Stop, Join, Return
  <2> QED BY <1>1, <1>2, <2>1 DEF AnswerInv, OutIsWhole
<1>10. ASSUME NEW t \in Threads, Thread(t), Live PROVE AnswerInv'
  <2>1. main = "wait" /\ main' = "wait"
    BY <1>10, AtWork
  <2>2. faults > 0 => ~(readRes = "ok" /\ progress = "ok" /\ writeRes = "ok")
    BY <1>1, <2>1 DEF AnswerInv
  <2>3. faults' > 0 => ~(readRes' = "ok" /\ progress' = "ok" /\ writeRes' = "ok")
    BY <1>1, <1>10, <2>2, ErrorsStay
  <2> QED BY <1>1, <1>2, <2>1, <2>3 DEF AnswerInv
<1>11. ASSUME NEW t \in Threads, Thread(t), ~Live PROVE AnswerInv'
  <2>1. Begin(t) \/ Compare(t)
    BY <1>11 DEF IInv, QuietInv, Thread, TurnOver, ReadBlock, HandOn, TakeBuffer, Code, Publish,
                 Write, NextBlock, Release, Finish
  <2>2. UNCHANGED <<main, rc, ended, faults, out, index, progress, readRes, writeRes>>
    BY <2>1 DEF Begin, Compare
  <2> QED BY <1>1, <1>2, <2>2 DEF AnswerInv, OutIsWhole
<1> QED BY <1>3, <1>4, <1>5, <1>6, <1>7, <1>8, <1>9, <1>10, <1>11 DEF Next, Caller, Done

-----------------------------------------------------------------------------
(* Theorems *)

\* The invariant holds whatever the threads do and whatever fails.
THEOREM Invariance == Spec => []IInv
<1>1. Init => IInv
  BY InitInv
<1>2. ASSUME IInv, [Next]_vars PROVE IInv'
  BY <1>2, TypeStep, CountStep, TurnStep, QuietStep, ReadStep, PlaceStep, BufferStep, ContentStep,
     OrderStep, AnswerStep DEF IInv
<1> QED BY <1>1, <1>2, PTL DEF Spec

\* xzCompress answers 0 exactly when nothing failed, and then with the whole document in order.
THEOREM WholeOrErrorHolds == Spec => []WholeOrError
<1>1. IInv => WholeOrError
  <2> SUFFICES ASSUME IInv, main = "done" PROVE WholeOrError
    BY DEF WholeOrError
  <2> QED BY DEF IInv, AnswerInv, OutIsWhole, WholeOrError
<1> QED BY <1>1, Invariance, PTL

\* No thread touches the stream or a buffer when MtCoder_Code has passed its wait.
THEOREM QuietAtEndHolds == Spec => []QuietAtEnd
<1>1. IInv => QuietAtEnd
  BY DEF IInv, QuietInv, QuietAtEnd, Live
<1> QED BY <1>1, Invariance, PTL

\* The thread that has the turn finds a place in the ring.
THEOREM TurnNeverWaitsHolds == Spec => []TurnNeverWaits
<1>1. IInv => TurnNeverWaits
  <2> SUFFICES ASSUME IInv, NEW t \in Threads, pc[t] = "reserve" PROVE sem > 0
    BY DEF TurnNeverWaits
  <2>1. Live /\ ~stopReading
    BY DEF IInv, QuietInv, TurnInv
  <2>2. sem >= NumBlocks - blockIndex
    BY <2>1 DEF IInv, ReadInv
  <2>3. NumBlocks \in Nat /\ sem \in Int /\ blockIndex \in 0 .. (NumBlocks - 1)
    BY Sizing DEF IInv, TypeOK, TypeMain, TypeRead, Ring
  <2> QED BY <2>2, <2>3
<1> QED BY <1>1, Invariance, PTL

\* Every output buffer is free, one thread's or one finished block's.
THEOREM BuffersApartHolds == Spec => []BuffersApart
<1>1. IInv => BuffersApart
  <2> SUFFICES ASSUME IInv, main = "wait" PROVE BuffersApart
    BY DEF BuffersApart
  <2>1. Live /\ TypeOK /\ TypeMy /\ TypeRing /\ PlaceInv /\ BufferInv /\ None \notin Ring
    BY RingAndRead DEF IInv, TypeOK, Live
  <2> DEFINE free == {freeList[i] : i \in 1 .. Len(freeList)}
             stored == {blocks[b].bufIndex : b \in Waiting} \ {None}
             held == UNION {HeldBy(t) : t \in Threads}
  <2>2. \A x : x \in free <=> Free(x)
    BY DEF Free
  <2>3. \A t \in Threads : \A x : x \in HeldBy(t) =>
          x # None /\ x = Holds(t) /\ pc[t] \in {"code", "publish", "write", "next"}
    BY DEF HeldBy, Holds
  <2>4. ASSUME NEW x \in stored
        PROVE  /\ x # None
               /\ \/ \E b \in ready : x = blocks[b].bufIndex
                  \/ \E t \in Threads : x = Holds(t) /\ pc[t] = "release"
    BY DEF Waiting, Holds
  <2>5. \A x \in held : \E t \in Threads : x \in HeldBy(t)
    OBVIOUS
  <2>6. ASSUME NEW t \in Threads, Holds(t) # None PROVE Holds(t) \in held \cup stored
    BY <2>6 DEF HeldBy, Holds, Waiting
  <2>7. ASSUME NEW b \in ready, blocks[b].bufIndex # None PROVE blocks[b].bufIndex \in stored
    BY <2>7 DEF Waiting
  <2>8. \A t, u \in Threads : t # u => HeldBy(t) \cap HeldBy(u) = {}
    BY <2>1, <2>3 DEF BufferInv
  <2>9. free \subseteq Ring
    BY <2>1 DEF TypeRing
  <2>10. held \subseteq Ring
    BY <2>1, <2>3, <2>5 DEF HeldBy, TypeMy, LocalType
  <2>11. stored \subseteq Ring
    <3>1. \A b \in Ring : blocks[b].bufIndex \in Ring \cup {None}
      BY <2>1 DEF TypeRing, RecordType
    <3>2. \A t \in Threads : my[t].wi \in Ring
      BY <2>1 DEF TypeMy, LocalType
    <3>3. Waiting \subseteq Ring
      BY <2>1, <3>2 DEF Waiting, TypeRing
    <3> QED BY <3>1, <3>3
  <2> HIDE DEF free, stored, held
  <2>12. free \cap held = {}
    BY <2>1, <2>2, <2>3, <2>5 DEF BufferInv
  <2>13. free \cap stored = {}
    BY <2>1, <2>2, <2>4 DEF BufferInv
  <2>14. held \cap stored = {}
    BY <2>1, <2>3, <2>4, <2>5 DEF BufferInv
  <2>15. Ring \subseteq free \cup held \cup stored
    BY <2>1, <2>2, <2>6, <2>7 DEF BufferInv
  <2>16. \A t \in Threads : pc[t] = "take" => freeList # <<>>
    BY <2>1, BufferThere
  <2>17. \A t, u \in Threads : pc[t] \in {"write", "next"} /\ pc[u] \in {"write", "next"} => t = u
    BY <2>1 DEF PlaceInv, Writing
  <2>18. free \cup held \cup stored = Ring
    BY <2>9, <2>10, <2>11, <2>15
  <2> QED BY <2>8, <2>12, <2>13, <2>14, <2>16, <2>17, <2>18
          DEF BuffersApart, free, held, stored
<1> QED BY <1>1, Invariance, PTL
=============================================================================
