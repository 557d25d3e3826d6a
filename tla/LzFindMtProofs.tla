--------------------------- MODULE LzFindMtProofs ---------------------------
(***************************************************************************)
(* Proofs about LzFindMt, for any sizes of the rings, the window and the    *)
(* document.                                                                *)
(*                                                                          *)
(* The inductive invariant says where the three threads can be together,    *)
(* and what the two counts of a ring say about its indices.  The filled      *)
(* blocks of a ring are then a queue, each beginning where the one before    *)
(* it ends, and a thread is behind the one ahead of it by no more than the   *)
(* blocks between them: this is what the window has to keep.                *)
(***************************************************************************)
EXTENDS LzFindMt, TLAPS

LzLabels == {"header", "alone", "create", "ask", "wait", "encode", "stop", "stopping", "footer",
             "exit", "join", "done"}
BtLabels == {"none", "start", "free", "lock", "fill", "wait", "end", "stop", "stopping",
             "stopped", "gone"}
HashLabels == {"none", "start", "loop", "move", "read", "stopped", "gone"}

SyncType == [needStart : BOOLEAN, stopWriting : BOOLEAN, exit : BOOLEAN, canStart : BOOLEAN,
             wasStopped : BOOLEAN, free : Nat, filled : Nat, numProcessed : Nat]
BlockType == [at : Nat \cup {None}, n : Nat, avail : Nat]

TypeInv ==
  /\ size \in Sizes /\ nthread \in {1, 2} /\ res \in {"ok", "error"} /\ faults \in Nat
  /\ pc \in [Threads -> LzLabels \cup BtLabels \cup HashLabels]
  /\ pc["lz"] \in LzLabels /\ pc["bt"] \in BtLabels /\ pc["hash"] \in HashLabels
  /\ sync \in [Syncs -> SyncType]
  /\ base \in Nat /\ streamPos \in Nat /\ streamEnd \in BOOLEAN
  /\ pos \in Nat /\ hashBuf \in [0 .. HashBlocks - 1 -> BlockType] /\ hashIndex \in 0 .. HashBlocks - 1
  /\ btPos \in Nat /\ btPtr \in Int /\ hashLeft \in Nat /\ hashAvail \in Nat
  /\ hashBi \in 0 .. HashBlocks - 1
  /\ d \in [at : Nat, n : Nat, avail : Nat, words : Nat]
  /\ btBuf \in [0 .. BtBlocks - 1 -> BlockType] /\ btIndex \in 0 .. BtBlocks - 1
  /\ lzPos \in Nat /\ lzPtr \in Int /\ btBi \in 0 .. BtBlocks - 1 /\ footed \in Int

-----------------------------------------------------------------------------
(* Where the threads are *)

BtAsked == ~sync["bt"].needStart
HashAsked == ~sync["hash"].needStart
BtRuns == pc["bt"] \in {"free", "lock", "fill", "wait", "end"}

\* Before the encoder asks for its first block
BtFresh == sync["bt"] = Fresh(BtBlocks) /\ btIndex = 0 /\ lzPos = 0 /\ pc["bt"] \in {"none", "start"}

\* Before the bt thread asks for its first block
HashFresh ==
  /\ sync["hash"] = Fresh(HashBlocks) /\ hashIndex = 0 /\ pos = 0 /\ btPos = 0 /\ hashLeft = 0
  /\ hashAvail = 0 /\ streamPos = 0 /\ ~streamEnd /\ base = 0 /\ pc["hash"] \in {"none", "start"}

\* The caller
LzInv ==
  /\ pc["lz"] \in {"header", "alone", "create"} \/ (pc["lz"] = "ask" /\ ~BtAsked) => BtFresh /\ HashFresh
  /\ pc["lz"] \in {"header", "alone", "create", "done"} => pc["bt"] = "none" /\ pc["hash"] = "none"
  /\ pc["lz"] = "alone" => nthread = 1
  /\ nthread = 1 => /\ pc["lz"] \in {"header", "alone", "footer", "done"}
                    /\ pc["bt"] = "none" /\ pc["hash"] = "none"
  /\ pc["lz"] \in {"ask", "wait", "encode", "stop", "stopping"} =>
       /\ nthread = 2 /\ pc["bt"] \notin {"none", "gone"} /\ pc["hash"] \notin {"none", "gone"}
  /\ pc["lz"] = "footer" /\ nthread = 2 =>
       pc["bt"] = "start" /\ pc["hash"] = "start" /\ ~sync["bt"].canStart /\ ~sync["hash"].canStart
  /\ pc["lz"] = "exit" =>
       /\ pc["bt"] \in {"none", "start"} /\ pc["hash"] \in {"none", "start"}
       /\ pc["bt"] = "start" => pc["hash"] = "start"
       /\ ~sync["bt"].canStart /\ ~sync["hash"].canStart
  /\ pc["lz"] = "join" =>
       /\ pc[Leaving] \in {"start", "gone"}
       /\ pc[Leaving] = "start" => sync[Leaving].canStart /\ sync[Leaving].exit
       /\ pc[Leaving] = "gone" => ~sync[Leaving].canStart
       /\ IF pc["bt"] = "none" THEN ~sync["bt"].canStart
          ELSE pc["hash"] = "start" /\ ~sync["hash"].canStart

\* The bt thread and its ring, while the caller is at work
BtInv ==
  pc["lz"] \in {"ask", "wait", "encode", "stop", "stopping"} =>
    /\ pc["lz"] # "ask" => BtAsked
    /\ BtAsked => ~sync["bt"].exit
    /\ sync["bt"].canStart => pc["bt"] = "start" /\ pc["lz"] = "wait" /\ HashFresh
                              /\ sync["bt"].filled = 0 /\ btIndex = 0 /\ lzPos = 0 /\ btBi = 0
    /\ sync["bt"].wasStopped => pc["bt"] = "start" /\ ~sync["bt"].canStart /\ pc["lz"] = "stopping"
    /\ BtAsked /\ pc["bt"] = "start" => sync["bt"].canStart \/ sync["bt"].wasStopped
    /\ pc["bt"] \in {"stop", "stopping", "stopped"} \/ (BtAsked /\ sync["bt"].stopWriting)
         => pc["lz"] = "stopping"
    /\ pc["lz"] = "stopping" => sync["bt"].stopWriting

\* The hash thread and its ring
HashInv ==
  /\ ~HashAsked /\ pc["bt"] \in {"free", "lock", "fill"} => HashFresh
  /\ ~HashAsked /\ pc["lz"] # "join" => ~sync["hash"].canStart
  /\ ~HashAsked => pc["hash"] \in {"none", "start", "gone"}
  /\ HashAsked =>
       /\ BtRuns \/ pc["bt"] \in {"stop", "stopping"}
       /\ pc["lz"] \in {"wait", "encode", "ask", "stop", "stopping"}
       /\ ~sync["hash"].exit
       /\ pc["hash"] = "start" => sync["hash"].canStart \/ sync["hash"].wasStopped
  /\ pc["bt"] \in {"wait", "end", "stopping"} => HashAsked
  /\ pc["bt"] = "stopping" => sync["hash"].stopWriting
  /\ HashAsked /\ sync["hash"].canStart => /\ pc["hash"] = "start" /\ pc["bt"] = "wait"
                                            /\ sync["hash"].filled = 0
  /\ sync["hash"].wasStopped => pc["hash"] = "start" /\ ~sync["hash"].canStart /\ pc["bt"] = "stopping"
  /\ pc["hash"] = "stopped" \/ (HashAsked /\ sync["hash"].stopWriting) => pc["bt"] = "stopping"

CtrlInv == LzInv /\ BtInv /\ HashInv


-----------------------------------------------------------------------------
(* The document and the window *)

StreamInv ==
  /\ pos <= streamPos /\ streamPos <= size /\ (streamEnd => streamPos = size)
  /\ nthread = 2 => streamPos <= base + Window /\ lzPtr = lzPos - base /\ btPtr = btPos - base
  /\ pc["hash"] = "read" => ~NeedMove
  /\ pc["hash"] = "move" => NeedMove

-----------------------------------------------------------------------------
(* The two rings *)

\* The place j behind place i of a ring of k
Place(i, j, k) == IF i + j < k THEN i + j ELSE i + j - k

\* The hash block the bt thread has, the one the hash thread fills, and the blocks between
HashHeld == IF HashAsked /\ pc["bt"] # "wait" THEN 1 ELSE 0
HashFilling == IF pc["hash"] = "read" THEN 1 ELSE 0
HashReady == HashHeld + sync["hash"].filled
HashItem(j) == hashBuf[Place(hashBi, j, HashBlocks)]
HashAt(j) == IF j < HashReady THEN HashItem(j).at ELSE pos

HashCount ==
  /\ HashReady + HashFilling <= HashBlocks
  /\ HashAsked /\ pc["bt"] # "stopping" => sync["hash"].free + HashReady + HashFilling <= HashBlocks
  /\ HashAsked => /\ hashIndex = Place(hashBi, HashReady, HashBlocks)
                  /\ sync["hash"].numProcessed = Place(hashBi, 1, HashBlocks)

\* How far a hash block leads: the last bytes of the document have no heads.
Adv(h) == IF h.avail < NumHash THEN h.avail ELSE h.n

\* The blocks follow one another, and between one of them and the hash thread is no more
\* than the blocks there hold.
HashLink(j) ==
  LET h == HashItem(j)
  IN  /\ h.at # None /\ h.n = Heads(h.avail) /\ h.at + h.avail <= streamPos
      /\ HashAt(j + 1) = h.at + Adv(h)
      /\ h.avail < NumHash => streamEnd /\ h.at + h.avail = size
      /\ ~streamEnd => pos - h.at <= (HashReady - j) * HashBlock

HashRing == BtRuns => \A j \in 0 .. HashReady - 1 : HashLink(j)

\* Where the bt thread goes on; the last bytes do not move its pointer.
BtNext == HashAt(HashHeld) - hashLeft

BtPlace ==
  BtRuns =>
    /\ \/ BtNext = btPos
       \/ BtNext = size /\ streamPos = size /\ streamEnd /\ hashLeft = 0 /\ hashAvail = 0
    /\ hashLeft <= HashBlock /\ hashLeft <= hashAvail /\ btPos + hashAvail <= streamPos
    /\ pc["bt"] = "wait" => hashLeft = 0

\* The heads that are left are those of the block it looks at.
LeftInv ==
  hashLeft > 0 => hashBuf[hashBi].at # None /\ hashBuf[hashBi].at + hashBuf[hashBi].n - hashLeft = btPos

\* The block of matches it fills
Filling == pc["bt"] \in {"fill", "wait", "end"}
BtFrom == BtNext - (IF Filling THEN d.n ELSE 0)

FillInv ==
  /\ d.words <= BtBlock
  /\ Filling =>
       /\ d.avail = d.n + hashAvail /\ d.n <= d.words /\ (d.n > 0 => d.at = BtFrom)
       /\ pc["bt"] # "end" => d.at = btPos - d.n /\ (d.n > 0 => BtNext = btPos)
       /\ d.words = 2 \/ d.n > 0 \/ pc["bt"] = "end"
       /\ pc["bt"] = "wait" => d.words < Limit
       /\ pc["bt"] = "end" => BtNext = size /\ hashAvail = 0 /\ streamEnd

\* The blocks of matches, from the one the encoder has or asks for
LzRuns == pc["lz"] \in {"wait", "encode"} \/ (pc["lz"] = "ask" /\ BtAsked)
BtHeld == IF pc["lz"] \in {"ask", "encode"} /\ BtAsked THEN 1 ELSE 0
BtFilling == IF pc["bt"] \in {"lock", "fill", "wait", "end"} THEN 1 ELSE 0
BtHead == IF pc["lz"] = "ask" /\ BtAsked THEN Place(btBi, 1, BtBlocks) ELSE btBi
BtReady == (IF pc["lz"] = "encode" THEN 1 ELSE 0) + sync["bt"].filled
BtItem(j) == btBuf[Place(BtHead, j, BtBlocks)]

BtCount ==
  /\ sync["bt"].filled + BtFilling <= BtBlocks
  /\ BtAsked /\ pc["lz"] # "stopping" =>
       sync["bt"].free + sync["bt"].filled + BtHeld + BtFilling <= BtBlocks
  /\ LzRuns =>
       /\ btIndex = Place(BtHead, BtReady, BtBlocks)
       /\ sync["bt"].numProcessed = Place(btBi, 1, BtBlocks)

\* Where the block j behind it begins, and whether there is one with bytes before it
Due(j) == IF j = 0 THEN lzPos ELSE BtItem(j - 1).at + BtItem(j - 1).n
Goes(j) == j = 0 \/ BtItem(j - 1).avail > 0

BtLink(j) ==
  LET b == BtItem(j)
  IN  /\ b.at # None /\ b.n <= b.avail
      /\ b.avail = 0 => streamEnd /\ streamPos = size
      /\ Goes(j) => IF b.avail = 0 THEN Due(j) = size
                    ELSE b.at = Due(j) /\ b.at + b.avail <= streamPos
      /\ ~streamEnd => BtFrom - b.at <= (BtReady - j) * BtBlock

BtRing ==
  LzRuns =>
    /\ Goes(BtReady) => Due(BtReady) = BtFrom
    /\ ~streamEnd => BtFrom - lzPos <= BtReady * BtBlock
    /\ \A j \in 0 .. BtReady - 1 : BtLink(j)

\* What the encoder and the bt thread need of what is behind them is in the window.
BehindInv ==
  /\ LzRuns => base = 0 \/ base + History + Opts <= lzPos
  /\ BtRuns => base = 0 \/ base + History <= btPos

-----------------------------------------------------------------------------
\* The answer
AnswerInv ==
  /\ res = "ok" <=> faults = 0
  /\ res = "ok" /\ pc["lz"] \in {"stop", "stopping", "footer", "exit", "join"} =>
       lzPos = size /\ streamPos = size
  /\ res = "ok" /\ pc["lz"] \in {"exit", "join", "done"} => footed = size /\ lzPos = size

IInv ==
  /\ TypeInv /\ CtrlInv /\ StreamInv
  /\ HashCount /\ HashRing /\ BtPlace /\ LeftInv /\ FillInv
  /\ BtCount /\ BtRing /\ BehindInv /\ AnswerInv


-----------------------------------------------------------------------------
(* The operations on a ring *)

LEMMA RingSizes == \A s \in Syncs : Blocks(s) \in Nat \ {0}
BY LzFindMtAssumption DEF Syncs, Blocks

\* Within the count it was created with, a semaphore counts.
LEMMA ReleasedIs ==
  ASSUME NEW s \in Syncs, NEW n \in Nat
  PROVE  Released(n, s) \in Nat /\ Released(n, s) <= n + 1 /\ (n < Blocks(s) => Released(n, s) = n + 1)
BY RingSizes DEF Released

LEMMA FreshType == \A s \in Syncs : Fresh(Blocks(s)) \in SyncType
BY RingSizes DEF Fresh, SyncType

LEMMA AskNextDoes ==
  ASSUME TypeInv, NEW t \in Threads, NEW s \in Syncs, NEW label, AskNext(t, s, label)
  PROVE  /\ pc' = [pc EXCEPT ![t] = label]
         /\ sync' \in [Syncs -> SyncType]
         /\ \A u \in Syncs : u # s => sync'[u] = sync[u]
         /\ ~sync'[s].needStart /\ sync'[s].filled = sync[s].filled
         /\ sync[s].needStart =>
              /\ sync'[s].free = sync[s].free /\ sync'[s].numProcessed = 1 % Blocks(s)
              /\ sync'[s].canStart /\ ~sync'[s].exit /\ ~sync'[s].wasStopped /\ ~sync'[s].stopWriting
         /\ ~sync[s].needStart =>
              /\ sync'[s].free = Released(sync[s].free, s)
              /\ sync'[s].numProcessed = (sync[s].numProcessed + 1) % Blocks(s)
              /\ sync'[s].canStart = sync[s].canStart /\ sync'[s].exit = sync[s].exit
              /\ sync'[s].wasStopped = sync[s].wasStopped
              /\ sync'[s].stopWriting = sync[s].stopWriting
<1>1. sync \in [Syncs -> SyncType] /\ sync[s] \in SyncType
  BY DEF TypeInv
<1>2. Blocks(s) \in Nat \ {0}
  BY RingSizes
<1>3. 1 % Blocks(s) \in Nat /\ (sync[s].numProcessed + 1) % Blocks(s) \in Nat
  BY <1>1, <1>2 DEF SyncType
<1>4. Released(sync[s].free, s) \in Nat
  BY <1>1, ReleasedIs DEF SyncType
<1>5. pc' = [pc EXCEPT ![t] = label]
  BY DEF AskNext, Goto
<1>6. CASE sync[s].needStart
  <2>1. sync' = [sync EXCEPT ![s] = [sync[s] EXCEPT !.needStart = FALSE, !.stopWriting = FALSE, !.exit = FALSE,
                                       !.wasStopped = FALSE, !.canStart = TRUE,
                                       !.numProcessed = 1 % Blocks(s)]]
    BY <1>1, <1>6 DEF AskNext
  <2> QED BY <1>1, <1>3, <1>5, <1>6, <2>1 DEF SyncType
<1>7. CASE ~sync[s].needStart
  <2> DEFINE next == (sync[s].numProcessed + 1) % Blocks(s)
             after == [sync[s] EXCEPT !.free = Released(sync[s].free, s), !.numProcessed = next]
  <2>1. sync' = [sync EXCEPT ![s] = IF sync[s].needStart
                                      THEN [sync[s] EXCEPT !.needStart = FALSE, !.stopWriting = FALSE,
                                              !.exit = FALSE, !.wasStopped = FALSE,
                                              !.canStart = TRUE, !.numProcessed = 1 % Blocks(s)]
                                      ELSE after]
    BY <1>1 DEF AskNext
  <2>2. sync' = [sync EXCEPT ![s] = after]
    <3> HIDE DEF after
    <3> QED BY <1>7, <2>1, Zenon
  <2>3. next \in Nat
    BY <1>3
  <2> HIDE DEF next
  <2>4. /\ sync' \in [Syncs -> SyncType] /\ \A u \in Syncs : u # s => sync'[u] = sync[u]
        /\ ~sync'[s].needStart /\ sync'[s].filled = sync[s].filled
        /\ sync'[s].free = Released(sync[s].free, s) /\ sync'[s].numProcessed = next
        /\ sync'[s].canStart = sync[s].canStart /\ sync'[s].exit = sync[s].exit
        /\ sync'[s].wasStopped = sync[s].wasStopped
        /\ sync'[s].stopWriting = sync[s].stopWriting
    BY <1>1, <1>4, <1>7, <2>2, <2>3 DEF SyncType
  <2> QED BY <1>5, <1>7, <2>4 DEF next
<1> QED BY <1>6, <1>7

\* What the flags of a ring are
SameFlags(s) ==
  /\ sync'[s].needStart = sync[s].needStart /\ sync'[s].stopWriting = sync[s].stopWriting
  /\ sync'[s].exit = sync[s].exit /\ sync'[s].canStart = sync[s].canStart
  /\ sync'[s].wasStopped = sync[s].wasStopped

LEMMA TakeNextDoes ==
  ASSUME TypeInv, NEW t \in Threads, NEW s \in Syncs, NEW label, TakeNext(t, s, label)
  PROVE  /\ pc' = [pc EXCEPT ![t] = label]
         /\ sync' \in [Syncs -> SyncType]
         /\ \A u \in Syncs : u # s => sync'[u] = sync[u]
         /\ SameFlags(s) /\ sync'[s].free = sync[s].free
         /\ sync'[s].numProcessed = sync[s].numProcessed
         /\ sync[s].filled > 0 /\ sync'[s].filled = sync[s].filled - 1
<1>1. sync \in [Syncs -> SyncType] /\ sync[s] \in SyncType
  BY DEF TypeInv
<1>2. /\ sync' = [sync EXCEPT ![s] = [sync[s] EXCEPT !.filled = sync[s].filled - 1]]
      /\ sync[s].filled > 0 /\ pc' = [pc EXCEPT ![t] = label]
  BY <1>1 DEF TakeNext, Goto
<1> QED BY <1>1, <1>2 DEF SyncType, SameFlags

LEMMA AskStopDoes ==
  ASSUME TypeInv, NEW t \in Threads, NEW s \in Syncs, NEW label, AskStop(t, s, label)
  PROVE  /\ pc' = [pc EXCEPT ![t] = label]
         /\ sync' \in [Syncs -> SyncType]
         /\ \A u \in Syncs : u # s => sync'[u] = sync[u]
         /\ sync'[s].stopWriting /\ sync'[s].free = Released(sync[s].free, s)
         /\ sync'[s].needStart = sync[s].needStart /\ sync'[s].exit = sync[s].exit
         /\ sync'[s].canStart = sync[s].canStart /\ sync'[s].wasStopped = sync[s].wasStopped
         /\ sync'[s].filled = sync[s].filled /\ sync'[s].numProcessed = sync[s].numProcessed
<1>1. sync \in [Syncs -> SyncType] /\ sync[s] \in SyncType
  BY DEF TypeInv
<1>2. Released(sync[s].free, s) \in Nat
  BY <1>1, ReleasedIs DEF SyncType
<1>3. /\ sync' = [sync EXCEPT ![s] = [sync[s] EXCEPT !.stopWriting = TRUE,
                                                     !.free = Released(sync[s].free, s)]]
      /\ pc' = [pc EXCEPT ![t] = label]
  BY <1>1 DEF AskStop, Goto
<1> QED BY <1>1, <1>2, <1>3 DEF SyncType

LEMMA StoppedDoes ==
  ASSUME TypeInv, NEW t \in Threads, NEW s \in Syncs, NEW label, Stopped(t, s, label)
  PROVE  /\ pc' = [pc EXCEPT ![t] = label]
         /\ sync' \in [Syncs -> SyncType]
         /\ \A u \in Syncs : u # s => sync'[u] = sync[u]
         /\ sync[s].wasStopped /\ ~sync'[s].wasStopped /\ sync'[s].needStart
         /\ sync'[s].stopWriting = sync[s].stopWriting /\ sync'[s].exit = sync[s].exit
         /\ sync'[s].canStart = sync[s].canStart /\ sync'[s].free = sync[s].free
         /\ sync'[s].filled = sync[s].filled /\ sync'[s].numProcessed = sync[s].numProcessed
<1>1. sync \in [Syncs -> SyncType] /\ sync[s] \in SyncType
  BY DEF TypeInv
<1>2. /\ sync' = [sync EXCEPT ![s] = [sync[s] EXCEPT !.wasStopped = FALSE, !.needStart = TRUE]]
      /\ sync[s].wasStopped /\ pc' = [pc EXCEPT ![t] = label]
  BY <1>1 DEF Stopped, Goto
<1> QED BY <1>1, <1>2 DEF SyncType

LEMMA StartedDoes ==
  ASSUME TypeInv, NEW s \in Syncs, NEW label, Started(s, label)
  PROVE  /\ pc' = [pc EXCEPT ![s] = IF sync[s].exit THEN "gone" ELSE label]
         /\ sync' \in [Syncs -> SyncType]
         /\ \A u \in Syncs : u # s => sync'[u] = sync[u]
         /\ sync[s].canStart /\ ~sync'[s].canStart
         /\ sync'[s].needStart = sync[s].needStart /\ sync'[s].stopWriting = sync[s].stopWriting
         /\ sync'[s].exit = sync[s].exit /\ sync'[s].wasStopped = sync[s].wasStopped
         /\ sync'[s].free = sync[s].free /\ sync'[s].filled = sync[s].filled
         /\ sync'[s].numProcessed = sync[s].numProcessed
<1>1. sync \in [Syncs -> SyncType] /\ sync[s] \in SyncType
  BY DEF TypeInv
<1>2. /\ sync' = [sync EXCEPT ![s] = [sync[s] EXCEPT !.canStart = FALSE]]
      /\ sync[s].canStart /\ pc' = [pc EXCEPT ![s] = IF sync[s].exit THEN "gone" ELSE label]
  BY <1>1 DEF Started, Goto
<1> QED BY <1>1, <1>2 DEF SyncType

LEMMA TakeFreeDoes ==
  ASSUME TypeInv, NEW s \in Syncs, TakeFree(s)
  PROVE  /\ sync' \in [Syncs -> SyncType]
         /\ \A u \in Syncs : u # s => sync'[u] = sync[u]
         /\ SameFlags(s) /\ sync[s].free > 0 /\ sync'[s].free = sync[s].free - 1
         /\ sync'[s].filled = sync[s].filled /\ sync'[s].numProcessed = sync[s].numProcessed
<1>1. sync \in [Syncs -> SyncType] /\ sync[s] \in SyncType
  BY DEF TypeInv
<1>2. /\ sync' = [sync EXCEPT ![s] = [sync[s] EXCEPT !.free = sync[s].free - 1]]
      /\ sync[s].free > 0
  BY <1>1 DEF TakeFree
<1> QED BY <1>1, <1>2 DEF SyncType, SameFlags

\* Semaphore_Release1(&p->filledSemaphore)
LEMMA FilledDoes ==
  ASSUME TypeInv, NEW s \in Syncs, sync' = [sync EXCEPT ![s].filled = Released(@, s)]
  PROVE  /\ sync' \in [Syncs -> SyncType]
         /\ \A u \in Syncs : u # s => sync'[u] = sync[u]
         /\ SameFlags(s) /\ sync'[s].filled = Released(sync[s].filled, s)
         /\ sync'[s].free = sync[s].free /\ sync'[s].numProcessed = sync[s].numProcessed
<1>1. sync \in [Syncs -> SyncType] /\ sync[s] \in SyncType
  BY DEF TypeInv
<1>2. sync' = [sync EXCEPT ![s] = [sync[s] EXCEPT !.filled = Released(sync[s].filled, s)]]
  BY <1>1
<1>3. Released(sync[s].filled, s) \in Nat
  BY <1>1, ReleasedIs DEF SyncType
<1> QED BY <1>1, <1>2, <1>3 DEF SyncType, SameFlags

\* BtStopped, HashStopped
LEMMA WasStoppedDoes ==
  ASSUME TypeInv, NEW s \in Syncs, sync' = [sync EXCEPT ![s].wasStopped = TRUE]
  PROVE  /\ sync' \in [Syncs -> SyncType]
         /\ \A u \in Syncs : u # s => sync'[u] = sync[u]
         /\ sync'[s].wasStopped
         /\ sync'[s].needStart = sync[s].needStart /\ sync'[s].stopWriting = sync[s].stopWriting
         /\ sync'[s].exit = sync[s].exit /\ sync'[s].canStart = sync[s].canStart
         /\ sync'[s].free = sync[s].free /\ sync'[s].filled = sync[s].filled
         /\ sync'[s].numProcessed = sync[s].numProcessed
<1>1. sync \in [Syncs -> SyncType] /\ sync[s] \in SyncType
  BY DEF TypeInv
<1>2. sync' = [sync EXCEPT ![s] = [sync[s] EXCEPT !.wasStopped = TRUE]]
  BY <1>1
<1>3. sync' \in [Syncs -> SyncType]
  BY <1>1, <1>2 DEF SyncType
<1>4. sync'[s] = [sync[s] EXCEPT !.wasStopped = TRUE] /\ \A u \in Syncs : u # s => sync'[u] = sync[u]
  BY <1>1, <1>2
<1> QED BY <1>1, <1>3, <1>4 DEF SyncType


-----------------------------------------------------------------------------
(* Types *)

LEMMA SizesAre ==
  /\ {History, Opts, After, HashBlock, BtBlock} \subseteq Nat
  /\ {MatchMax, NumHash, HashBlocks, BtBlocks, Reserve, Align} \subseteq Nat \ {0}
  /\ NumHash <= MatchMax /\ HashBlock > 2 /\ BtBlock > 4 * MatchMax
  /\ KeepBefore \in Nat /\ KeepAfter \in Nat /\ Window \in Nat /\ NumHash <= KeepAfter
  /\ Window = KeepBefore + KeepAfter + Reserve /\ Limit = BtBlock - 2 * MatchMax /\ Limit > 2
  /\ \A n \in Nat : n \in Sizes => n > 0
  /\ Sizes \subseteq Nat
<1>1. {History, Opts, After, HashBlock, BtBlock} \subseteq Nat /\ HashBlock > 2
  BY LzFindMtAssumption
<1>2. {MatchMax, NumHash, HashBlocks, BtBlocks, Reserve, Align} \subseteq Nat \ {0}
  BY LzFindMtAssumption
<1>3. HashBlock * HashBlocks \in Nat /\ BtBlock * BtBlocks \in Nat
  BY <1>1, <1>2
<1>4. KeepBefore \in Nat
  BY <1>1, <1>3 DEF KeepBefore
<1>5. KeepAfter \in Nat /\ NumHash <= KeepAfter
  BY <1>1, <1>2, LzFindMtAssumption DEF KeepAfter
<1>6. NumHash <= MatchMax /\ BtBlock > 4 * MatchMax /\ Sizes \subseteq Nat \ {0}
  BY LzFindMtAssumption
<1>7. Limit > 2
  BY <1>1, <1>2, <1>6 DEF Limit
<1> QED BY <1>1, <1>2, <1>4, <1>5, <1>6, <1>7 DEF Window, Limit

\* What a step leaves alone
SameDoc == size' = size /\ nthread' = nthread
SameRes == res' = res /\ faults' = faults
SameWindow == base' = base /\ streamPos' = streamPos /\ streamEnd' = streamEnd
SameHash == pos' = pos /\ hashBuf' = hashBuf /\ hashIndex' = hashIndex
SameBt == /\ hashLeft' = hashLeft /\ hashAvail' = hashAvail /\ hashBi' = hashBi
          /\ d' = d /\ btBuf' = btBuf /\ btIndex' = btIndex
SamePtr == btPos' = btPos /\ btPtr' = btPtr /\ lzPtr' = lzPtr
SameLz == lzPos' = lzPos /\ btBi' = btBi /\ footed' = footed
SameData == SameWindow /\ SameHash /\ SameBt /\ SamePtr

PcType == pc \in [Threads -> LzLabels \cup BtLabels \cup HashLabels]

LEMMA LzGoes ==
  ASSUME PcType, NEW label \in LzLabels, pc' = [pc EXCEPT !["lz"] = label]
  PROVE  PcType' /\ pc'["lz"] = label /\ pc'["bt"] = pc["bt"] /\ pc'["hash"] = pc["hash"]
BY DEF PcType, Threads

LEMMA BtGoes ==
  ASSUME PcType, NEW label \in BtLabels, pc' = [pc EXCEPT !["bt"] = label]
  PROVE  PcType' /\ pc'["bt"] = label /\ pc'["lz"] = pc["lz"] /\ pc'["hash"] = pc["hash"]
BY DEF PcType, Threads

LEMMA HashGoes ==
  ASSUME PcType, NEW label \in HashLabels, pc' = [pc EXCEPT !["hash"] = label]
  PROVE  PcType' /\ pc'["hash"] = label /\ pc'["lz"] = pc["lz"] /\ pc'["bt"] = pc["bt"]
BY DEF PcType, Threads

LEMMA TwoSyncs == Syncs = {"bt", "hash"} /\ "bt" \in Syncs /\ "hash" \in Syncs
BY DEF Syncs

\* The types again when little has changed
LEMMA TypeSame ==
  ASSUME TypeInv, SameDoc, res' \in {"ok", "error"}, faults' \in Nat, PcType',
         pc'["lz"] \in LzLabels, pc'["bt"] \in BtLabels, pc'["hash"] \in HashLabels,
         sync' \in [Syncs -> SyncType], SameData, lzPos' \in Nat,
         btBi' \in 0 .. BtBlocks - 1, footed' \in Int
  PROVE  TypeInv'
BY DEF TypeInv, PcType, SameDoc, SameData, SameWindow, SameHash, SameBt, SamePtr

\* The same, for those that move a pointer
LEMMA TypeMoved ==
  ASSUME TypeInv, SameDoc, res' \in {"ok", "error"}, faults' \in Nat, PcType',
         pc'["lz"] \in LzLabels, pc'["bt"] \in BtLabels, pc'["hash"] \in HashLabels,
         sync' \in [Syncs -> SyncType], SameWindow, SameHash, SameBt,
         btPos' \in Nat, btPtr' \in Int, lzPtr' \in Int,
         lzPos' \in Nat, btBi' \in 0 .. BtBlocks - 1, footed' \in Int
  PROVE  TypeInv'
BY DEF TypeInv, PcType, SameDoc, SameWindow, SameHash, SameBt

\* Failing or not, the answer tells.
LEMMA FaultType ==
  ASSUME TypeInv, \/ Works /\ UNCHANGED res
                  \/ Fails /\ res' = "error"
  PROVE  res' \in {"ok", "error"} /\ faults' \in Nat /\ faults' >= faults
         /\ ((res = "ok" <=> faults = 0) => (res' = "ok" <=> faults' = 0))
         /\ (res' = "ok" => res = "ok" /\ faults' = faults)
<1>1. faults \in Nat /\ res \in {"ok", "error"}
  BY DEF TypeInv
<1>2. CASE Works /\ UNCHANGED res
  <2>1. faults' = faults /\ res' = res
    BY <1>2 DEF Works
  <2> QED BY <1>1, <2>1
<1>3. CASE Fails /\ res' = "error"
  <2>1. faults' = faults + 1 /\ res' = "error"
    BY <1>3 DEF Fails
  <2> QED BY <1>1, <2>1
<1> QED BY <1>2, <1>3


-----------------------------------------------------------------------------
(* What each step does *)

LEMMA HeaderDoes ==
  ASSUME TypeInv, Header
  PROVE  /\ TypeInv' /\ SameDoc /\ SameData /\ SameLz /\ sync' = sync
         /\ pc["lz"] = "header" /\ pc'["bt"] = pc["bt"] /\ pc'["hash"] = pc["hash"]
         /\ \/ pc'["lz"] = IF nthread > 1 THEN "create" ELSE "alone"
            \/ pc'["lz"] = "done" /\ res' = "error"
         /\ (res = "ok" <=> faults = 0) => (res' = "ok" <=> faults' = 0)
<1>1. SameDoc /\ SameData /\ SameLz /\ sync' = sync /\ pc["lz"] = "header"
  BY DEF Header, SameDoc, SameData, SameWindow, SameHash, SameBt, SamePtr, SameLz,
         docVars, windowVars, hashVars, btVars, ptrVars, lzVars
<1>2. \/ Works /\ UNCHANGED res /\ pc' = [pc EXCEPT !["lz"] = IF nthread > 1 THEN "create" ELSE "alone"]
      \/ Fails /\ res' = "error" /\ pc' = [pc EXCEPT !["lz"] = "done"]
  BY DEF Header, Goto
<1>3. PcType
  BY DEF TypeInv, PcType
<1>4. \/ Works /\ UNCHANGED res
      \/ Fails /\ res' = "error"
  BY <1>2
<1>5. res' \in {"ok", "error"} /\ faults' \in Nat
      /\ ((res = "ok" <=> faults = 0) => (res' = "ok" <=> faults' = 0))
  BY <1>4, FaultType
<1>6. PICK l \in LzLabels : /\ pc' = [pc EXCEPT !["lz"] = l]
                            /\ \/ l = IF nthread > 1 THEN "create" ELSE "alone"
                               \/ l = "done" /\ res' = "error"
  BY <1>2 DEF LzLabels
<1>7. PcType' /\ pc'["lz"] = l /\ pc'["bt"] = pc["bt"] /\ pc'["hash"] = pc["hash"]
  BY <1>3, <1>6, LzGoes
<1>8. TypeInv'
  BY <1>1, <1>5, <1>7, TypeSame DEF TypeInv, SameLz
<1> QED BY <1>1, <1>5, <1>6, <1>7, <1>8

LEMMA EncodeAloneDoes ==
  ASSUME TypeInv, EncodeAlone
  PROVE  /\ TypeInv' /\ SameDoc /\ SameHash /\ SameBt /\ SamePtr /\ sync' = sync
         /\ base' = base /\ btBi' = btBi /\ footed' = footed
         /\ pc["lz"] = "alone" /\ pc'["lz"] = "footer"
         /\ pc'["bt"] = pc["bt"] /\ pc'["hash"] = pc["hash"]
         /\ \/ streamPos' = size /\ streamEnd' /\ lzPos' = size
            \/ streamPos' = streamPos /\ streamEnd' = streamEnd /\ lzPos' = lzPos /\ res' = "error"
         /\ (res = "ok" <=> faults = 0) => (res' = "ok" <=> faults' = 0)
<1>1. /\ SameDoc /\ SameHash /\ SameBt /\ SamePtr /\ sync' = sync /\ base' = base
      /\ btBi' = btBi /\ footed' = footed /\ pc["lz"] = "alone" /\ pc' = [pc EXCEPT !["lz"] = "footer"]
  BY DEF EncodeAlone, SameDoc, SameHash, SameBt, SamePtr, docVars, hashVars, btVars, ptrVars, Goto
<1>2. \/ Works /\ UNCHANGED res
      \/ Fails /\ res' = "error"
  BY DEF EncodeAlone
<1>3. res' \in {"ok", "error"} /\ faults' \in Nat
      /\ ((res = "ok" <=> faults = 0) => (res' = "ok" <=> faults' = 0))
  BY <1>2, FaultType
<1>4. \/ streamPos' = size /\ streamEnd' /\ lzPos' = size
      \/ streamPos' = streamPos /\ streamEnd' = streamEnd /\ lzPos' = lzPos /\ res' = "error"
  BY DEF EncodeAlone
<1>5. streamPos' \in Nat /\ streamEnd' \in BOOLEAN /\ lzPos' \in Nat
  <2>1. size \in Nat
    BY SizesAre DEF TypeInv
  <2>2. streamEnd' = TRUE \/ streamEnd' = streamEnd
    BY DEF EncodeAlone
  <2> QED BY <1>4, <2>1, <2>2 DEF TypeInv
<1>6. "footer" \in LzLabels
  BY DEF LzLabels
<1>7. PcType' /\ pc'["lz"] = "footer" /\ pc'["bt"] = pc["bt"] /\ pc'["hash"] = pc["hash"]
  BY <1>1, <1>6, LzGoes DEF TypeInv, PcType
<1>8. TypeInv'
  BY <1>1, <1>3, <1>5, <1>6, <1>7 DEF TypeInv, PcType, SameDoc, SameHash, SameBt, SamePtr
<1> QED BY <1>1, <1>3, <1>4, <1>7, <1>8

LEMMA CreateDoes ==
  ASSUME TypeInv, Create
  PROVE  /\ TypeInv' /\ SameDoc /\ SameData /\ SameLz /\ sync' = sync /\ pc["lz"] = "create"
         /\ \/ pc'["lz"] = "ask" /\ pc'["bt"] = "start" /\ pc'["hash"] = "start"
            \/ /\ pc'["lz"] = "exit" /\ pc'["bt"] = pc["bt"] /\ pc'["hash"] \in {pc["hash"], "start"}
               /\ res' = "error"
         /\ (res = "ok" <=> faults = 0) => (res' = "ok" <=> faults' = 0)
<1>1. SameDoc /\ SameData /\ SameLz /\ sync' = sync /\ pc["lz"] = "create"
  BY DEF Create, SameDoc, SameData, SameWindow, SameHash, SameBt, SamePtr, SameLz,
         docVars, windowVars, hashVars, btVars, ptrVars, lzVars
<1>2. \/ Works /\ UNCHANGED res
      \/ Fails /\ res' = "error"
  BY DEF Create
<1>3. res' \in {"ok", "error"} /\ faults' \in Nat
      /\ ((res = "ok" <=> faults = 0) => (res' = "ok" <=> faults' = 0))
  BY <1>2, FaultType
<1>4. /\ PcType' /\ pc'["lz"] \in LzLabels /\ pc'["bt"] \in BtLabels /\ pc'["hash"] \in HashLabels
      /\ \/ pc'["lz"] = "ask" /\ pc'["bt"] = "start" /\ pc'["hash"] = "start"
         \/ /\ pc'["lz"] = "exit" /\ pc'["bt"] = pc["bt"] /\ pc'["hash"] \in {pc["hash"], "start"}
            /\ res' = "error"
  <2>1. PcType /\ pc["bt"] \in BtLabels /\ pc["hash"] \in HashLabels
    BY DEF TypeInv, PcType
  <2>2. CASE pc' = [t \in Threads |-> IF t = "lz" THEN "ask" ELSE "start"]
    BY <2>2 DEF PcType, Threads, LzLabels, BtLabels, HashLabels
  <2>3. CASE pc' = [pc EXCEPT !["lz"] = "exit"] /\ res' = "error"
    BY <2>1, <2>3 DEF PcType, Threads, LzLabels, BtLabels, HashLabels
  <2>4. CASE pc' = [pc EXCEPT !["lz"] = "exit", !["hash"] = "start"] /\ res' = "error"
    BY <2>1, <2>4 DEF PcType, Threads, LzLabels, BtLabels, HashLabels
  <2> QED BY <2>2, <2>3, <2>4 DEF Create
<1>5. TypeInv'
  BY <1>1, <1>3, <1>4, TypeSame DEF TypeInv, SameLz
<1> QED BY <1>1, <1>3, <1>4, <1>5

LEMMA FlushDoes ==
  ASSUME TypeInv, Flush
  PROVE  /\ TypeInv' /\ SameDoc /\ SameData /\ SameLz /\ sync' = sync
         /\ pc["lz"] = "encode" /\ btBuf[btBi].avail = 0 /\ pc'["lz"] = "stop"
         /\ pc'["bt"] = pc["bt"] /\ pc'["hash"] = pc["hash"]
         /\ (res = "ok" <=> faults = 0) => (res' = "ok" <=> faults' = 0)
<1>1. /\ SameDoc /\ SameData /\ SameLz /\ sync' = sync /\ pc["lz"] = "encode"
      /\ btBuf[btBi].avail = 0 /\ pc' = [pc EXCEPT !["lz"] = "stop"]
  BY DEF Flush, SameDoc, SameData, SameWindow, SameHash, SameBt, SamePtr, SameLz, Goto,
         docVars, windowVars, hashVars, btVars, ptrVars, lzVars
<1>2. \/ Works /\ UNCHANGED res
      \/ Fails /\ res' = "error"
  BY DEF Flush
<1>3. res' \in {"ok", "error"} /\ faults' \in Nat
      /\ ((res = "ok" <=> faults = 0) => (res' = "ok" <=> faults' = 0))
  BY <1>2, FaultType
<1>4. "stop" \in LzLabels
  BY DEF LzLabels
<1>5. PcType' /\ pc'["lz"] = "stop" /\ pc'["bt"] = pc["bt"] /\ pc'["hash"] = pc["hash"]
  BY <1>1, <1>4, LzGoes DEF TypeInv, PcType
<1>6. TypeInv'
  BY <1>1, <1>3, <1>4, <1>5, TypeSame DEF TypeInv, SameLz
<1> QED BY <1>1, <1>3, <1>5, <1>6

LEMMA FooterDoes ==
  ASSUME TypeInv, Footer
  PROVE  /\ TypeInv' /\ SameDoc /\ SameData /\ sync' = sync /\ lzPos' = lzPos /\ btBi' = btBi
         /\ pc["lz"] = "footer" /\ pc'["lz"] = IF nthread > 1 THEN "exit" ELSE "done"
         /\ pc'["bt"] = pc["bt"] /\ pc'["hash"] = pc["hash"]
         /\ res' = "ok" => footed' = streamPos /\ res = "ok"
         /\ (res = "ok" <=> faults = 0) => (res' = "ok" <=> faults' = 0)
<1>1. /\ SameDoc /\ SameData /\ sync' = sync /\ lzPos' = lzPos /\ btBi' = btBi /\ pc["lz"] = "footer"
      /\ pc' = [pc EXCEPT !["lz"] = IF nthread > 1 THEN "exit" ELSE "done"]
  BY DEF Footer, SameDoc, SameData, SameWindow, SameHash, SameBt, SamePtr, Goto,
         docVars, windowVars, hashVars, btVars, ptrVars
<1>2. \/ Works /\ UNCHANGED res
      \/ Fails /\ res' = "error"
  BY DEF Footer
<1>3. res' \in {"ok", "error"} /\ faults' \in Nat
      /\ ((res = "ok" <=> faults = 0) => (res' = "ok" <=> faults' = 0))
  BY <1>2, FaultType
<1>4. footed' \in Int /\ (res' = "ok" => footed' = streamPos /\ res = "ok")
  BY DEF Footer, TypeInv
<1>5. (IF nthread > 1 THEN "exit" ELSE "done") \in LzLabels
  BY DEF LzLabels
<1>6. /\ PcType' /\ pc'["lz"] = IF nthread > 1 THEN "exit" ELSE "done"
      /\ pc'["bt"] = pc["bt"] /\ pc'["hash"] = pc["hash"]
  BY <1>1, <1>5, LzGoes DEF TypeInv, PcType
<1>7. TypeInv'
  BY <1>1, <1>3, <1>4, <1>5, <1>6, TypeSame DEF TypeInv
<1> QED BY <1>1, <1>3, <1>4, <1>6, <1>7


LEMMA StopDoes ==
  ASSUME TypeInv, Stop
  PROVE  /\ TypeInv' /\ SameDoc /\ SameRes /\ SameData /\ SameLz
         /\ pc["lz"] = "stop" /\ pc'["lz"] = "stopping"
         /\ pc'["bt"] = pc["bt"] /\ pc'["hash"] = pc["hash"]
         /\ sync'["hash"] = sync["hash"]
         /\ sync'["bt"].stopWriting
         /\ sync'["bt"].needStart = sync["bt"].needStart /\ sync'["bt"].exit = sync["bt"].exit
         /\ sync'["bt"].canStart = sync["bt"].canStart
         /\ sync'["bt"].wasStopped = sync["bt"].wasStopped
         /\ sync'["bt"].filled = sync["bt"].filled
         /\ sync'["bt"].numProcessed = sync["bt"].numProcessed
<1>1. /\ SameDoc /\ SameRes /\ SameData /\ SameLz /\ pc["lz"] = "stop"
      /\ AskStop("lz", "bt", "stopping")
  BY DEF Stop, SameDoc, SameRes, SameData, SameWindow, SameHash, SameBt, SamePtr, SameLz,
         docVars, windowVars, hashVars, btVars, ptrVars, lzVars
<1>2. PcType /\ res \in {"ok", "error"} /\ faults \in Nat
  BY DEF TypeInv, PcType
<1>3. "stopping" \in LzLabels
  BY DEF LzLabels
<1>4. /\ pc' = [pc EXCEPT !["lz"] = "stopping"]
      /\ sync' \in [Syncs -> SyncType] /\ \A u \in Syncs : u # "bt" => sync'[u] = sync[u]
      /\ sync'["bt"].stopWriting
      /\ sync'["bt"].needStart = sync["bt"].needStart /\ sync'["bt"].exit = sync["bt"].exit
      /\ sync'["bt"].canStart = sync["bt"].canStart
      /\ sync'["bt"].wasStopped = sync["bt"].wasStopped
      /\ sync'["bt"].filled = sync["bt"].filled
      /\ sync'["bt"].numProcessed = sync["bt"].numProcessed
  BY <1>1, TwoSyncs, AskStopDoes DEF Threads
<1>5. /\ PcType' /\ pc'["lz"] = "stopping"
      /\ pc'["bt"] = pc["bt"] /\ pc'["hash"] = pc["hash"]
  BY <1>2, <1>3, <1>4, LzGoes
<1>6. sync'["hash"] = sync["hash"]
  BY <1>4, TwoSyncs
<1>7. TypeInv'
  BY <1>1, <1>2, <1>3, <1>4, <1>5, TypeSame DEF TypeInv, SameRes, SameLz
<1> QED BY <1>1, <1>4, <1>5, <1>6, <1>7

LEMMA StopEndsDoes ==
  ASSUME TypeInv, StopEnds
  PROVE  /\ TypeInv' /\ SameDoc /\ SameRes /\ SameData /\ SameLz
         /\ pc["lz"] = "stopping" /\ pc'["lz"] = "footer"
         /\ pc'["bt"] = pc["bt"] /\ pc'["hash"] = pc["hash"]
         /\ sync'["hash"] = sync["hash"]
         /\ sync["bt"].wasStopped /\ ~sync'["bt"].wasStopped /\ sync'["bt"].needStart
         /\ sync'["bt"].stopWriting = sync["bt"].stopWriting /\ sync'["bt"].exit = sync["bt"].exit
         /\ sync'["bt"].canStart = sync["bt"].canStart /\ sync'["bt"].free = sync["bt"].free
         /\ sync'["bt"].filled = sync["bt"].filled
         /\ sync'["bt"].numProcessed = sync["bt"].numProcessed
<1>1. /\ SameDoc /\ SameRes /\ SameData /\ SameLz /\ pc["lz"] = "stopping"
      /\ Stopped("lz", "bt", "footer")
  BY DEF StopEnds, SameDoc, SameRes, SameData, SameWindow, SameHash, SameBt, SamePtr, SameLz,
         docVars, windowVars, hashVars, btVars, ptrVars, lzVars
<1>2. PcType /\ res \in {"ok", "error"} /\ faults \in Nat
  BY DEF TypeInv, PcType
<1>3. "footer" \in LzLabels
  BY DEF LzLabels
<1>4. /\ pc' = [pc EXCEPT !["lz"] = "footer"]
      /\ sync' \in [Syncs -> SyncType] /\ \A u \in Syncs : u # "bt" => sync'[u] = sync[u]
      /\ sync["bt"].wasStopped /\ ~sync'["bt"].wasStopped /\ sync'["bt"].needStart
      /\ sync'["bt"].stopWriting = sync["bt"].stopWriting /\ sync'["bt"].exit = sync["bt"].exit
      /\ sync'["bt"].canStart = sync["bt"].canStart /\ sync'["bt"].free = sync["bt"].free
      /\ sync'["bt"].filled = sync["bt"].filled
      /\ sync'["bt"].numProcessed = sync["bt"].numProcessed
  BY <1>1, TwoSyncs, StoppedDoes DEF Threads
<1>5. /\ PcType' /\ pc'["lz"] = "footer"
      /\ pc'["bt"] = pc["bt"] /\ pc'["hash"] = pc["hash"]
  BY <1>2, <1>3, <1>4, LzGoes
<1>6. sync'["hash"] = sync["hash"]
  BY <1>4, TwoSyncs
<1>7. TypeInv'
  BY <1>1, <1>2, <1>3, <1>4, <1>5, TypeSame DEF TypeInv, SameRes, SameLz
<1> QED BY <1>1, <1>4, <1>5, <1>6, <1>7

LEMMA BtStartDoes ==
  ASSUME TypeInv, BtStart
  PROVE  /\ TypeInv' /\ SameDoc /\ SameRes /\ SameData /\ SameLz
         /\ pc["bt"] = "start" /\ pc'["bt"] = (IF sync["bt"].exit THEN "gone" ELSE "free")
         /\ pc'["lz"] = pc["lz"] /\ pc'["hash"] = pc["hash"]
         /\ sync'["hash"] = sync["hash"]
         /\ sync["bt"].canStart /\ ~sync'["bt"].canStart
         /\ sync'["bt"].needStart = sync["bt"].needStart
         /\ sync'["bt"].stopWriting = sync["bt"].stopWriting /\ sync'["bt"].exit = sync["bt"].exit
         /\ sync'["bt"].wasStopped = sync["bt"].wasStopped /\ sync'["bt"].free = sync["bt"].free
         /\ sync'["bt"].filled = sync["bt"].filled
         /\ sync'["bt"].numProcessed = sync["bt"].numProcessed
<1>1. /\ SameDoc /\ SameRes /\ SameData /\ SameLz /\ pc["bt"] = "start"
      /\ Started("bt", "free")
  BY DEF BtStart, SameDoc, SameRes, SameData, SameWindow, SameHash, SameBt, SamePtr, SameLz,
         docVars, windowVars, hashVars, btVars, ptrVars, lzVars
<1>2. PcType /\ res \in {"ok", "error"} /\ faults \in Nat
  BY DEF TypeInv, PcType
<1>3. (IF sync["bt"].exit THEN "gone" ELSE "free") \in BtLabels
  BY DEF BtLabels
<1>4. /\ pc' = [pc EXCEPT !["bt"] = (IF sync["bt"].exit THEN "gone" ELSE "free")]
      /\ sync' \in [Syncs -> SyncType] /\ \A u \in Syncs : u # "bt" => sync'[u] = sync[u]
      /\ sync["bt"].canStart /\ ~sync'["bt"].canStart
      /\ sync'["bt"].needStart = sync["bt"].needStart
      /\ sync'["bt"].stopWriting = sync["bt"].stopWriting /\ sync'["bt"].exit = sync["bt"].exit
      /\ sync'["bt"].wasStopped = sync["bt"].wasStopped /\ sync'["bt"].free = sync["bt"].free
      /\ sync'["bt"].filled = sync["bt"].filled
      /\ sync'["bt"].numProcessed = sync["bt"].numProcessed
  BY <1>1, TwoSyncs, StartedDoes DEF Threads
<1>5. /\ PcType' /\ pc'["bt"] = (IF sync["bt"].exit THEN "gone" ELSE "free")
      /\ pc'["lz"] = pc["lz"] /\ pc'["hash"] = pc["hash"]
  BY <1>2, <1>3, <1>4, BtGoes
<1>6. sync'["hash"] = sync["hash"]
  BY <1>4, TwoSyncs
<1>7. TypeInv'
  BY <1>1, <1>2, <1>3, <1>4, <1>5, TypeSame DEF TypeInv, SameRes, SameLz
<1> QED BY <1>1, <1>4, <1>5, <1>6, <1>7

LEMMA HashStartDoes ==
  ASSUME TypeInv, HashStart
  PROVE  /\ TypeInv' /\ SameDoc /\ SameRes /\ SameData /\ SameLz
         /\ pc["hash"] = "start" /\ pc'["hash"] = (IF sync["hash"].exit THEN "gone" ELSE "loop")
         /\ pc'["lz"] = pc["lz"] /\ pc'["bt"] = pc["bt"]
         /\ sync'["bt"] = sync["bt"]
         /\ sync["hash"].canStart /\ ~sync'["hash"].canStart
         /\ sync'["hash"].needStart = sync["hash"].needStart
         /\ sync'["hash"].stopWriting = sync["hash"].stopWriting
         /\ sync'["hash"].exit = sync["hash"].exit
         /\ sync'["hash"].wasStopped = sync["hash"].wasStopped
         /\ sync'["hash"].free = sync["hash"].free /\ sync'["hash"].filled = sync["hash"].filled
         /\ sync'["hash"].numProcessed = sync["hash"].numProcessed
<1>1. /\ SameDoc /\ SameRes /\ SameData /\ SameLz /\ pc["hash"] = "start"
      /\ Started("hash", "loop")
  BY DEF HashStart, SameDoc, SameRes, SameData, SameWindow, SameHash, SameBt, SamePtr, SameLz,
         docVars, windowVars, hashVars, btVars, ptrVars, lzVars
<1>2. PcType /\ res \in {"ok", "error"} /\ faults \in Nat
  BY DEF TypeInv, PcType
<1>3. (IF sync["hash"].exit THEN "gone" ELSE "loop") \in HashLabels
  BY DEF HashLabels
<1>4. /\ pc' = [pc EXCEPT !["hash"] = (IF sync["hash"].exit THEN "gone" ELSE "loop")]
      /\ sync' \in [Syncs -> SyncType] /\ \A u \in Syncs : u # "hash" => sync'[u] = sync[u]
      /\ sync["hash"].canStart /\ ~sync'["hash"].canStart
      /\ sync'["hash"].needStart = sync["hash"].needStart
      /\ sync'["hash"].stopWriting = sync["hash"].stopWriting
      /\ sync'["hash"].exit = sync["hash"].exit
      /\ sync'["hash"].wasStopped = sync["hash"].wasStopped
      /\ sync'["hash"].free = sync["hash"].free /\ sync'["hash"].filled = sync["hash"].filled
      /\ sync'["hash"].numProcessed = sync["hash"].numProcessed
  BY <1>1, TwoSyncs, StartedDoes DEF Threads
<1>5. /\ PcType' /\ pc'["hash"] = (IF sync["hash"].exit THEN "gone" ELSE "loop")
      /\ pc'["lz"] = pc["lz"] /\ pc'["bt"] = pc["bt"]
  BY <1>2, <1>3, <1>4, HashGoes
<1>6. sync'["bt"] = sync["bt"]
  BY <1>4, TwoSyncs
<1>7. TypeInv'
  BY <1>1, <1>2, <1>3, <1>4, <1>5, TypeSame DEF TypeInv, SameRes, SameLz
<1> QED BY <1>1, <1>4, <1>5, <1>6, <1>7

LEMMA BtFreeDoes ==
  ASSUME TypeInv, BtFree
  PROVE  /\ TypeInv' /\ SameDoc /\ SameRes /\ SameData /\ SameLz
         /\ pc["bt"] = "free" /\ pc'["bt"] = (IF sync["bt"].stopWriting THEN "stop" ELSE "lock")
         /\ pc'["lz"] = pc["lz"] /\ pc'["hash"] = pc["hash"]
         /\ sync'["hash"] = sync["hash"]
         /\ SameFlags("bt") /\ sync["bt"].free > 0 /\ sync'["bt"].free = sync["bt"].free - 1
         /\ sync'["bt"].filled = sync["bt"].filled
         /\ sync'["bt"].numProcessed = sync["bt"].numProcessed
<1>1. /\ SameDoc /\ SameRes /\ SameData /\ SameLz /\ pc["bt"] = "free"
      /\ TakeFree("bt") /\ Goto("bt", IF sync["bt"].stopWriting THEN "stop" ELSE "lock")
  BY DEF BtFree, SameDoc, SameRes, SameData, SameWindow, SameHash, SameBt, SamePtr, SameLz,
         docVars, windowVars, hashVars, btVars, ptrVars, lzVars
<1>2. PcType /\ res \in {"ok", "error"} /\ faults \in Nat
  BY DEF TypeInv, PcType
<1>3. (IF sync["bt"].stopWriting THEN "stop" ELSE "lock") \in BtLabels
  BY DEF BtLabels
<1>4. /\ pc' = [pc EXCEPT !["bt"] = (IF sync["bt"].stopWriting THEN "stop" ELSE "lock")]
      /\ sync' \in [Syncs -> SyncType] /\ \A u \in Syncs : u # "bt" => sync'[u] = sync[u]
      /\ SameFlags("bt") /\ sync["bt"].free > 0 /\ sync'["bt"].free = sync["bt"].free - 1
      /\ sync'["bt"].filled = sync["bt"].filled
      /\ sync'["bt"].numProcessed = sync["bt"].numProcessed
  BY <1>1, TwoSyncs, TakeFreeDoes DEF Goto
<1>5. /\ PcType' /\ pc'["bt"] = (IF sync["bt"].stopWriting THEN "stop" ELSE "lock")
      /\ pc'["lz"] = pc["lz"] /\ pc'["hash"] = pc["hash"]
  BY <1>2, <1>3, <1>4, BtGoes
<1>6. sync'["hash"] = sync["hash"]
  BY <1>4, TwoSyncs
<1>7. TypeInv'
  BY <1>1, <1>2, <1>3, <1>4, <1>5, TypeSame DEF TypeInv, SameRes, SameLz
<1> QED BY <1>1, <1>4, <1>5, <1>6, <1>7

LEMMA BtStopEndsDoes ==
  ASSUME TypeInv, BtStopEnds
  PROVE  /\ TypeInv' /\ SameDoc /\ SameRes /\ SameData /\ SameLz
         /\ pc["bt"] = "stopping" /\ pc'["bt"] = "stopped"
         /\ pc'["lz"] = pc["lz"] /\ pc'["hash"] = pc["hash"]
         /\ sync'["bt"] = sync["bt"]
         /\ sync["hash"].wasStopped /\ ~sync'["hash"].wasStopped /\ sync'["hash"].needStart
         /\ sync'["hash"].stopWriting = sync["hash"].stopWriting
         /\ sync'["hash"].exit = sync["hash"].exit
         /\ sync'["hash"].canStart = sync["hash"].canStart
         /\ sync'["hash"].free = sync["hash"].free /\ sync'["hash"].filled = sync["hash"].filled
         /\ sync'["hash"].numProcessed = sync["hash"].numProcessed
<1>1. /\ SameDoc /\ SameRes /\ SameData /\ SameLz /\ pc["bt"] = "stopping"
      /\ Stopped("bt", "hash", "stopped")
  BY DEF BtStopEnds, SameDoc, SameRes, SameData, SameWindow, SameHash, SameBt, SamePtr, SameLz,
         docVars, windowVars, hashVars, btVars, ptrVars, lzVars
<1>2. PcType /\ res \in {"ok", "error"} /\ faults \in Nat
  BY DEF TypeInv, PcType
<1>3. "stopped" \in BtLabels
  BY DEF BtLabels
<1>4. /\ pc' = [pc EXCEPT !["bt"] = "stopped"]
      /\ sync' \in [Syncs -> SyncType] /\ \A u \in Syncs : u # "hash" => sync'[u] = sync[u]
      /\ sync["hash"].wasStopped /\ ~sync'["hash"].wasStopped /\ sync'["hash"].needStart
      /\ sync'["hash"].stopWriting = sync["hash"].stopWriting
      /\ sync'["hash"].exit = sync["hash"].exit
      /\ sync'["hash"].canStart = sync["hash"].canStart
      /\ sync'["hash"].free = sync["hash"].free /\ sync'["hash"].filled = sync["hash"].filled
      /\ sync'["hash"].numProcessed = sync["hash"].numProcessed
  BY <1>1, TwoSyncs, StoppedDoes DEF Threads
<1>5. /\ PcType' /\ pc'["bt"] = "stopped"
      /\ pc'["lz"] = pc["lz"] /\ pc'["hash"] = pc["hash"]
  BY <1>2, <1>3, <1>4, BtGoes
<1>6. sync'["bt"] = sync["bt"]
  BY <1>4, TwoSyncs
<1>7. TypeInv'
  BY <1>1, <1>2, <1>3, <1>4, <1>5, TypeSame DEF TypeInv, SameRes, SameLz
<1> QED BY <1>1, <1>4, <1>5, <1>6, <1>7

LEMMA BtStoppedDoes ==
  ASSUME TypeInv, BtStopped
  PROVE  /\ TypeInv' /\ SameDoc /\ SameRes /\ SameData /\ SameLz
         /\ pc["bt"] = "stopped" /\ pc'["bt"] = "start"
         /\ pc'["lz"] = pc["lz"] /\ pc'["hash"] = pc["hash"]
         /\ sync'["hash"] = sync["hash"]
         /\ sync'["bt"].wasStopped
         /\ sync'["bt"].needStart = sync["bt"].needStart
         /\ sync'["bt"].stopWriting = sync["bt"].stopWriting /\ sync'["bt"].exit = sync["bt"].exit
         /\ sync'["bt"].canStart = sync["bt"].canStart /\ sync'["bt"].free = sync["bt"].free
         /\ sync'["bt"].filled = sync["bt"].filled
         /\ sync'["bt"].numProcessed = sync["bt"].numProcessed
<1>1. /\ SameDoc /\ SameRes /\ SameData /\ SameLz /\ pc["bt"] = "stopped"
      /\ sync' = [sync EXCEPT !["bt"].wasStopped = TRUE] /\ Goto("bt", "start")
  BY DEF BtStopped, SameDoc, SameRes, SameData, SameWindow, SameHash, SameBt, SamePtr, SameLz,
         docVars, windowVars, hashVars, btVars, ptrVars, lzVars
<1>2. PcType /\ res \in {"ok", "error"} /\ faults \in Nat
  BY DEF TypeInv, PcType
<1>3. "start" \in BtLabels
  BY DEF BtLabels
<1>4. /\ pc' = [pc EXCEPT !["bt"] = "start"]
      /\ sync' \in [Syncs -> SyncType] /\ \A u \in Syncs : u # "bt" => sync'[u] = sync[u]
      /\ sync'["bt"].wasStopped
      /\ sync'["bt"].needStart = sync["bt"].needStart
      /\ sync'["bt"].stopWriting = sync["bt"].stopWriting /\ sync'["bt"].exit = sync["bt"].exit
      /\ sync'["bt"].canStart = sync["bt"].canStart /\ sync'["bt"].free = sync["bt"].free
      /\ sync'["bt"].filled = sync["bt"].filled
      /\ sync'["bt"].numProcessed = sync["bt"].numProcessed
  BY <1>1, TwoSyncs, WasStoppedDoes DEF Goto
<1>5. /\ PcType' /\ pc'["bt"] = "start"
      /\ pc'["lz"] = pc["lz"] /\ pc'["hash"] = pc["hash"]
  BY <1>2, <1>3, <1>4, BtGoes
<1>6. sync'["hash"] = sync["hash"]
  BY <1>4, TwoSyncs
<1>7. TypeInv'
  BY <1>1, <1>2, <1>3, <1>4, <1>5, TypeSame DEF TypeInv, SameRes, SameLz
<1> QED BY <1>1, <1>4, <1>5, <1>6, <1>7

LEMMA HashStoppedDoes ==
  ASSUME TypeInv, HashStopped
  PROVE  /\ TypeInv' /\ SameDoc /\ SameRes /\ SameData /\ SameLz
         /\ pc["hash"] = "stopped" /\ pc'["hash"] = "start"
         /\ pc'["lz"] = pc["lz"] /\ pc'["bt"] = pc["bt"]
         /\ sync'["bt"] = sync["bt"]
         /\ sync'["hash"].wasStopped
         /\ sync'["hash"].needStart = sync["hash"].needStart
         /\ sync'["hash"].stopWriting = sync["hash"].stopWriting
         /\ sync'["hash"].exit = sync["hash"].exit
         /\ sync'["hash"].canStart = sync["hash"].canStart
         /\ sync'["hash"].free = sync["hash"].free /\ sync'["hash"].filled = sync["hash"].filled
         /\ sync'["hash"].numProcessed = sync["hash"].numProcessed
<1>1. /\ SameDoc /\ SameRes /\ SameData /\ SameLz /\ pc["hash"] = "stopped"
      /\ sync' = [sync EXCEPT !["hash"].wasStopped = TRUE] /\ Goto("hash", "start")
  BY DEF HashStopped, SameDoc, SameRes, SameData, SameWindow, SameHash, SameBt, SamePtr, SameLz,
         docVars, windowVars, hashVars, btVars, ptrVars, lzVars
<1>2. PcType /\ res \in {"ok", "error"} /\ faults \in Nat
  BY DEF TypeInv, PcType
<1>3. "start" \in HashLabels
  BY DEF HashLabels
<1>4. /\ pc' = [pc EXCEPT !["hash"] = "start"]
      /\ sync' \in [Syncs -> SyncType] /\ \A u \in Syncs : u # "hash" => sync'[u] = sync[u]
      /\ sync'["hash"].wasStopped
      /\ sync'["hash"].needStart = sync["hash"].needStart
      /\ sync'["hash"].stopWriting = sync["hash"].stopWriting
      /\ sync'["hash"].exit = sync["hash"].exit
      /\ sync'["hash"].canStart = sync["hash"].canStart
      /\ sync'["hash"].free = sync["hash"].free /\ sync'["hash"].filled = sync["hash"].filled
      /\ sync'["hash"].numProcessed = sync["hash"].numProcessed
  BY <1>1, TwoSyncs, WasStoppedDoes DEF Goto
<1>5. /\ PcType' /\ pc'["hash"] = "start"
      /\ pc'["lz"] = pc["lz"] /\ pc'["bt"] = pc["bt"]
  BY <1>2, <1>3, <1>4, HashGoes
<1>6. sync'["bt"] = sync["bt"]
  BY <1>4, TwoSyncs
<1>7. TypeInv'
  BY <1>1, <1>2, <1>3, <1>4, <1>5, TypeSame DEF TypeInv, SameRes, SameLz
<1> QED BY <1>1, <1>4, <1>5, <1>6, <1>7


LEMMA ExitDoes ==
  ASSUME TypeInv, Exit
  PROVE  /\ TypeInv' /\ SameDoc /\ SameRes /\ SameData /\ SameLz /\ pc["lz"] = "exit"
         /\ pc'["bt"] = pc["bt"] /\ pc'["hash"] = pc["hash"]
         /\ \/ pc'["lz"] = "done" /\ sync' = sync /\ pc["bt"] = "none" /\ pc["hash"] = "none"
            \/ /\ pc'["lz"] = "join" /\ sync'[Leaving].canStart /\ sync'[Leaving].exit
               /\ pc[Leaving] # "none"
               /\ \A s \in Syncs : s # Leaving => sync'[s] = sync[s]
         /\ \A s \in Syncs : sync'[s].wasStopped = sync[s].wasStopped
                             /\ sync'[s].needStart = sync[s].needStart
                             /\ sync'[s].stopWriting = sync[s].stopWriting
                             /\ sync'[s].filled = sync[s].filled
                             /\ sync'[s].free = sync[s].free
<1>1. SameDoc /\ SameRes /\ SameData /\ SameLz /\ pc["lz"] = "exit"
  BY DEF Exit, SameDoc, SameRes, SameData, SameWindow, SameHash, SameBt, SamePtr, SameLz,
         docVars, windowVars, hashVars, btVars, ptrVars, lzVars
<1>2. PcType /\ res \in {"ok", "error"} /\ faults \in Nat /\ sync \in [Syncs -> SyncType]
  BY DEF TypeInv, PcType
<1>3. {"done", "join"} \subseteq LzLabels /\ Leaving \in Syncs
  BY DEF LzLabels, Leaving, Syncs
<1>4. CASE pc[Leaving] = "none"
  <2>1. sync' = sync /\ pc' = [pc EXCEPT !["lz"] = "done"]
    BY <1>4 DEF Exit, Goto
  <2>2. PcType' /\ pc'["lz"] = "done" /\ pc'["bt"] = pc["bt"] /\ pc'["hash"] = pc["hash"]
    BY <1>2, <1>3, <2>1, LzGoes
  <2>3. pc["bt"] = "none" /\ pc["hash"] = "none"
    BY <1>4 DEF Leaving
  <2>4. TypeInv'
    BY <1>1, <1>2, <1>3, <2>1, <2>2, TypeSame DEF TypeInv, SameRes, SameLz
  <2> QED BY <1>1, <2>1, <2>2, <2>3, <2>4
<1>5. CASE pc[Leaving] # "none"
  <2>1. /\ sync' = [sync EXCEPT ![Leaving].exit = TRUE, ![Leaving].canStart = TRUE]
        /\ pc' = [pc EXCEPT !["lz"] = "join"]
    BY <1>5 DEF Exit, Goto
  <2>2. PcType' /\ pc'["lz"] = "join" /\ pc'["bt"] = pc["bt"] /\ pc'["hash"] = pc["hash"]
    BY <1>2, <1>3, <2>1, LzGoes
  <2>3. sync[Leaving] \in SyncType
    BY <1>2, <1>3
  <2>4. sync' = [sync EXCEPT ![Leaving] = [sync[Leaving] EXCEPT !.exit = TRUE, !.canStart = TRUE]]
    BY <1>2, <1>3, <2>1, <2>3 DEF SyncType
  <2>5. /\ sync' \in [Syncs -> SyncType] /\ sync'[Leaving].canStart /\ sync'[Leaving].exit
        /\ \A s \in Syncs : s # Leaving => sync'[s] = sync[s]
        /\ sync'[Leaving].wasStopped = sync[Leaving].wasStopped
        /\ sync'[Leaving].needStart = sync[Leaving].needStart
        /\ sync'[Leaving].stopWriting = sync[Leaving].stopWriting
        /\ sync'[Leaving].filled = sync[Leaving].filled
        /\ sync'[Leaving].free = sync[Leaving].free
    BY <1>2, <1>3, <2>3, <2>4 DEF SyncType
  <2>6. TypeInv'
    BY <1>1, <1>2, <1>3, <2>2, <2>5, TypeSame DEF TypeInv, SameRes, SameLz
  <2> QED BY <1>1, <1>5, <2>2, <2>5, <2>6
<1> QED BY <1>4, <1>5

LEMMA JoinDoes ==
  ASSUME TypeInv, Join
  PROVE  /\ TypeInv' /\ SameDoc /\ SameRes /\ SameData /\ SameLz /\ sync' = sync
         /\ pc["lz"] = "join" /\ pc[Leaving] = "gone" /\ pc'["lz"] = "exit"
         /\ IF pc["bt"] = "none" THEN pc'["bt"] = "none" /\ pc'["hash"] = "none"
            ELSE pc'["bt"] = "none" /\ pc'["hash"] = pc["hash"]
<1>1. /\ SameDoc /\ SameRes /\ SameData /\ SameLz /\ sync' = sync /\ pc["lz"] = "join"
      /\ pc[Leaving] = "gone" /\ pc' = [pc EXCEPT !["lz"] = "exit", ![Leaving] = "none"]
  BY DEF Join, SameDoc, SameRes, SameData, SameWindow, SameHash, SameBt, SamePtr, SameLz,
         docVars, windowVars, hashVars, btVars, ptrVars, lzVars
<1>2. PcType /\ res \in {"ok", "error"} /\ faults \in Nat /\ pc["hash"] \in HashLabels
  BY DEF TypeInv, PcType
<1>3. /\ PcType' /\ pc'["lz"] = "exit"
      /\ IF pc["bt"] = "none" THEN pc'["bt"] = "none" /\ pc'["hash"] = "none"
         ELSE pc'["bt"] = "none" /\ pc'["hash"] = pc["hash"]
  <2>1. CASE pc["bt"] = "none"
    <3>1. pc' = [pc EXCEPT !["lz"] = "exit", !["hash"] = "none"]
      BY <1>1, <2>1 DEF Leaving
    <3> QED BY <1>2, <2>1, <3>1 DEF PcType, Threads, LzLabels, HashLabels
  <2>2. CASE pc["bt"] # "none"
    <3>1. pc' = [pc EXCEPT !["lz"] = "exit", !["bt"] = "none"]
      BY <1>1, <2>2 DEF Leaving
    <3> QED BY <1>2, <2>2, <3>1 DEF PcType, Threads, LzLabels, BtLabels
  <2> QED BY <2>1, <2>2
<1>4. pc'["lz"] \in LzLabels /\ pc'["bt"] \in BtLabels /\ pc'["hash"] \in HashLabels
  BY <1>2, <1>3 DEF LzLabels, BtLabels, HashLabels
<1>5. TypeInv'
  BY <1>1, <1>2, <1>3, <1>4, TypeSame DEF TypeInv, SameRes, SameLz
<1> QED BY <1>1, <1>3, <1>5

LEMMA BtStopDoes ==
  ASSUME TypeInv, BtStop
  PROVE  /\ TypeInv' /\ SameDoc /\ SameRes /\ SameData /\ SameLz
         /\ pc["bt"] = "stop" /\ pc'["lz"] = pc["lz"] /\ pc'["hash"] = pc["hash"]
         /\ sync'["bt"] = sync["bt"]
         /\ \/ ~HashAsked /\ pc'["bt"] = "stopped" /\ sync' = sync
            \/ /\ HashAsked /\ pc'["bt"] = "stopping" /\ sync'["hash"].stopWriting
               /\ sync'["hash"].needStart = sync["hash"].needStart
               /\ sync'["hash"].exit = sync["hash"].exit
               /\ sync'["hash"].canStart = sync["hash"].canStart
               /\ sync'["hash"].wasStopped = sync["hash"].wasStopped
               /\ sync'["hash"].filled = sync["hash"].filled
               /\ sync'["hash"].numProcessed = sync["hash"].numProcessed
<1>1. SameDoc /\ SameRes /\ SameData /\ SameLz /\ pc["bt"] = "stop"
  BY DEF BtStop, SameDoc, SameRes, SameData, SameWindow, SameHash, SameBt, SamePtr, SameLz,
         docVars, windowVars, hashVars, btVars, ptrVars, lzVars
<1>2. PcType /\ res \in {"ok", "error"} /\ faults \in Nat /\ sync \in [Syncs -> SyncType]
  BY DEF TypeInv, PcType
<1>3. {"stopped", "stopping"} \subseteq BtLabels /\ "bt" \in Threads
  BY DEF BtLabels, Threads
<1>4. CASE ~HashAsked
  <2>1. sync' = sync /\ pc' = [pc EXCEPT !["bt"] = "stopped"]
    BY <1>4 DEF BtStop, Goto, HashAsked
  <2>2. PcType' /\ pc'["bt"] = "stopped" /\ pc'["lz"] = pc["lz"] /\ pc'["hash"] = pc["hash"]
    BY <1>2, <1>3, <2>1, BtGoes
  <2>3. TypeInv'
    BY <1>1, <1>2, <1>3, <2>1, <2>2, TypeSame DEF TypeInv, SameRes, SameLz
  <2> QED BY <1>1, <1>4, <2>1, <2>2, <2>3
<1>5. CASE HashAsked
  <2>1. AskStop("bt", "hash", "stopping")
    BY <1>5 DEF BtStop, HashAsked
  <2>2. /\ pc' = [pc EXCEPT !["bt"] = "stopping"] /\ sync' \in [Syncs -> SyncType]
        /\ sync'["bt"] = sync["bt"] /\ sync'["hash"].stopWriting
        /\ sync'["hash"].needStart = sync["hash"].needStart
        /\ sync'["hash"].exit = sync["hash"].exit
        /\ sync'["hash"].canStart = sync["hash"].canStart
        /\ sync'["hash"].wasStopped = sync["hash"].wasStopped
        /\ sync'["hash"].filled = sync["hash"].filled
        /\ sync'["hash"].numProcessed = sync["hash"].numProcessed
    BY <1>3, <2>1, TwoSyncs, AskStopDoes
  <2>3. PcType' /\ pc'["bt"] = "stopping" /\ pc'["lz"] = pc["lz"] /\ pc'["hash"] = pc["hash"]
    BY <1>2, <1>3, <2>2, BtGoes
  <2>4. TypeInv'
    BY <1>1, <1>2, <1>3, <2>2, <2>3, TypeSame DEF TypeInv, SameRes, SameLz
  <2> QED BY <1>1, <1>5, <2>2, <2>3, <2>4
<1> QED BY <1>4, <1>5

LEMMA HashEnterDoes ==
  ASSUME TypeInv, HashEnter
  PROVE  /\ TypeInv' /\ SameDoc /\ SameRes /\ SameData /\ SameLz /\ sync' = sync
         /\ pc["hash"] = "loop" /\ NeedMove /\ pc'["hash"] = "move"
         /\ pc'["lz"] = pc["lz"] /\ pc'["bt"] = pc["bt"]
<1>1. /\ SameDoc /\ SameRes /\ SameData /\ SameLz /\ sync' = sync /\ pc["hash"] = "loop"
      /\ NeedMove /\ pc' = [pc EXCEPT !["hash"] = "move"]
  BY DEF HashEnter, SameDoc, SameRes, SameData, SameWindow, SameHash, SameBt, SamePtr, SameLz,
         docVars, windowVars, hashVars, btVars, ptrVars, lzVars, Goto
<1>2. PcType /\ res \in {"ok", "error"} /\ faults \in Nat
  BY DEF TypeInv, PcType
<1>3. "move" \in HashLabels
  BY DEF HashLabels
<1>4. PcType' /\ pc'["hash"] = "move" /\ pc'["lz"] = pc["lz"] /\ pc'["bt"] = pc["bt"]
  BY <1>1, <1>2, <1>3, HashGoes
<1>5. TypeInv'
  BY <1>1, <1>2, <1>3, <1>4, TypeSame DEF TypeInv, SameRes, SameLz
<1> QED BY <1>1, <1>4, <1>5


\* Places of a ring
LEMMA PlaceIs ==
  ASSUME NEW k \in Nat \ {0}, NEW i \in 0 .. k - 1
  PROVE  /\ Place(i, 0, k) = i /\ \A j \in 0 .. k : Place(i, j, k) \in 0 .. k - 1
         /\ (i + 1) % k = Place(i, 1, k) /\ 1 % k = Place(0, 1, k)
         /\ \A j \in 0 .. k - 1 : /\ Place(Place(i, 1, k), j, k) = Place(i, j + 1, k)
                                  /\ Place(Place(i, j, k), 1, k) = Place(i, j + 1, k)
         /\ \A j, m \in 0 .. k - 1 : Place(i, j, k) = Place(i, m, k) => j = m
<1>1. (i + 1) % k = Place(i, 1, k)
  <2>1. CASE i + 1 < k
    BY <2>1 DEF Place
  <2>2. CASE i + 1 = k
    BY <2>2 DEF Place
  <2> QED BY <2>1, <2>2
<1>2. 1 % k = Place(0, 1, k)
  <2>1. CASE 1 < k
    BY <2>1 DEF Place
  <2>2. CASE 1 = k
    BY <2>2 DEF Place
  <2> QED BY <2>1, <2>2
<1>3. Place(i, 0, k) = i /\ \A j \in 0 .. k : Place(i, j, k) \in 0 .. k - 1
  BY DEF Place
<1>4. \A j \in 0 .. k - 1 : /\ Place(Place(i, 1, k), j, k) = Place(i, j + 1, k)
                            /\ Place(Place(i, j, k), 1, k) = Place(i, j + 1, k)
  BY DEF Place
<1>5. \A j, m \in 0 .. k - 1 : Place(i, j, k) = Place(i, m, k) => j = m
  BY DEF Place
<1> QED BY <1>1, <1>2, <1>3, <1>4, <1>5

LEMMA AskDoes ==
  ASSUME TypeInv, BtCount, Ask
  PROVE  /\ TypeInv' /\ SameDoc /\ SameRes /\ SameData /\ lzPos' = lzPos /\ footed' = footed
         /\ pc["lz"] = "ask" /\ pc'["lz"] = "wait"
         /\ pc'["bt"] = pc["bt"] /\ pc'["hash"] = pc["hash"]
         /\ sync'["hash"] = sync["hash"]
         /\ ~sync'["bt"].needStart /\ sync'["bt"].filled = sync["bt"].filled
         /\ ~BtAsked =>
              /\ btBi' = 0 /\ sync'["bt"].free = sync["bt"].free
              /\ sync'["bt"].numProcessed = Place(0, 1, BtBlocks)
              /\ sync'["bt"].canStart /\ ~sync'["bt"].exit
              /\ ~sync'["bt"].wasStopped /\ ~sync'["bt"].stopWriting
         /\ BtAsked =>
              /\ btBi' = Place(btBi, 1, BtBlocks)
              /\ sync'["bt"].free = Released(sync["bt"].free, "bt")
              /\ sync'["bt"].numProcessed = Place(btBi', 1, BtBlocks)
              /\ sync'["bt"].canStart = sync["bt"].canStart /\ sync'["bt"].exit = sync["bt"].exit
              /\ sync'["bt"].wasStopped = sync["bt"].wasStopped
              /\ sync'["bt"].stopWriting = sync["bt"].stopWriting
<1>1. /\ SameDoc /\ SameRes /\ SameData /\ lzPos' = lzPos /\ footed' = footed /\ pc["lz"] = "ask"
      /\ AskNext("lz", "bt", "wait") /\ btBi' = Given("bt")
  BY DEF Ask, SameDoc, SameRes, SameData, SameWindow, SameHash, SameBt, SamePtr,
         docVars, windowVars, hashVars, btVars, ptrVars
<1>2. /\ PcType /\ res \in {"ok", "error"} /\ faults \in Nat /\ lzPos \in Nat /\ footed \in Int
      /\ "lz" \in Threads /\ "wait" \in LzLabels
  BY DEF TypeInv, PcType, Threads, LzLabels
<1>3. BtBlocks \in Nat \ {0} /\ btBi \in 0 .. BtBlocks - 1 /\ Blocks("bt") = BtBlocks
  BY SizesAre DEF TypeInv, Blocks
<1>4. /\ pc' = [pc EXCEPT !["lz"] = "wait"] /\ sync' \in [Syncs -> SyncType]
      /\ sync'["hash"] = sync["hash"]
      /\ ~sync'["bt"].needStart /\ sync'["bt"].filled = sync["bt"].filled
      /\ ~BtAsked =>
           /\ sync'["bt"].free = sync["bt"].free /\ sync'["bt"].numProcessed = 1 % Blocks("bt")
           /\ sync'["bt"].canStart /\ ~sync'["bt"].exit
           /\ ~sync'["bt"].wasStopped /\ ~sync'["bt"].stopWriting
      /\ BtAsked =>
           /\ sync'["bt"].free = Released(sync["bt"].free, "bt")
           /\ sync'["bt"].numProcessed = (sync["bt"].numProcessed + 1) % Blocks("bt")
           /\ sync'["bt"].canStart = sync["bt"].canStart /\ sync'["bt"].exit = sync["bt"].exit
           /\ sync'["bt"].wasStopped = sync["bt"].wasStopped
           /\ sync'["bt"].stopWriting = sync["bt"].stopWriting
  BY <1>1, <1>2, TwoSyncs, AskNextDoes DEF BtAsked
<1>5. ~BtAsked => btBi' = 0 /\ 1 % Blocks("bt") = Place(0, 1, BtBlocks)
  BY <1>1, <1>3, PlaceIs DEF Given, BtAsked
<1>6. BtAsked => /\ btBi' = Place(btBi, 1, BtBlocks)
                 /\ (sync["bt"].numProcessed + 1) % Blocks("bt") = Place(btBi', 1, BtBlocks)
  <2> SUFFICES ASSUME BtAsked
               PROVE  /\ btBi' = Place(btBi, 1, BtBlocks)
                      /\ (sync["bt"].numProcessed + 1) % Blocks("bt") = Place(btBi', 1, BtBlocks)
    OBVIOUS
  <2>1. sync["bt"].numProcessed = Place(btBi, 1, BtBlocks)
    BY <1>1 DEF BtCount, LzRuns
  <2>2. btBi' = sync["bt"].numProcessed
    BY <1>1 DEF Given, BtAsked
  <2> DEFINE i == Place(btBi, 1, BtBlocks)
  <2>3. i \in 0 .. BtBlocks - 1
    BY <1>3, PlaceIs
  <2> HIDE DEF i
  <2>4. (i + 1) % BtBlocks = Place(i, 1, BtBlocks)
    BY <1>3, <2>3, PlaceIs
  <2> QED BY <1>3, <2>1, <2>2, <2>4 DEF i
<1>7. btBi' \in 0 .. BtBlocks - 1
  BY <1>3, <1>5, <1>6, PlaceIs
<1>8. PcType' /\ pc'["lz"] = "wait" /\ pc'["bt"] = pc["bt"] /\ pc'["hash"] = pc["hash"]
  BY <1>2, <1>4, LzGoes
<1>9. TypeInv'
  BY <1>1, <1>2, <1>4, <1>7, <1>8, TypeSame DEF TypeInv, SameRes
<1> QED BY <1>1, <1>4, <1>5, <1>6, <1>8, <1>9

LEMMA TakeDoes ==
  ASSUME TypeInv, Take
  PROVE  /\ TypeInv' /\ SameDoc /\ SameRes /\ SameData /\ SameLz
         /\ pc["lz"] = "wait" /\ pc'["lz"] = "encode"
         /\ pc'["bt"] = pc["bt"] /\ pc'["hash"] = pc["hash"]
         /\ sync'["hash"] = sync["hash"] /\ SameFlags("bt")
         /\ sync'["bt"].free = sync["bt"].free
         /\ sync'["bt"].numProcessed = sync["bt"].numProcessed
         /\ sync["bt"].filled > 0 /\ sync'["bt"].filled = sync["bt"].filled - 1
<1>1. /\ SameDoc /\ SameRes /\ SameData /\ SameLz /\ pc["lz"] = "wait"
      /\ TakeNext("lz", "bt", "encode")
  BY DEF Take, SameDoc, SameRes, SameData, SameWindow, SameHash, SameBt, SamePtr, SameLz,
         docVars, windowVars, hashVars, btVars, ptrVars, lzVars
<1>2. /\ PcType /\ res \in {"ok", "error"} /\ faults \in Nat
      /\ "lz" \in Threads /\ "encode" \in LzLabels
  BY DEF TypeInv, PcType, Threads, LzLabels
<1>3. /\ pc' = [pc EXCEPT !["lz"] = "encode"] /\ sync' \in [Syncs -> SyncType]
      /\ sync'["hash"] = sync["hash"] /\ SameFlags("bt")
      /\ sync'["bt"].free = sync["bt"].free /\ sync'["bt"].numProcessed = sync["bt"].numProcessed
      /\ sync["bt"].filled > 0 /\ sync'["bt"].filled = sync["bt"].filled - 1
  BY <1>1, <1>2, TwoSyncs, TakeNextDoes
<1>4. PcType' /\ pc'["lz"] = "encode" /\ pc'["bt"] = pc["bt"] /\ pc'["hash"] = pc["hash"]
  BY <1>2, <1>3, LzGoes
<1>5. TypeInv'
  BY <1>1, <1>2, <1>3, <1>4, TypeSame DEF TypeInv, SameRes, SameLz
<1> QED BY <1>1, <1>3, <1>4, <1>5

LEMMA EncodeDoes ==
  ASSUME TypeInv, Encode
  PROVE  /\ TypeInv' /\ SameDoc /\ SameWindow /\ SameHash /\ SameBt /\ sync' = sync
         /\ btPos' = btPos /\ btPtr' = btPtr /\ btBi' = btBi /\ footed' = footed
         /\ pc["lz"] = "encode" /\ btBuf[btBi].avail > 0
         /\ lzPos' = lzPos + btBuf[btBi].n /\ lzPtr' = lzPtr + btBuf[btBi].n
         /\ pc'["lz"] = "ask" \/ (pc'["lz"] = "stop" /\ res' # "ok")
         /\ pc'["bt"] = pc["bt"] /\ pc'["hash"] = pc["hash"]
         /\ (res = "ok" <=> faults = 0) => (res' = "ok" <=> faults' = 0)
<1>1. /\ SameDoc /\ SameWindow /\ SameHash /\ SameBt /\ sync' = sync
      /\ btPos' = btPos /\ btPtr' = btPtr /\ btBi' = btBi /\ footed' = footed
      /\ pc["lz"] = "encode" /\ btBuf[btBi].avail > 0
      /\ lzPos' = lzPos + btBuf[btBi].n /\ lzPtr' = lzPtr + btBuf[btBi].n
  BY DEF Encode, SameDoc, SameWindow, SameHash, SameBt, docVars, windowVars, hashVars, btVars
<1>2. \/ Works /\ UNCHANGED res
      \/ Fails /\ res' = "error"
  BY DEF Encode
<1>3. res' \in {"ok", "error"} /\ faults' \in Nat
      /\ ((res = "ok" <=> faults = 0) => (res' = "ok" <=> faults' = 0))
  BY <1>2, FaultType
<1>4. /\ PcType /\ btBuf[btBi].n \in Nat /\ lzPos \in Nat /\ lzPtr \in Int
      /\ "ask" \in LzLabels /\ "stop" \in LzLabels
  BY DEF TypeInv, PcType, LzLabels, BlockType
<1>5. \/ pc' = [pc EXCEPT !["lz"] = "ask"]
      \/ pc' = [pc EXCEPT !["lz"] = "stop"] /\ res' # "ok"
  BY DEF Encode
<1>6. /\ PcType'
      /\ pc'["lz"] = "ask" \/ (pc'["lz"] = "stop" /\ res' # "ok")
      /\ pc'["bt"] = pc["bt"] /\ pc'["hash"] = pc["hash"] /\ pc'["lz"] \in LzLabels
  <2>1. CASE pc' = [pc EXCEPT !["lz"] = "ask"]
    BY <1>4, <2>1, LzGoes
  <2>2. CASE pc' = [pc EXCEPT !["lz"] = "stop"] /\ res' # "ok"
    BY <1>4, <2>2, LzGoes
  <2> QED BY <1>5, <2>1, <2>2
<1>7. lzPos' \in Nat /\ lzPtr' \in Int
  BY <1>1, <1>4
<1>8. sync' \in [Syncs -> SyncType] /\ pc'["bt"] \in BtLabels /\ pc'["hash"] \in HashLabels
  BY <1>1, <1>6 DEF TypeInv
<1>9. btPos' \in Nat /\ btPtr' \in Int /\ btBi' \in 0 .. BtBlocks - 1 /\ footed' \in Int
  BY <1>1 DEF TypeInv
<1>10. TypeInv'
  BY <1>1, <1>3, <1>6, <1>7, <1>8, <1>9, TypeMoved
<1> QED BY <1>1, <1>3, <1>6, <1>10

LEMMA BtLockDoes ==
  ASSUME TypeInv, BtLock
  PROVE  /\ TypeInv' /\ SameDoc /\ SameRes /\ SameWindow /\ SameHash /\ SamePtr /\ SameLz /\ sync' = sync
         /\ hashLeft' = hashLeft /\ hashAvail' = hashAvail /\ hashBi' = hashBi /\ btIndex' = btIndex
         /\ pc["bt"] = "lock" /\ pc'["bt"] = "fill" /\ pc'["lz"] = pc["lz"] /\ pc'["hash"] = pc["hash"]
         /\ d'.at = btPos /\ d'.n = 0 /\ d'.avail = hashAvail /\ d'.words = 2
         /\ \A i \in 0 .. BtBlocks - 1 : i # btIndex => btBuf'[i] = btBuf[i]
<1>1. /\ SameDoc /\ SameRes /\ SameWindow /\ SameHash /\ SamePtr /\ SameLz /\ sync' = sync
      /\ hashLeft' = hashLeft /\ hashAvail' = hashAvail /\ hashBi' = hashBi /\ btIndex' = btIndex
      /\ pc["bt"] = "lock" /\ pc' = [pc EXCEPT !["bt"] = "fill"]
      /\ d' = [at |-> btPos, n |-> 0, avail |-> hashAvail, words |-> 2]
      /\ btBuf' = [btBuf EXCEPT ![btIndex].at = None]
  BY DEF BtLock, SameDoc, SameRes, SameWindow, SameHash, SamePtr, SameLz, Goto,
         docVars, windowVars, hashVars, ptrVars, lzVars
<1>2. /\ PcType /\ "fill" \in BtLabels /\ btPos \in Nat /\ hashAvail \in Nat
      /\ btBuf \in [0 .. BtBlocks - 1 -> BlockType] /\ btIndex \in 0 .. BtBlocks - 1
  BY DEF TypeInv, PcType, BtLabels
<1>3. PcType' /\ pc'["bt"] = "fill" /\ pc'["lz"] = pc["lz"] /\ pc'["hash"] = pc["hash"]
  BY <1>1, <1>2, BtGoes
<1>4. /\ d'.at = btPos /\ d'.n = 0 /\ d'.avail = hashAvail /\ d'.words = 2
      /\ d' \in [at : Nat, n : Nat, avail : Nat, words : Nat]
  BY <1>1, <1>2
<1>5. btBuf[btIndex] \in BlockType /\ [btBuf[btIndex] EXCEPT !.at = None] \in BlockType
  BY <1>2 DEF BlockType
<1>6. btBuf' = [btBuf EXCEPT ![btIndex] = [btBuf[btIndex] EXCEPT !.at = None]]
  BY <1>1
<1>7. /\ btBuf' \in [0 .. BtBlocks - 1 -> BlockType]
      /\ \A i \in 0 .. BtBlocks - 1 : i # btIndex => btBuf'[i] = btBuf[i]
  BY <1>2, <1>5, <1>6
<1>8. /\ sync' \in [Syncs -> SyncType] /\ pc'["lz"] \in LzLabels /\ pc'["hash"] \in HashLabels
      /\ pc'["bt"] \in BtLabels
  BY <1>1, <1>2, <1>3 DEF TypeInv
<1>9. TypeInv'
  BY <1>1, <1>3, <1>4, <1>7, <1>8
     DEF TypeInv, PcType, SameDoc, SameRes, SameWindow, SameHash, SamePtr, SameLz
<1> QED BY <1>1, <1>3, <1>4, <1>7, <1>9

LEMMA BtAskDoes ==
  ASSUME TypeInv, HashCount, BtAsk
  PROVE  /\ TypeInv' /\ SameDoc /\ SameRes /\ SameWindow /\ SameHash /\ SamePtr /\ SameLz
         /\ hashLeft' = hashLeft /\ hashAvail' = hashAvail /\ d' = d
         /\ btBuf' = btBuf /\ btIndex' = btIndex
         /\ pc["bt"] = "fill" /\ pc'["bt"] = "wait" /\ d.words < Limit /\ hashLeft = 0
         /\ pc'["lz"] = pc["lz"] /\ pc'["hash"] = pc["hash"]
         /\ sync'["bt"] = sync["bt"]
         /\ ~sync'["hash"].needStart /\ sync'["hash"].filled = sync["hash"].filled
         /\ ~HashAsked =>
              /\ hashBi' = 0 /\ sync'["hash"].free = sync["hash"].free
              /\ sync'["hash"].numProcessed = Place(0, 1, HashBlocks)
              /\ sync'["hash"].canStart /\ ~sync'["hash"].exit
              /\ ~sync'["hash"].wasStopped /\ ~sync'["hash"].stopWriting
         /\ HashAsked =>
              /\ hashBi' = Place(hashBi, 1, HashBlocks)
              /\ sync'["hash"].free = Released(sync["hash"].free, "hash")
              /\ sync'["hash"].numProcessed = Place(hashBi', 1, HashBlocks)
              /\ sync'["hash"].canStart = sync["hash"].canStart
              /\ sync'["hash"].exit = sync["hash"].exit
              /\ sync'["hash"].wasStopped = sync["hash"].wasStopped
              /\ sync'["hash"].stopWriting = sync["hash"].stopWriting
<1>1. /\ SameDoc /\ SameRes /\ SameWindow /\ SameHash /\ SamePtr /\ SameLz
      /\ hashLeft' = hashLeft /\ hashAvail' = hashAvail /\ d' = d
      /\ btBuf' = btBuf /\ btIndex' = btIndex /\ pc["bt"] = "fill" /\ d.words < Limit /\ hashLeft = 0
      /\ AskNext("bt", "hash", "wait") /\ hashBi' = Given("hash")
  BY DEF BtAsk, SameDoc, SameRes, SameWindow, SameHash, SamePtr, SameLz,
         docVars, windowVars, hashVars, ptrVars, lzVars
<1>2. PcType /\ "bt" \in Threads /\ "wait" \in BtLabels
  BY DEF TypeInv, PcType, Threads, BtLabels
<1>3. /\ HashBlocks \in Nat \ {0} /\ hashBi \in 0 .. HashBlocks - 1 /\ Blocks("hash") = HashBlocks
  BY SizesAre DEF TypeInv, Blocks
<1>4. /\ pc' = [pc EXCEPT !["bt"] = "wait"] /\ sync' \in [Syncs -> SyncType]
      /\ sync'["bt"] = sync["bt"]
      /\ ~sync'["hash"].needStart /\ sync'["hash"].filled = sync["hash"].filled
      /\ ~HashAsked =>
           /\ sync'["hash"].free = sync["hash"].free /\ sync'["hash"].numProcessed = 1 % Blocks("hash")
           /\ sync'["hash"].canStart /\ ~sync'["hash"].exit
           /\ ~sync'["hash"].wasStopped /\ ~sync'["hash"].stopWriting
      /\ HashAsked =>
           /\ sync'["hash"].free = Released(sync["hash"].free, "hash")
           /\ sync'["hash"].numProcessed = (sync["hash"].numProcessed + 1) % Blocks("hash")
           /\ sync'["hash"].canStart = sync["hash"].canStart /\ sync'["hash"].exit = sync["hash"].exit
           /\ sync'["hash"].wasStopped = sync["hash"].wasStopped
           /\ sync'["hash"].stopWriting = sync["hash"].stopWriting
  BY <1>1, <1>2, TwoSyncs, AskNextDoes DEF HashAsked
<1>5. ~HashAsked => hashBi' = 0 /\ 1 % Blocks("hash") = Place(0, 1, HashBlocks)
  BY <1>1, <1>3, PlaceIs DEF Given, HashAsked
<1>6. HashAsked => /\ hashBi' = Place(hashBi, 1, HashBlocks)
                   /\ (sync["hash"].numProcessed + 1) % Blocks("hash") = Place(hashBi', 1, HashBlocks)
  <2> SUFFICES ASSUME HashAsked
               PROVE  /\ hashBi' = Place(hashBi, 1, HashBlocks)
                      /\ (sync["hash"].numProcessed + 1) % Blocks("hash") = Place(hashBi', 1, HashBlocks)
    OBVIOUS
  <2>1. sync["hash"].numProcessed = Place(hashBi, 1, HashBlocks)
    BY DEF HashCount
  <2>2. hashBi' = sync["hash"].numProcessed
    BY <1>1 DEF Given, HashAsked
  <2> DEFINE i == Place(hashBi, 1, HashBlocks)
  <2>3. i \in 0 .. HashBlocks - 1
    BY <1>3, PlaceIs
  <2> HIDE DEF i
  <2>4. (i + 1) % HashBlocks = Place(i, 1, HashBlocks)
    BY <1>3, <2>3, PlaceIs
  <2> QED BY <1>3, <2>1, <2>2, <2>4 DEF i
<1>7. hashBi' \in 0 .. HashBlocks - 1
  BY <1>3, <1>5, <1>6, PlaceIs
<1>8. PcType' /\ pc'["bt"] = "wait" /\ pc'["lz"] = pc["lz"] /\ pc'["hash"] = pc["hash"]
  BY <1>2, <1>4, BtGoes
<1>9. pc'["lz"] \in LzLabels /\ pc'["hash"] \in HashLabels /\ pc'["bt"] \in BtLabels
  BY <1>2, <1>8 DEF TypeInv
<1>10. TypeInv'
  BY <1>1, <1>4, <1>7, <1>8, <1>9
     DEF TypeInv, PcType, SameDoc, SameRes, SameWindow, SameHash, SamePtr, SameLz
<1> QED BY <1>1, <1>4, <1>5, <1>6, <1>8, <1>10

LEMMA BtTakeDoes ==
  ASSUME TypeInv, BtTake
  PROVE  /\ TypeInv' /\ SameDoc /\ SameRes /\ SameWindow /\ SameHash /\ SamePtr /\ SameLz
         /\ hashBi' = hashBi /\ btBuf' = btBuf /\ btIndex' = btIndex
         /\ pc["bt"] = "wait" /\ pc'["lz"] = pc["lz"] /\ pc'["hash"] = pc["hash"]
         /\ sync'["bt"] = sync["bt"] /\ SameFlags("hash")
         /\ sync'["hash"].free = sync["hash"].free
         /\ sync'["hash"].numProcessed = sync["hash"].numProcessed
         /\ sync["hash"].filled > 0 /\ sync'["hash"].filled = sync["hash"].filled - 1
         /\ hashLeft' = hashBuf[hashBi].n /\ d'.at = d.at
         /\ d'.avail = d.n + hashBuf[hashBi].avail
         /\ \/ /\ hashBuf[hashBi].avail >= NumHash /\ pc'["bt"] = "fill"
               /\ hashAvail' = hashBuf[hashBi].avail /\ d'.n = d.n /\ d'.words = d.words
            \/ /\ hashBuf[hashBi].avail < NumHash /\ pc'["bt"] = "end" /\ hashAvail' = 0
               /\ d'.n = d.n + hashBuf[hashBi].avail /\ d'.words = d.words + hashBuf[hashBi].avail
<1> DEFINE h == hashBuf[hashBi]
           some == h.avail >= NumHash
<1>1. /\ SameDoc /\ SameRes /\ SameWindow /\ SameHash /\ SamePtr /\ SameLz
      /\ hashBi' = hashBi /\ btBuf' = btBuf /\ btIndex' = btIndex /\ pc["bt"] = "wait"
      /\ TakeNext("bt", "hash", IF some THEN "fill" ELSE "end")
      /\ hashLeft' = h.n /\ hashAvail' = IF some THEN h.avail ELSE 0
      /\ d' = IF some THEN [d EXCEPT !.avail = d.n + h.avail]
              ELSE [d EXCEPT !.avail = d.n + h.avail, !.n = @ + h.avail, !.words = @ + h.avail]
  BY DEF BtTake, SameDoc, SameRes, SameWindow, SameHash, SamePtr, SameLz,
         docVars, windowVars, hashVars, ptrVars, lzVars
<1>2. /\ PcType /\ "bt" \in Threads /\ {"fill", "end"} \subseteq BtLabels
      /\ d \in [at : Nat, n : Nat, avail : Nat, words : Nat] /\ h.n \in Nat /\ h.avail \in Nat
      /\ NumHash \in Nat
  BY SizesAre DEF TypeInv, PcType, Threads, BtLabels, BlockType
<1>3. /\ pc' = [pc EXCEPT !["bt"] = IF some THEN "fill" ELSE "end"]
      /\ sync' \in [Syncs -> SyncType]
      /\ sync'["bt"] = sync["bt"] /\ SameFlags("hash")
      /\ sync'["hash"].free = sync["hash"].free
      /\ sync'["hash"].numProcessed = sync["hash"].numProcessed
      /\ sync["hash"].filled > 0 /\ sync'["hash"].filled = sync["hash"].filled - 1
  BY <1>1, <1>2, TwoSyncs, TakeNextDoes
<1> HIDE DEF h
<1>4. /\ PcType' /\ pc'["bt"] = (IF some THEN "fill" ELSE "end")
      /\ pc'["lz"] = pc["lz"] /\ pc'["hash"] = pc["hash"]
  BY <1>2, <1>3, BtGoes
<1>5. /\ d' \in [at : Nat, n : Nat, avail : Nat, words : Nat] /\ d'.at = d.at /\ d'.avail = d.n + h.avail
      /\ hashAvail' \in Nat
      /\ \/ /\ some /\ pc'["bt"] = "fill"
            /\ hashAvail' = h.avail /\ d'.n = d.n /\ d'.words = d.words
         \/ /\ ~some /\ pc'["bt"] = "end" /\ hashAvail' = 0
            /\ d'.n = d.n + h.avail /\ d'.words = d.words + h.avail
  <2>1. CASE some
    BY <1>1, <1>2, <1>4, <2>1
  <2>2. CASE ~some
    <3>1. d' = [d EXCEPT !.avail = d.n + h.avail, !.n = d.n + h.avail, !.words = d.words + h.avail]
      BY <1>1, <1>2, <2>2
    <3> DEFINE n == d.n + h.avail
               words == d.words + h.avail
    <3>2. n \in Nat /\ words \in Nat
      BY <1>2
    <3>3. d' = [d EXCEPT !.avail = n, !.n = n, !.words = words]
      BY <3>1
    <3> HIDE DEF n, words
    <3>4. /\ d' \in [at : Nat, n : Nat, avail : Nat, words : Nat] /\ d'.at = d.at
          /\ d'.avail = n /\ d'.n = n /\ d'.words = words
      BY <1>2, <3>2, <3>3
    <3>5. hashAvail' = 0 /\ pc'["bt"] = "end"
      BY <1>1, <1>4, <2>2
    <3> QED BY <2>2, <3>4, <3>5 DEF n, words
  <2> QED BY <2>1, <2>2
<1>6. /\ pc'["lz"] \in LzLabels /\ pc'["hash"] \in HashLabels /\ pc'["bt"] \in BtLabels
      /\ hashLeft' \in Nat
  BY <1>1, <1>2, <1>4 DEF TypeInv
<1>7. TypeInv'
  BY <1>1, <1>3, <1>4, <1>5, <1>6
     DEF TypeInv, PcType, SameDoc, SameRes, SameWindow, SameHash, SamePtr, SameLz
<1>8. ~some => h.avail < NumHash
  BY <1>2
<1> QED BY <1>1, <1>3, <1>4, <1>5, <1>7, <1>8 DEF h

LEMMA DivBelow == \A a \in Nat, b \in Nat \ {0} : b * (a \div b) <= a /\ a \div b \in Nat
  OBVIOUS

LEMMA TimesOrder == \A a, b \in Nat, c \in Nat \ {0} : a <= b => c * a <= c * b /\ a <= c * a /\ c * a \in Nat
  OBVIOUS

\* However many matches the positions have, they fit in the block.
LEMMA BtMatchDoes ==
  ASSUME TypeInv, hashLeft <= hashAvail, BtMatch
  PROVE  /\ TypeInv' /\ SameDoc /\ SameRes /\ SameWindow /\ SameHash /\ SameLz
         /\ sync' = sync /\ pc' = pc
         /\ hashBi' = hashBi /\ btBuf' = btBuf /\ btIndex' = btIndex /\ lzPtr' = lzPtr
         /\ pc["bt"] = "fill" /\ d.words < Limit /\ hashLeft > 0
         /\ \E k \in 1 .. hashLeft, w \in Nat :
              /\ k <= w /\ d.words + w <= BtBlock
              /\ d'.at = d.at /\ d'.avail = d.avail /\ d'.n = d.n + k /\ d'.words = d.words + w
              /\ hashLeft' = hashLeft - k /\ hashAvail' = hashAvail - k
              /\ btPos' = btPos + k /\ btPtr' = btPtr + k
<1>1. /\ SameDoc /\ SameRes /\ SameWindow /\ SameHash /\ SameLz /\ sync' = sync /\ pc' = pc
      /\ hashBi' = hashBi /\ btBuf' = btBuf /\ btIndex' = btIndex /\ lzPtr' = lzPtr
      /\ pc["bt"] = "fill" /\ d.words < Limit /\ hashLeft > 0
  BY DEF BtMatch, SameDoc, SameRes, SameWindow, SameHash, SameLz,
         docVars, windowVars, hashVars, lzVars
<1>2. PICK cost \in Costs :
        LET room == (Limit - d.words + cost - 1) \div cost
            k == IF room < hashLeft THEN room ELSE hashLeft
        IN  /\ d' = [d EXCEPT !.n = @ + k, !.words = @ + k * cost]
            /\ hashLeft' = hashLeft - k /\ hashAvail' = hashAvail - k
            /\ btPos' = btPos + k /\ btPtr' = btPtr + k
  BY DEF BtMatch
<1> DEFINE left == Limit - d.words
           room == (left + cost - 1) \div cost
           k == IF room < hashLeft THEN room ELSE hashLeft
<1>3. /\ d' = [d EXCEPT !.n = @ + k, !.words = @ + k * cost]
      /\ hashLeft' = hashLeft - k /\ hashAvail' = hashAvail - k
      /\ btPos' = btPos + k /\ btPtr' = btPtr + k
  BY <1>2
<1>4. /\ d \in [at : Nat, n : Nat, avail : Nat, words : Nat] /\ hashLeft \in Nat /\ hashAvail \in Nat
      /\ btPos \in Nat /\ btPtr \in Int
  BY DEF TypeInv
<1>5. cost \in Nat \ {0} /\ Limit + cost - 1 <= BtBlock /\ Limit \in Nat
  <2>1. cost = 1 \/ cost = 1 + 2 * (MatchMax - NumHash + 1)
    BY DEF Costs
  <2> QED BY <2>1, SizesAre
<1>6. left \in Nat \ {0}
  BY <1>1, <1>4, <1>5
<1> HIDE DEF left
<1>7. room \in Nat \ {0} /\ cost * room <= left + cost - 1
  <2> DEFINE a == left + cost - 1
  <2>1. a \in Nat /\ a >= cost
    BY <1>5, <1>6
  <2> HIDE DEF a
  <2>2. a \div cost \in Nat /\ cost * (a \div cost) <= a
    BY <1>5, <2>1, DivBelow
  <2>3. a \div cost # 0
    BY <1>5, <2>1
  <2> QED BY <2>2, <2>3 DEF a
<1> HIDE DEF room
<1>8. k \in 1 .. hashLeft /\ k <= room
  BY <1>1, <1>4, <1>7
<1> HIDE DEF k
<1>9. /\ cost * k <= cost * room /\ k <= cost * k /\ cost * k \in Nat
  BY <1>4, <1>5, <1>7, <1>8, TimesOrder
<1> DEFINE w == cost * k
<1>10. w \in Nat /\ k <= w /\ w <= left + cost - 1
  <2> DEFINE all == cost * room
  <2>1. w <= all /\ all <= left + cost - 1 /\ all \in Nat
    BY <1>5, <1>7, <1>9
  <2>2. w \in Nat /\ k <= w
    BY <1>9
  <2> HIDE DEF all, w
  <2> QED BY <1>5, <1>6, <2>1, <2>2
<1>11. d' = [d EXCEPT !.n = d.n + k, !.words = d.words + w]
  <2>1. k * cost = w
    BY <1>4, <1>5, <1>8
  <2> QED BY <1>3, <1>4, <2>1
<1> HIDE DEF w
<1>12. /\ d' \in [at : Nat, n : Nat, avail : Nat, words : Nat] /\ d'.at = d.at /\ d'.avail = d.avail
       /\ d'.n = d.n + k /\ d'.words = d.words + w
  <2> DEFINE n == d.n + k
             words == d.words + w
  <2>1. n \in Nat /\ words \in Nat
    BY <1>4, <1>8, <1>10
  <2>2. d' = [d EXCEPT !.n = n, !.words = words]
    BY <1>11
  <2> HIDE DEF n, words
  <2>3. /\ d' \in [at : Nat, n : Nat, avail : Nat, words : Nat] /\ d'.at = d.at /\ d'.avail = d.avail
        /\ d'.n = n /\ d'.words = words
    BY <1>4, <2>1, <2>2
  <2> QED BY <2>3 DEF n, words
<1>13. hashLeft' \in Nat /\ hashAvail' \in Nat /\ btPos' \in Nat /\ btPtr' \in Int
  BY <1>3, <1>4, <1>8
<1>14. d.words + w <= BtBlock
  BY <1>4, <1>5, <1>10, SizesAre DEF left
<1>15. /\ pc' \in [Threads -> LzLabels \cup BtLabels \cup HashLabels] /\ pc'["lz"] \in LzLabels
       /\ pc'["bt"] \in BtLabels /\ pc'["hash"] \in HashLabels /\ sync' \in [Syncs -> SyncType]
  BY <1>1 DEF TypeInv
<1>16. TypeInv'
  BY <1>1, <1>12, <1>13, <1>15 DEF TypeInv, SameDoc, SameRes, SameWindow, SameHash, SameLz
<1> QED BY <1>1, <1>3, <1>8, <1>10, <1>12, <1>14, <1>16

LEMMA BtEndDoes ==
  ASSUME TypeInv, BtCount, BtEnd
  PROVE  /\ TypeInv' /\ SameDoc /\ SameRes /\ SameWindow /\ SameHash /\ SamePtr /\ SameLz
         /\ hashLeft' = hashLeft /\ hashAvail' = hashAvail /\ hashBi' = hashBi /\ d' = d
         /\ pc["bt"] = "end" \/ (pc["bt"] = "fill" /\ d.words >= Limit)
         /\ pc'["bt"] = "free" /\ pc'["lz"] = pc["lz"] /\ pc'["hash"] = pc["hash"]
         /\ sync'["hash"] = sync["hash"] /\ SameFlags("bt")
         /\ sync'["bt"].free = sync["bt"].free /\ sync'["bt"].filled = sync["bt"].filled + 1
         /\ sync'["bt"].numProcessed = sync["bt"].numProcessed
         /\ btIndex' = Place(btIndex, 1, BtBlocks)
         /\ btBuf'[btIndex].at = d.at /\ btBuf'[btIndex].n = d.n /\ btBuf'[btIndex].avail = d.avail
         /\ \A i \in 0 .. BtBlocks - 1 : i # btIndex => btBuf'[i] = btBuf[i]
<1>1. /\ SameDoc /\ SameRes /\ SameWindow /\ SameHash /\ SamePtr /\ SameLz
      /\ hashLeft' = hashLeft /\ hashAvail' = hashAvail /\ hashBi' = hashBi /\ d' = d
      /\ pc["bt"] = "end" \/ (pc["bt"] = "fill" /\ d.words >= Limit)
      /\ btBuf' = [btBuf EXCEPT ![btIndex] = [at |-> d.at, n |-> d.n, avail |-> d.avail]]
      /\ btIndex' = (btIndex + 1) % BtBlocks
      /\ sync' = [sync EXCEPT !["bt"].filled = Released(@, "bt")]
      /\ pc' = [pc EXCEPT !["bt"] = "free"]
  BY DEF BtEnd, SameDoc, SameRes, SameWindow, SameHash, SamePtr, SameLz, Goto,
         docVars, windowVars, hashVars, ptrVars, lzVars
<1>2. /\ PcType /\ "free" \in BtLabels /\ d \in [at : Nat, n : Nat, avail : Nat, words : Nat]
      /\ btBuf \in [0 .. BtBlocks - 1 -> BlockType] /\ btIndex \in 0 .. BtBlocks - 1
      /\ sync["bt"].filled \in Nat
  BY TwoSyncs DEF TypeInv, PcType, BtLabels, SyncType
<1>3. PcType' /\ pc'["bt"] = "free" /\ pc'["lz"] = pc["lz"] /\ pc'["hash"] = pc["hash"]
  BY <1>1, <1>2, BtGoes
<1>4. /\ sync' \in [Syncs -> SyncType] /\ sync'["hash"] = sync["hash"] /\ SameFlags("bt")
      /\ sync'["bt"].filled = Released(sync["bt"].filled, "bt")
      /\ sync'["bt"].free = sync["bt"].free /\ sync'["bt"].numProcessed = sync["bt"].numProcessed
  BY <1>1, TwoSyncs, FilledDoes
<1>5. sync["bt"].filled < Blocks("bt")
  <2>1. BtFilling = 1 /\ Blocks("bt") = BtBlocks
    BY <1>1 DEF BtFilling, Blocks
  <2>2. sync["bt"].filled + 1 <= BtBlocks /\ BtBlocks \in Nat
    BY <2>1, SizesAre DEF BtCount
  <2> QED BY <1>2, <2>1, <2>2
<1>6. sync'["bt"].filled = sync["bt"].filled + 1
  BY <1>2, <1>4, <1>5, TwoSyncs, ReleasedIs
<1>7. [at |-> d.at, n |-> d.n, avail |-> d.avail] \in BlockType
  BY <1>2 DEF BlockType
<1>8. /\ btBuf' \in [0 .. BtBlocks - 1 -> BlockType]
      /\ btBuf'[btIndex].at = d.at /\ btBuf'[btIndex].n = d.n /\ btBuf'[btIndex].avail = d.avail
      /\ \A i \in 0 .. BtBlocks - 1 : i # btIndex => btBuf'[i] = btBuf[i]
  BY <1>1, <1>2, <1>7
<1>9. btIndex' = Place(btIndex, 1, BtBlocks) /\ btIndex' \in 0 .. BtBlocks - 1
  <2>1. BtBlocks \in Nat \ {0} /\ 1 \in 0 .. BtBlocks
    BY SizesAre
  <2>2. /\ (btIndex + 1) % BtBlocks = Place(btIndex, 1, BtBlocks)
        /\ Place(btIndex, 1, BtBlocks) \in 0 .. BtBlocks - 1
    BY <1>2, <2>1, PlaceIs
  <2> QED BY <1>1, <2>2
<1>10. pc'["lz"] \in LzLabels /\ pc'["hash"] \in HashLabels /\ pc'["bt"] \in BtLabels
  BY <1>2, <1>3 DEF TypeInv
<1>11. TypeInv'
  BY <1>1, <1>3, <1>4, <1>8, <1>9, <1>10
     DEF TypeInv, PcType, SameDoc, SameRes, SameWindow, SameHash, SamePtr, SameLz
<1> QED BY <1>1, <1>3, <1>4, <1>6, <1>8, <1>9, <1>11

LEMMA HashMoveDoes ==
  ASSUME TypeInv, StreamInv, HashMove
  PROVE  /\ TypeInv' /\ SameDoc /\ SameRes /\ SameHash /\ SameBt /\ SameLz /\ sync' = sync
         /\ streamPos' = streamPos /\ streamEnd' = streamEnd /\ btPos' = btPos
         /\ pc["hash"] = "move" /\ pc'["hash"] = "loop" /\ pc'["lz"] = pc["lz"] /\ pc'["bt"] = pc["bt"]
         /\ ~streamEnd /\ base <= base' /\ base' + KeepBefore <= pos
         /\ lzPtr' - lzPtr = base - base' /\ btPtr' - btPtr = base - base'
<1> DEFINE offset == pos - base - KeepBefore
           shift == offset - (offset % Align)
<1>1. /\ SameDoc /\ SameRes /\ SameHash /\ SameBt /\ SameLz /\ sync' = sync
      /\ streamPos' = streamPos /\ streamEnd' = streamEnd /\ btPos' = btPos
      /\ pc["hash"] = "move" /\ pc' = [pc EXCEPT !["hash"] = "loop"]
      /\ base' = base + shift /\ lzPtr' = lzPtr - shift /\ btPtr' = btPtr - shift
  BY DEF HashMove, SameDoc, SameRes, SameHash, SameBt, SameLz, Goto,
         docVars, hashVars, btVars, lzVars
<1>2. /\ PcType /\ "loop" \in HashLabels /\ base \in Nat /\ pos \in Nat
      /\ lzPtr \in Int /\ btPtr \in Int
  BY DEF TypeInv, PcType, HashLabels
<1>3. PcType' /\ pc'["hash"] = "loop" /\ pc'["lz"] = pc["lz"] /\ pc'["bt"] = pc["bt"]
  BY <1>1, <1>2, HashGoes
<1>4. ~streamEnd /\ base + Window - pos <= KeepAfter
  BY <1>1 DEF StreamInv, NeedMove
<1>5. offset \in Nat
  BY <1>2, <1>4, SizesAre
<1>6. offset + base + KeepBefore = pos
  BY <1>2, SizesAre
<1> HIDE DEF offset
<1>7. shift \in Nat /\ shift <= offset
  <2>1. Align \in Nat \ {0}
    BY SizesAre
  <2>2. offset % Align \in Nat /\ offset % Align <= offset
    <3>1. CASE offset < Align
      BY <1>5, <2>1, <3>1
    <3>2. CASE offset >= Align
      BY <1>5, <2>1, <3>2
    <3> QED BY <1>5, <2>1, <3>1, <3>2
  <2> QED BY <1>5, <2>2
<1> HIDE DEF shift
<1>8. /\ base' \in Nat /\ lzPtr' \in Int /\ btPtr' \in Int /\ base <= base' /\ base' + KeepBefore <= pos
      /\ lzPtr' - lzPtr = base - base' /\ btPtr' - btPtr = base - base'
  <2>1. KeepBefore \in Nat
    BY SizesAre
  <2> QED BY <1>1, <1>2, <1>5, <1>6, <1>7, <2>1
<1>9. /\ sync' \in [Syncs -> SyncType] /\ pc'["lz"] \in LzLabels /\ pc'["hash"] \in HashLabels
      /\ pc'["bt"] \in BtLabels /\ streamPos' \in Nat /\ streamEnd' \in BOOLEAN /\ btPos' \in Nat
  BY <1>1, <1>2, <1>3 DEF TypeInv
<1>10. TypeInv'
  BY <1>1, <1>3, <1>8, <1>9 DEF TypeInv, PcType, SameDoc, SameRes, SameHash, SameBt, SameLz
<1> QED BY <1>1, <1>3, <1>4, <1>8, <1>10

LEMMA HashFreeDoes ==
  ASSUME TypeInv, HashFree
  PROVE  /\ TypeInv' /\ SameDoc /\ SameRes /\ SameWindow /\ SameBt /\ SamePtr /\ SameLz
         /\ pos' = pos /\ hashIndex' = hashIndex
         /\ pc["hash"] = "loop" /\ ~NeedMove /\ pc'["lz"] = pc["lz"] /\ pc'["bt"] = pc["bt"]
         /\ sync'["bt"] = sync["bt"] /\ SameFlags("hash")
         /\ sync["hash"].free > 0 /\ sync'["hash"].free = sync["hash"].free - 1
         /\ sync'["hash"].filled = sync["hash"].filled
         /\ sync'["hash"].numProcessed = sync["hash"].numProcessed
         /\ \/ pc'["hash"] = "stopped" /\ sync["hash"].stopWriting /\ hashBuf' = hashBuf
            \/ /\ pc'["hash"] = "read" /\ ~sync["hash"].stopWriting
               /\ \A i \in 0 .. HashBlocks - 1 : i # hashIndex => hashBuf'[i] = hashBuf[i]
<1>1. /\ SameDoc /\ SameRes /\ SameWindow /\ SameBt /\ SamePtr /\ SameLz
      /\ pos' = pos /\ hashIndex' = hashIndex /\ pc["hash"] = "loop" /\ ~NeedMove
      /\ TakeFree("hash")
  BY DEF HashFree, SameDoc, SameRes, SameWindow, SameBt, SamePtr, SameLz,
         docVars, windowVars, btVars, ptrVars, lzVars
<1>2. /\ sync' \in [Syncs -> SyncType]
      /\ sync'["bt"] = sync["bt"] /\ SameFlags("hash")
      /\ sync["hash"].free > 0 /\ sync'["hash"].free = sync["hash"].free - 1
      /\ sync'["hash"].filled = sync["hash"].filled
      /\ sync'["hash"].numProcessed = sync["hash"].numProcessed
  BY <1>1, TwoSyncs, TakeFreeDoes
<1>3. /\ PcType /\ "stopped" \in HashLabels /\ "read" \in HashLabels
      /\ hashBuf \in [0 .. HashBlocks - 1 -> BlockType] /\ hashIndex \in 0 .. HashBlocks - 1
  BY DEF TypeInv, PcType, HashLabels
<1>4. /\ PcType' /\ pc'["lz"] = pc["lz"] /\ pc'["bt"] = pc["bt"] /\ pc'["hash"] \in HashLabels
      /\ hashBuf' \in [0 .. HashBlocks - 1 -> BlockType]
      /\ \/ pc'["hash"] = "stopped" /\ sync["hash"].stopWriting /\ hashBuf' = hashBuf
         \/ /\ pc'["hash"] = "read" /\ ~sync["hash"].stopWriting
            /\ \A i \in 0 .. HashBlocks - 1 : i # hashIndex => hashBuf'[i] = hashBuf[i]
  <2>1. CASE sync["hash"].stopWriting
    <3>1. pc' = [pc EXCEPT !["hash"] = "stopped"] /\ hashBuf' = hashBuf
      BY <2>1 DEF HashFree, Goto
    <3>2. PcType' /\ pc'["hash"] = "stopped" /\ pc'["lz"] = pc["lz"] /\ pc'["bt"] = pc["bt"]
      BY <1>3, <3>1, HashGoes
    <3> QED BY <1>3, <2>1, <3>1, <3>2
  <2>2. CASE ~sync["hash"].stopWriting
    <3>1. pc' = [pc EXCEPT !["hash"] = "read"] /\ hashBuf' = [hashBuf EXCEPT ![hashIndex].at = None]
      BY <2>2 DEF HashFree, Goto
    <3>2. PcType' /\ pc'["hash"] = "read" /\ pc'["lz"] = pc["lz"] /\ pc'["bt"] = pc["bt"]
      BY <1>3, <3>1, HashGoes
    <3>3. hashBuf[hashIndex] \in BlockType /\ [hashBuf[hashIndex] EXCEPT !.at = None] \in BlockType
      BY <1>3 DEF BlockType
    <3>4. hashBuf' = [hashBuf EXCEPT ![hashIndex] = [hashBuf[hashIndex] EXCEPT !.at = None]]
      BY <3>1
    <3>5. /\ hashBuf' \in [0 .. HashBlocks - 1 -> BlockType]
          /\ \A i \in 0 .. HashBlocks - 1 : i # hashIndex => hashBuf'[i] = hashBuf[i]
      BY <1>3, <3>3, <3>4
    <3> QED BY <1>3, <2>2, <3>2, <3>5
  <2> QED BY <2>1, <2>2
<1>5. pc'["lz"] \in LzLabels /\ pc'["bt"] \in BtLabels
  BY <1>4 DEF TypeInv
<1>6. TypeInv'
  BY <1>1, <1>2, <1>4, <1>5
     DEF TypeInv, PcType, SameDoc, SameRes, SameWindow, SameBt, SamePtr, SameLz
<1> QED BY <1>1, <1>2, <1>4, <1>6

\* What a read leaves: the hash thread sees the end before it runs out of bytes.
LEMMA ReadDoes ==
  ASSUME TypeInv, StreamInv, ~NeedMove, streamPos <= base + Window, Read
  PROVE  /\ streamPos' \in Nat /\ streamEnd' \in BOOLEAN
         /\ streamPos <= streamPos' /\ streamPos' <= size /\ streamPos' <= base + Window
         /\ streamEnd' => streamPos' = size
         /\ streamEnd => streamEnd' /\ streamPos' = streamPos
         /\ streamPos' - pos < NumHash => streamEnd'
<1>1. /\ streamPos \in Nat /\ size \in Nat /\ pos \in Nat /\ base \in Nat /\ streamEnd \in BOOLEAN
      /\ NumHash \in Nat /\ KeepAfter \in Nat /\ NumHash <= KeepAfter /\ Window \in Nat
  <2>1. size \in Nat
    BY SizesAre DEF TypeInv
  <2>2. Window \in Nat /\ NumHash \in Nat /\ KeepAfter \in Nat /\ NumHash <= KeepAfter
    BY SizesAre
  <2> QED BY <2>1, <2>2 DEF TypeInv
<1>2. pos <= streamPos /\ streamPos <= size /\ (streamEnd => streamPos = size)
  BY DEF StreamInv
<1>3. CASE streamEnd \/ streamPos - pos > KeepAfter
  <2>1. streamPos' = streamPos /\ streamEnd' = streamEnd
    BY <1>3 DEF Read
  <2>2. streamPos - pos < NumHash => streamEnd
    BY <1>1, <1>3
  <2> QED BY <1>1, <1>2, <2>1, <2>2
<1>4. CASE ~(streamEnd \/ streamPos - pos > KeepAfter)
  <2> DEFINE room == base + Window - streamPos
             more == IF room < size - streamPos THEN room ELSE size - streamPos
  <2>1. streamPos' = streamPos + more /\ streamEnd' = (room > 0 /\ streamPos' - pos <= KeepAfter)
    BY <1>4 DEF Read
  <2>2. base + Window - pos > KeepAfter
    BY <1>1, <1>4 DEF NeedMove
  <2>3. room \in Nat /\ room > 0
    BY <1>1, <1>4, <2>2
  <2>4. more \in Nat /\ streamPos + more <= size /\ streamPos + more <= base + Window
    BY <1>1, <1>2, <2>3
  <2>5. more = room => streamPos + more - pos > KeepAfter
    BY <1>1, <2>2
  <2>6. more # room => streamPos + more = size
    BY <1>1
  <2> DEFINE after == streamPos + more
  <2>7. after \in Nat /\ streamPos <= after /\ after <= size /\ after <= base + Window
    BY <1>1, <2>4
  <2>8. streamPos' = after /\ streamEnd' = (after - pos <= KeepAfter)
    BY <2>1, <2>3
  <2>9. (after - pos <= KeepAfter => after = size) /\ (after - pos < NumHash => after - pos <= KeepAfter)
    BY <1>1, <2>5, <2>6, <2>7
  <2> HIDE DEF after
  <2>10. \A q \in Nat : q = after => (q - pos < NumHash => streamEnd')
    BY <2>8, <2>9
  <2>11. streamEnd' \in BOOLEAN
    <3>1. (after - pos <= KeepAfter) \in BOOLEAN
      OBVIOUS
    <3> QED BY <2>8, <3>1, Zenon
  <2>12. streamEnd' => streamPos' = size
    BY <1>1, <2>7, <2>8, <2>9
  <2>13. streamPos' - pos < NumHash => streamEnd'
    BY <2>7, <2>8, <2>10
  <2>14. streamPos' \in Nat /\ streamPos <= streamPos' /\ streamPos' <= size /\ streamPos' <= base + Window
    BY <2>7, <2>8
  <2> QED BY <1>4, <2>11, <2>12, <2>13, <2>14
<1> QED BY <1>3, <1>4

LEMMA HeadsAre ==
  ASSUME NEW num \in Nat
  PROVE  /\ Heads(num) \in Nat /\ Heads(num) <= num /\ Heads(num) <= HashBlock
         /\ num < NumHash => Heads(num) = 0
         /\ num >= NumHash => Heads(num) > 0
BY SizesAre DEF Heads

LEMMA HashReadDoes ==
  ASSUME TypeInv, StreamInv, HashCount, nthread = 2, HashRead
  PROVE  /\ TypeInv' /\ SameDoc /\ SameRes /\ SameBt /\ SamePtr /\ SameLz /\ base' = base
         /\ pc["hash"] = "read" /\ pc'["hash"] = "loop" /\ pc'["lz"] = pc["lz"] /\ pc'["bt"] = pc["bt"]
         /\ sync'["bt"] = sync["bt"] /\ SameFlags("hash")
         /\ sync'["hash"].free = sync["hash"].free
         /\ sync'["hash"].filled = sync["hash"].filled + 1
         /\ sync'["hash"].numProcessed = sync["hash"].numProcessed
         /\ streamPos <= streamPos' /\ streamPos' <= size /\ streamPos' <= base + Window
         /\ streamEnd' => streamPos' = size
         /\ streamEnd => streamEnd' /\ streamPos' = streamPos
         /\ hashIndex' = Place(hashIndex, 1, HashBlocks)
         /\ hashBuf'[hashIndex].at = pos /\ pos + hashBuf'[hashIndex].avail = streamPos'
         /\ hashBuf'[hashIndex].n = Heads(hashBuf'[hashIndex].avail)
         /\ hashBuf'[hashIndex].avail < NumHash => streamEnd'
         /\ pos' = pos + Adv(hashBuf'[hashIndex]) /\ pos <= pos' /\ pos' <= streamPos'
         /\ ~streamEnd' => pos' <= pos + HashBlock
         /\ \A i \in 0 .. HashBlocks - 1 : i # hashIndex => hashBuf'[i] = hashBuf[i]
<1> DEFINE num == streamPos' - pos
<1>1. /\ SameDoc /\ SameRes /\ SameBt /\ SamePtr /\ SameLz /\ base' = base /\ pc["hash"] = "read"
      /\ pc' = [pc EXCEPT !["hash"] = "loop"] /\ Read
      /\ hashBuf' = [hashBuf EXCEPT ![hashIndex] = [at |-> pos, n |-> Heads(num), avail |-> num]]
      /\ pos' = pos + (IF num < NumHash THEN num ELSE Heads(num))
      /\ hashIndex' = (hashIndex + 1) % HashBlocks
      /\ sync' = [sync EXCEPT !["hash"].filled = Released(@, "hash")]
  BY DEF HashRead, SameDoc, SameRes, SameBt, SamePtr, SameLz, Goto,
         docVars, btVars, ptrVars, lzVars
<1>2. /\ PcType /\ "loop" \in HashLabels /\ pos \in Nat /\ NumHash \in Nat
      /\ hashBuf \in [0 .. HashBlocks - 1 -> BlockType] /\ hashIndex \in 0 .. HashBlocks - 1
      /\ sync["hash"].filled \in Nat
  BY TwoSyncs, SizesAre DEF TypeInv, PcType, HashLabels, SyncType
<1>3. PcType' /\ pc'["hash"] = "loop" /\ pc'["lz"] = pc["lz"] /\ pc'["bt"] = pc["bt"]
  BY <1>1, <1>2, HashGoes
<1>4. /\ sync' \in [Syncs -> SyncType] /\ sync'["bt"] = sync["bt"] /\ SameFlags("hash")
      /\ sync'["hash"].filled = Released(sync["hash"].filled, "hash")
      /\ sync'["hash"].free = sync["hash"].free
      /\ sync'["hash"].numProcessed = sync["hash"].numProcessed
  BY <1>1, TwoSyncs, FilledDoes
<1>5. sync["hash"].filled < Blocks("hash")
  <2>1. HashFilling = 1 /\ Blocks("hash") = HashBlocks
    BY <1>1 DEF HashFilling, Blocks
  <2>2. HashHeld + sync["hash"].filled + 1 <= HashBlocks /\ HashBlocks \in Nat
    BY <2>1, SizesAre DEF HashCount, HashReady
  <2>3. HashHeld \in {0, 1}
    BY DEF HashHeld
  <2> QED BY <1>2, <2>1, <2>2, <2>3
<1>6. sync'["hash"].filled = sync["hash"].filled + 1
  BY <1>2, <1>4, <1>5, TwoSyncs, ReleasedIs
<1>7. /\ streamPos' \in Nat /\ streamEnd' \in BOOLEAN
      /\ streamPos <= streamPos' /\ streamPos' <= size /\ streamPos' <= base + Window
      /\ streamEnd' => streamPos' = size
      /\ streamEnd => streamEnd' /\ streamPos' = streamPos
      /\ num < NumHash => streamEnd'
  <2>1. ~NeedMove /\ streamPos <= base + Window
    BY <1>1 DEF StreamInv
  <2> QED BY <1>1, <2>1, ReadDoes
<1>8. num \in Nat /\ pos + num = streamPos'
  <2>1. \A q \in Nat : pos <= q => q - pos \in Nat /\ pos + (q - pos) = q
    BY <1>2
  <2>2. pos <= streamPos'
    BY <1>2, <1>7 DEF StreamInv, TypeInv
  <2> QED BY <1>7, <2>1, <2>2
<1> HIDE DEF num
<1>9. /\ Heads(num) \in Nat /\ Heads(num) <= num /\ Heads(num) <= HashBlock
  BY <1>8, HeadsAre
<1>10. /\ hashBuf' \in [0 .. HashBlocks - 1 -> BlockType]
       /\ hashBuf'[hashIndex].at = pos /\ hashBuf'[hashIndex].n = Heads(num)
       /\ hashBuf'[hashIndex].avail = num
       /\ \A i \in 0 .. HashBlocks - 1 : i # hashIndex => hashBuf'[i] = hashBuf[i]
  <2>1. [at |-> pos, n |-> Heads(num), avail |-> num] \in BlockType
    BY <1>2, <1>8, <1>9 DEF BlockType
  <2> QED BY <1>1, <1>2, <2>1
<1>11. pos' = pos + Adv(hashBuf'[hashIndex])
  BY <1>1, <1>10 DEF Adv
<1>12. pos' \in Nat /\ pos <= pos' /\ pos' <= streamPos' /\ (~streamEnd' => pos' <= pos + HashBlock)
  <2>1. CASE num < NumHash
    <3>1. pos' = streamPos' /\ streamEnd'
      BY <1>1, <1>7, <1>8, <2>1
    <3> QED BY <1>2, <1>7, <1>8, <3>1
  <2>2. CASE ~(num < NumHash)
    <3> DEFINE heads == Heads(num)
    <3>1. pos' = pos + heads
      BY <1>1, <2>2
    <3>2. heads \in Nat /\ heads <= num /\ heads <= HashBlock /\ HashBlock \in Nat
      BY <1>9, SizesAre
    <3> HIDE DEF heads
    <3> QED BY <1>2, <1>8, <3>1, <3>2
  <2> QED BY <2>1, <2>2
<1>13. hashIndex' = Place(hashIndex, 1, HashBlocks) /\ hashIndex' \in 0 .. HashBlocks - 1
  <2>1. HashBlocks \in Nat \ {0} /\ 1 \in 0 .. HashBlocks
    BY SizesAre
  <2>2. /\ (hashIndex + 1) % HashBlocks = Place(hashIndex, 1, HashBlocks)
        /\ Place(hashIndex, 1, HashBlocks) \in 0 .. HashBlocks - 1
    BY <1>2, <2>1, PlaceIs
  <2> QED BY <1>1, <2>2
<1>14. /\ pc'["lz"] \in LzLabels /\ pc'["hash"] \in HashLabels /\ pc'["bt"] \in BtLabels
       /\ base' \in Nat
  BY <1>1, <1>2, <1>3 DEF TypeInv
<1>15. TypeInv'
  BY <1>1, <1>3, <1>4, <1>7, <1>10, <1>12, <1>13, <1>14
     DEF TypeInv, PcType, SameDoc, SameRes, SameBt, SamePtr, SameLz
<1> QED BY <1>1, <1>3, <1>4, <1>6, <1>7, <1>8, <1>10, <1>11, <1>12, <1>13, <1>15


-----------------------------------------------------------------------------
(* Where the threads are *)

LEMMA NextSplit ==
  ASSUME Next
  PROVE  \/ Header \/ EncodeAlone \/ Create \/ Ask \/ Take \/ Encode \/ Flush \/ Stop \/ StopEnds
         \/ Footer \/ Exit \/ Join
         \/ BtStart \/ BtFree \/ BtLock \/ BtAsk \/ BtTake \/ BtMatch \/ BtEnd \/ BtStop \/ BtStopEnds
         \/ BtStopped
         \/ HashStart \/ HashEnter \/ HashMove \/ HashFree \/ HashRead \/ HashStopped
         \/ UNCHANGED vars
BY DEF Next, Lz, Bt, Hash, Done

LEMMA FreshIs ==
  /\ BtFresh => /\ sync["bt"].needStart /\ ~sync["bt"].canStart /\ ~sync["bt"].wasStopped
                /\ ~sync["bt"].stopWriting /\ sync["bt"].filled = 0 /\ btIndex = 0 /\ lzPos = 0
                /\ pc["bt"] \in {"none", "start"}
  /\ HashFresh => /\ sync["hash"].needStart /\ ~sync["hash"].canStart /\ ~sync["hash"].wasStopped
                  /\ ~sync["hash"].stopWriting /\ sync["hash"].filled = 0
                  /\ hashLeft = 0 /\ pc["hash"] \in {"none", "start"}
BY DEF BtFresh, HashFresh, Fresh

LEMMA CtrlStep == IInv /\ Next => CtrlInv'
<1> SUFFICES ASSUME IInv, Next PROVE CtrlInv'
  OBVIOUS
<1> USE DEF CtrlInv, LzInv, BtInv, HashInv, BtFresh, HashFresh, Leaving, BtAsked, HashAsked, BtRuns,
            SameDoc, SameRes, SameWindow, SameHash, SameBt, SamePtr, SameLz, SameData, SameFlags
<1>1. TypeInv /\ CtrlInv /\ StreamInv /\ HashCount /\ BtCount /\ nthread \in {1, 2}
  BY DEF IInv, TypeInv
<1>2. pc["bt"] = "fill" => hashLeft <= hashAvail
  BY DEF IInv, BtPlace
<1>3. CASE Header
  BY <1>1, <1>3, HeaderDoes
<1>4. CASE EncodeAlone
  <2>1. LzInv'
    BY <1>1, <1>4, FreshIs, EncodeAloneDoes
  <2>2. BtInv'
    BY <1>1, <1>4, FreshIs, EncodeAloneDoes
  <2>3. HashInv'
    BY <1>1, <1>4, FreshIs, EncodeAloneDoes
  <2> QED BY <2>1, <2>2, <2>3
<1>5. CASE Create
  <2>1. LzInv'
    BY <1>1, <1>5, FreshIs, CreateDoes
  <2>2. BtInv'
    BY <1>1, <1>5, FreshIs, CreateDoes
  <2>3. HashInv'
    BY <1>1, <1>5, FreshIs, CreateDoes
  <2> QED BY <2>1, <2>2, <2>3
<1>6. CASE Ask
  <2>1. LzInv'
    BY <1>1, <1>6, FreshIs, AskDoes
  <2>2. BtInv'
    BY <1>1, <1>6, FreshIs, AskDoes
  <2>3. HashInv'
    BY <1>1, <1>6, FreshIs, AskDoes
  <2> QED BY <2>1, <2>2, <2>3
<1>7. CASE Take
  BY <1>1, <1>7, TakeDoes
<1>8. CASE Encode
  BY <1>1, <1>8, EncodeDoes
<1>9. CASE Flush
  BY <1>1, <1>9, FlushDoes
<1>10. CASE Stop
  BY <1>1, <1>10, StopDoes
<1>11. CASE StopEnds
  BY <1>1, <1>11, StopEndsDoes
<1>12. CASE Footer
  BY <1>1, <1>12, FooterDoes
<1>13. CASE Exit
  <2>1. /\ SameDoc /\ SameData /\ SameLz /\ pc["lz"] = "exit" /\ pc'["bt"] = pc["bt"] /\ pc'["hash"] = pc["hash"]
        /\ \/ pc'["lz"] = "done" /\ sync' = sync /\ pc["bt"] = "none" /\ pc["hash"] = "none"
           \/ /\ pc'["lz"] = "join" /\ sync'[Leaving].canStart /\ sync'[Leaving].exit
              /\ pc[Leaving] # "none" /\ (\A s \in Syncs : s # Leaving => sync'[s] = sync[s])
    BY <1>1, <1>13, ExitDoes
  <2>2. \A s \in Syncs : /\ sync'[s].wasStopped = sync[s].wasStopped
                         /\ sync'[s].needStart = sync[s].needStart
                         /\ sync'[s].stopWriting = sync[s].stopWriting
    BY <1>1, <1>13, ExitDoes
  <2>3. ~HashAsked /\ pc["bt"] \in {"none", "start"} /\ pc["hash"] \in {"none", "start"}
    BY <1>1, <2>1
  <2>4. LzInv'
    <3>1. CASE pc["bt"] = "none"
      BY <1>1, <2>1, <2>2, <2>3, <3>1, TwoSyncs
    <3>2. CASE pc["bt"] # "none"
      BY <1>1, <2>1, <2>2, <2>3, <3>2, TwoSyncs
    <3> QED BY <3>1, <3>2
  <2>5. BtInv'
    BY <2>1
  <2>6. HashInv'
    BY <1>1, <2>1, <2>2, <2>3, TwoSyncs
  <2> QED BY <2>4, <2>5, <2>6
<1>14. CASE Join
  <2>1. CASE pc["bt"] = "none"
    BY <1>1, <1>14, <2>1, JoinDoes
  <2>2. CASE pc["bt"] # "none"
    <3>1. /\ SameDoc /\ SameData /\ SameLz /\ sync' = sync /\ pc["lz"] = "join" /\ pc["bt"] = "gone"
          /\ pc'["lz"] = "exit" /\ pc'["bt"] = "none" /\ pc'["hash"] = pc["hash"]
      BY <1>1, <1>14, <2>2, JoinDoes
    <3>2. pc["hash"] = "start" /\ ~sync["hash"].canStart /\ ~sync["bt"].canStart /\ nthread = 2
      BY <1>1, <2>2, <3>1
    <3>3. LzInv'
      BY <3>1, <3>2
    <3>4. BtInv' /\ HashInv'
      BY <1>1, <3>1, <3>2
    <3> QED BY <3>3, <3>4
  <2> QED BY <2>1, <2>2
<1>15. CASE BtStart
  <2>1. LzInv'
    BY <1>1, <1>15, FreshIs, BtStartDoes
  <2>2. BtInv'
    BY <1>1, <1>15, FreshIs, BtStartDoes
  <2>3. HashInv'
    <3>1. /\ SameDoc /\ SameData /\ SameLz /\ sync'["hash"] = sync["hash"] /\ pc["bt"] = "start"
          /\ pc'["bt"] = (IF sync["bt"].exit THEN "gone" ELSE "free")
          /\ pc'["lz"] = pc["lz"] /\ pc'["hash"] = pc["hash"] /\ sync["bt"].canStart
      BY <1>1, <1>15, BtStartDoes
    <3>2. pc["lz"] \in {"ask", "wait", "encode", "stop", "stopping"} => HashFresh
      BY <1>1, <3>1
    <3>3. pc["lz"] \notin {"ask", "wait", "encode", "stop", "stopping"} => sync["bt"].exit
      BY <1>1, <3>1 DEF TypeInv, LzLabels
    <3>4. ~HashAsked
      BY <1>1, <3>1
    <3> QED BY <1>1, <3>1, <3>2, <3>3, <3>4
  <2> QED BY <2>1, <2>2, <2>3
<1>16. CASE BtFree
  BY <1>1, <1>16, BtFreeDoes
<1>17. CASE BtLock
  BY <1>1, <1>17, BtLockDoes
<1>18. CASE BtAsk
  <2>1. LzInv'
    BY <1>1, <1>18, FreshIs, BtAskDoes
  <2>2. BtInv'
    BY <1>1, <1>18, FreshIs, BtAskDoes
  <2>3. HashInv'
    <3>1. /\ pc["bt"] = "fill" /\ pc'["bt"] = "wait" /\ pc'["lz"] = pc["lz"] /\ pc'["hash"] = pc["hash"]
          /\ ~sync'["hash"].needStart /\ sync'["hash"].filled = sync["hash"].filled
          /\ ~HashAsked => /\ sync'["hash"].canStart /\ ~sync'["hash"].exit
                           /\ ~sync'["hash"].wasStopped /\ ~sync'["hash"].stopWriting
          /\ HashAsked => /\ sync'["hash"].canStart = sync["hash"].canStart
                          /\ sync'["hash"].exit = sync["hash"].exit
                          /\ sync'["hash"].wasStopped = sync["hash"].wasStopped
                          /\ sync'["hash"].stopWriting = sync["hash"].stopWriting
      BY <1>1, <1>18, BtAskDoes
    <3>2. pc["lz"] \in {"wait", "encode", "ask", "stop", "stopping"} /\ pc["hash"] \notin {"none", "gone"}
      BY <1>1, <3>1 DEF TypeInv, LzLabels
    <3>3. CASE HashAsked
      BY <1>1, <3>1, <3>2, <3>3
    <3>4. CASE ~HashAsked
      BY <1>1, <3>1, <3>2, <3>4, FreshIs
    <3> QED BY <3>3, <3>4
  <2> QED BY <2>1, <2>2, <2>3
<1>19. CASE BtTake
  <2>1. LzInv'
    BY <1>1, <1>19, FreshIs, BtTakeDoes
  <2>2. BtInv'
    BY <1>1, <1>19, FreshIs, BtTakeDoes
  <2>3. HashInv'
    <3>1. /\ pc["bt"] = "wait" /\ pc'["bt"] \in {"fill", "end"} /\ pc'["lz"] = pc["lz"]
          /\ pc'["hash"] = pc["hash"] /\ SameFlags("hash") /\ sync["hash"].filled > 0
      BY <1>1, <1>19, BtTakeDoes
    <3>2. HashAsked /\ ~sync["hash"].canStart
      BY <1>1, <3>1
    <3> QED BY <1>1, <3>1, <3>2
  <2> QED BY <2>1, <2>2, <2>3
<1>20. CASE BtMatch
  <2>1. sync' = sync /\ pc' = pc /\ hashLeft > 0 /\ pc["bt"] = "fill" /\ SameDoc /\ lzPos' = lzPos
        /\ btIndex' = btIndex /\ btBi' = btBi
    <3>1. hashLeft <= hashAvail
      BY <1>2, <1>20 DEF BtMatch
    <3> QED BY <1>1, <1>20, <3>1, BtMatchDoes
  <2>2. HashAsked /\ ~BtFresh
    BY <1>1, <2>1, FreshIs
  <2>3. LzInv'
    BY <1>1, <2>1, <2>2
  <2>4. BtInv'
    BY <1>1, <2>1, <2>2
  <2>5. HashInv'
    BY <1>1, <2>1, <2>2
  <2> QED BY <2>3, <2>4, <2>5
<1>21. CASE BtEnd
  BY <1>1, <1>21, BtEndDoes
<1>22. CASE BtStop
  BY <1>1, <1>22, BtStopDoes
<1>23. CASE BtStopEnds
  BY <1>1, <1>23, BtStopEndsDoes
<1>24. CASE BtStopped
  BY <1>1, <1>24, BtStoppedDoes
<1>25. CASE HashStart
  BY <1>1, <1>25, HashStartDoes
<1>26. CASE HashEnter
  BY <1>1, <1>26, HashEnterDoes
<1>27. CASE HashMove
  BY <1>1, <1>27, HashMoveDoes
<1>28. CASE HashFree
  BY <1>1, <1>28, HashFreeDoes
<1>29. CASE HashRead
  <2>1. /\ pc["hash"] = "read" /\ pc'["hash"] = "loop" /\ pc'["lz"] = pc["lz"] /\ pc'["bt"] = pc["bt"]
        /\ sync'["bt"] = sync["bt"] /\ SameFlags("hash") /\ SameDoc /\ lzPos' = lzPos
        /\ btIndex' = btIndex /\ btBi' = btBi
    <3>1. nthread = 2
      BY <1>1, <1>29 DEF HashRead
    <3> QED BY <1>1, <1>29, <3>1, HashReadDoes
  <2>2. HashAsked /\ ~BtFresh
    BY <1>1, <2>1, FreshIs
  <2>3. LzInv'
    BY <1>1, <2>1, <2>2
  <2>4. BtInv'
    BY <1>1, <2>1, <2>2
  <2>5. HashInv'
    BY <1>1, <2>1, <2>2
  <2> QED BY <2>3, <2>4, <2>5
<1>30. CASE HashStopped
  BY <1>1, <1>30, HashStoppedDoes
<1>31. CASE UNCHANGED vars
  BY <1>1, <1>31 DEF vars, docVars, windowVars, hashVars, btVars, ptrVars, lzVars
<1> QED BY NextSplit, <1>3, <1>4, <1>5, <1>6, <1>7, <1>8, <1>9, <1>10, <1>11, <1>12, <1>13, <1>14, <1>15, <1>16, <1>17, <1>18, <1>19, <1>20, <1>21, <1>22, <1>23, <1>24, <1>25, <1>26, <1>27, <1>28, <1>29, <1>30, <1>31


LEMMA InitInv == Init => IInv
<1> SUFFICES ASSUME Init PROVE IInv
  OBVIOUS
<1>1. TypeInv
  <2>1. /\ pc \in [Threads -> LzLabels \cup BtLabels \cup HashLabels]
        /\ pc["lz"] \in LzLabels /\ pc["bt"] \in BtLabels /\ pc["hash"] \in HashLabels
    BY DEF Init, Threads, LzLabels, BtLabels, HashLabels
  <2>2. sync \in [Syncs -> SyncType]
    BY FreshType DEF Init
  <2>3. /\ hashBuf \in [0 .. HashBlocks - 1 -> BlockType] /\ btBuf \in [0 .. BtBlocks - 1 -> BlockType]
    BY DEF Init, BlockType
  <2>4. 0 \in 0 .. HashBlocks - 1 /\ 0 \in 0 .. BtBlocks - 1
    BY SizesAre
  <2>5. d \in [at : Nat, n : Nat, avail : Nat, words : Nat]
    BY DEF Init
  <2>6. /\ size \in Sizes /\ nthread \in {1, 2} /\ res = "ok" /\ faults = 0
        /\ base = 0 /\ streamPos = 0 /\ streamEnd = FALSE /\ pos = 0 /\ hashIndex = 0
        /\ btPos = 0 /\ btPtr = 0 /\ hashLeft = 0 /\ hashAvail = 0 /\ hashBi = 0
        /\ btIndex = 0 /\ lzPos = 0 /\ lzPtr = 0 /\ btBi = 0
    BY DEF Init
  <2>7. res \in {"ok", "error"} /\ footed \in Int /\ streamEnd \in BOOLEAN
    <3>1. res \in {"ok", "error"} /\ streamEnd \in BOOLEAN
      BY Zenon DEF Init
    <3>2. footed \in Int
      <4>1. footed = None
        BY DEF Init
      <4> QED BY <4>1 DEF None
    <3> QED BY <3>1, <3>2
  <2> QED BY <2>1, <2>2, <2>3, <2>4, <2>5, <2>6, <2>7 DEF TypeInv
<1>2. /\ pc["lz"] = "header" /\ pc["bt"] = "none" /\ pc["hash"] = "none"
      /\ sync["bt"] = Fresh(BtBlocks) /\ sync["hash"] = Fresh(HashBlocks)
      /\ sync["bt"].needStart /\ sync["bt"].filled = 0 /\ ~sync["hash"].wasStopped
      /\ sync["hash"].needStart /\ sync["hash"].filled = 0 /\ ~sync["hash"].canStart
  BY DEF Init, Threads, Syncs, Blocks, Fresh
<1>3. CtrlInv
  BY <1>1, <1>2 DEF CtrlInv, LzInv, BtInv, HashInv, BtFresh, HashFresh, BtAsked, HashAsked, BtRuns, Init, TypeInv
<1>4. StreamInv
  <2>1. size \in Nat /\ Window \in Nat
    BY <1>1, SizesAre DEF TypeInv
  <2> QED BY <1>2, <2>1 DEF StreamInv, Init
<1>5. HashCount /\ HashRing /\ BtPlace
  BY <1>2, SizesAre DEF HashCount, HashRing, BtPlace, HashReady, HashHeld, HashFilling, HashAsked, BtRuns
<1>6. LeftInv /\ FillInv
  <2>1. d.words = 2 /\ hashLeft = 0
    BY DEF Init
  <2> QED BY <1>2, <2>1, SizesAre DEF LeftInv, FillInv, Filling
<1>7. BtCount /\ BtRing /\ BehindInv
  BY <1>2, SizesAre DEF BtCount, BtRing, BehindInv, LzRuns, BtRuns, BtFilling, BtAsked
<1>8. AnswerInv
  BY <1>2 DEF AnswerInv, Init
<1> QED BY <1>1, <1>3, <1>4, <1>5, <1>6, <1>7, <1>8 DEF IInv

-----------------------------------------------------------------------------
(* The document and the window *)

LEMMA StreamSame ==
  ASSUME StreamInv, SameDoc, SameWindow, pos' = pos, SamePtr, lzPos' = lzPos, btPos' = btPos,
         pc'["hash"] = pc["hash"] \/ pc'["hash"] \notin {"read", "move"}
  PROVE  StreamInv'
BY DEF StreamInv, NeedMove, SameDoc, SameWindow, SamePtr

LEMMA StreamStep == IInv /\ Next => StreamInv'
<1> SUFFICES ASSUME IInv, Next PROVE StreamInv'
  OBVIOUS
<1> USE DEF SameDoc, SameRes, SameWindow, SameHash, SameBt, SamePtr, SameLz, SameData
<1>1. /\ TypeInv /\ StreamInv /\ HashCount /\ BtCount /\ nthread \in {1, 2}
      /\ pc["hash"] \in {"read", "loop", "move"} => nthread = 2
      /\ pc["lz"] = "alone" => nthread = 1 /\ pc["hash"] = "none" /\ pos = 0
      /\ pc["bt"] = "fill" => hashLeft <= hashAvail
  BY DEF IInv, TypeInv, CtrlInv, LzInv, HashFresh, BtPlace, BtRuns

<1>2. CASE Header
  BY <1>1, <1>2, HeaderDoes, StreamSame
<1>3. CASE EncodeAlone
  <2>1. /\ pc["lz"] = "alone" /\ size' = size /\ nthread' = nthread /\ pos' = pos
        /\ pc'["hash"] = pc["hash"]
        /\ \/ streamPos' = size /\ streamEnd' /\ lzPos' = size
           \/ streamPos' = streamPos /\ streamEnd' = streamEnd /\ lzPos' = lzPos
    BY <1>1, <1>3, EncodeAloneDoes
  <2>2. size \in Nat
    BY <1>1, SizesAre DEF TypeInv
  <2> QED BY <1>1, <2>1, <2>2 DEF StreamInv
<1>4. CASE Create
  BY <1>1, <1>4, CreateDoes, StreamSame
<1>5. CASE Ask
  BY <1>1, <1>5, AskDoes, StreamSame
<1>6. CASE Take
  BY <1>1, <1>6, TakeDoes, StreamSame
<1>7. CASE Encode
  <2>1. /\ size' = size /\ nthread' = nthread /\ pos' = pos /\ pc'["hash"] = pc["hash"]
        /\ base' = base /\ streamPos' = streamPos /\ streamEnd' = streamEnd
        /\ btPos' = btPos /\ btPtr' = btPtr
        /\ lzPos' = lzPos + btBuf[btBi].n /\ lzPtr' = lzPtr + btBuf[btBi].n
    BY <1>1, <1>7, EncodeDoes
  <2>2. btBuf[btBi].n \in Nat /\ lzPos \in Nat /\ lzPtr \in Int /\ base \in Nat
    BY <1>1 DEF TypeInv, BlockType
  <2>3. NeedMove' = NeedMove
    BY <2>1 DEF NeedMove
  <2> QED BY <1>1, <2>1, <2>2, <2>3 DEF StreamInv
<1>8. CASE Flush
  BY <1>1, <1>8, FlushDoes, StreamSame
<1>9. CASE Stop
  BY <1>1, <1>9, StopDoes, StreamSame
<1>10. CASE StopEnds
  BY <1>1, <1>10, StopEndsDoes, StreamSame
<1>11. CASE Footer
  BY <1>1, <1>11, FooterDoes, StreamSame
<1>12. CASE Exit
  BY <1>1, <1>12, ExitDoes, StreamSame
<1>13. CASE Join
  BY <1>1, <1>13, JoinDoes, StreamSame
<1>14. CASE BtStart
  BY <1>1, <1>14, BtStartDoes, StreamSame
<1>15. CASE BtFree
  BY <1>1, <1>15, BtFreeDoes, StreamSame
<1>16. CASE BtLock
  BY <1>1, <1>16, BtLockDoes, StreamSame
<1>17. CASE BtAsk
  BY <1>1, <1>17, BtAskDoes, StreamSame
<1>18. CASE BtTake
  BY <1>1, <1>18, BtTakeDoes, StreamSame
<1>19. CASE BtMatch
  <2>1. PICK k \in 1 .. hashLeft : btPos' = btPos + k /\ btPtr' = btPtr + k
    <3>1. hashLeft <= hashAvail
      BY <1>1, <1>19 DEF BtMatch
    <3> QED BY <1>1, <1>19, <3>1, BtMatchDoes
  <2>2. /\ size' = size /\ nthread' = nthread /\ pos' = pos /\ pc' = pc /\ base' = base
        /\ streamPos' = streamPos /\ streamEnd' = streamEnd /\ lzPos' = lzPos /\ lzPtr' = lzPtr
    BY <1>1, <1>19 DEF BtMatch, docVars, windowVars, hashVars, lzVars
  <2>3. btPos \in Nat /\ btPtr \in Int /\ base \in Nat /\ k \in Nat
    BY <1>1 DEF TypeInv
  <2>4. NeedMove' = NeedMove
    BY <2>2 DEF NeedMove
  <2> QED BY <1>1, <2>1, <2>2, <2>3, <2>4 DEF StreamInv
<1>20. CASE BtEnd
  BY <1>1, <1>20, BtEndDoes, StreamSame
<1>21. CASE BtStop
  BY <1>1, <1>21, BtStopDoes, StreamSame
<1>22. CASE BtStopEnds
  BY <1>1, <1>22, BtStopEndsDoes, StreamSame
<1>23. CASE BtStopped
  BY <1>1, <1>23, BtStoppedDoes, StreamSame
<1>24. CASE HashStart
  BY <1>1, <1>24, HashStartDoes, StreamSame
<1>25. CASE HashEnter
  <2>1. /\ SameDoc /\ SameWindow /\ pos' = pos /\ SamePtr /\ lzPos' = lzPos /\ NeedMove
        /\ pc'["hash"] = "move"
    BY <1>1, <1>25, HashEnterDoes
  <2>2. NeedMove' = NeedMove
    BY <2>1 DEF NeedMove
  <2> QED BY <1>1, <2>1, <2>2 DEF StreamInv
<1>26. CASE HashMove
  <2>1. /\ size' = size /\ nthread' = nthread /\ pos' = pos /\ pc'["hash"] = "loop"
        /\ streamPos' = streamPos /\ streamEnd' = streamEnd /\ btPos' = btPos /\ lzPos' = lzPos
    BY <1>1, <1>26, HashMoveDoes
  <2>2. /\ base' \in Nat /\ base <= base' /\ lzPtr' \in Int /\ btPtr' \in Int
        /\ lzPtr' - lzPtr = base - base' /\ btPtr' - btPtr = base - base'
    BY <1>1, <1>26, HashMoveDoes DEF TypeInv
  <2>3. /\ base \in Nat /\ lzPos \in Nat /\ btPos \in Nat /\ lzPtr \in Int /\ btPtr \in Int
        /\ streamPos \in Nat /\ Window \in Nat
    BY <1>1, SizesAre DEF TypeInv
  <2>4. \A b \in Nat, p, q \in Int : base <= b /\ p - lzPtr = base - b /\ q - btPtr = base - b =>
          /\ streamPos <= base + Window => streamPos <= b + Window
          /\ lzPtr = lzPos - base => p = lzPos - b
          /\ btPtr = btPos - base => q = btPos - b
    BY <2>3
  <2> QED BY <1>1, <2>1, <2>2, <2>4 DEF StreamInv
<1>27. CASE HashFree
  <2>1. /\ SameDoc /\ SameWindow /\ pos' = pos /\ SamePtr /\ lzPos' = lzPos /\ ~NeedMove
        /\ pc'["hash"] \in {"stopped", "read"}
    BY <1>1, <1>27, HashFreeDoes
  <2>2. NeedMove' = NeedMove
    BY <2>1 DEF NeedMove
  <2> QED BY <1>1, <2>1, <2>2 DEF StreamInv
<1>28. CASE HashRead
  <2>1. nthread = 2
    BY <1>1, <1>28 DEF HashRead
  <2>2. /\ size' = size /\ nthread' = nthread /\ pos' <= streamPos' /\ pc'["hash"] = "loop"
        /\ streamPos' <= size /\ streamPos' <= base + Window /\ (streamEnd' => streamPos' = size)
        /\ base' = base /\ SamePtr /\ lzPos' = lzPos
    BY <1>1, <1>28, <2>1, HashReadDoes
  <2> QED BY <1>1, <2>2 DEF StreamInv
<1>29. CASE HashStopped
  BY <1>1, <1>29, HashStoppedDoes, StreamSame
<1>30. CASE UNCHANGED vars
  BY <1>1, <1>30, StreamSame DEF vars, docVars, windowVars, hashVars, btVars, ptrVars, lzVars
<1> QED BY NextSplit, <1>2, <1>3, <1>4, <1>5, <1>6, <1>7, <1>8, <1>9, <1>10, <1>11, <1>12, <1>13, <1>14, <1>15, <1>16, <1>17, <1>18, <1>19, <1>20, <1>21, <1>22, <1>23, <1>24, <1>25, <1>26, <1>27, <1>28, <1>29, <1>30


-----------------------------------------------------------------------------
(* The hash ring *)

LEMMA RingsAre == HashBlocks \in Nat \ {0} /\ BtBlocks \in Nat \ {0}
BY LzFindMtAssumption

LEMMA HashTypes ==
  ASSUME TypeInv
  PROVE  /\ HashHeld \in Nat /\ HashHeld <= 1 /\ HashFilling \in Nat /\ HashFilling <= 1
         /\ HashReady \in Nat /\ HashHeld <= HashReady
         /\ sync["hash"].filled \in Nat /\ sync["hash"].free \in Nat
         /\ HashReady = HashHeld + sync["hash"].filled
<1>1. sync["hash"].filled \in Nat /\ sync["hash"].free \in Nat
  BY TwoSyncs DEF TypeInv, SyncType
<1>2. HashHeld = 0 \/ HashHeld = 1
  BY DEF HashHeld
<1>3. HashFilling = 0 \/ HashFilling = 1
  BY DEF HashFilling
<1> QED BY <1>1, <1>2, <1>3 DEF HashReady

\* The counts hold while no block changes hands.
LEMMA HashCountQuiet ==
  ASSUME HashCount, hashIndex' = hashIndex, hashBi' = hashBi, HashFilling' = HashFilling,
         \/ HashReady' = HashReady
         \/ ~HashAsked' /\ HashReady' + HashFilling' <= HashBlocks,
         HashAsked' => /\ HashAsked /\ sync'["hash"].numProcessed = sync["hash"].numProcessed
                       /\ pc'["bt"] # "stopping" => /\ pc["bt"] # "stopping"
                                                    /\ sync'["hash"].free = sync["hash"].free
  PROVE  HashCount'
BY DEF HashCount

LEMMA HashCountStep == IInv /\ Next => HashCount'
<1> SUFFICES ASSUME IInv, Next PROVE HashCount'
  OBVIOUS
<1> USE DEF SameDoc, SameRes, SameWindow, SameHash, SameBt, SamePtr, SameLz, SameData, SameFlags
<1>1. /\ TypeInv /\ CtrlInv /\ StreamInv /\ HashCount /\ BtCount /\ nthread \in {1, 2}
      /\ pc["hash"] \in {"read", "loop", "move"} => nthread = 2 /\ HashAsked
      /\ pc["bt"] = "fill" => hashLeft <= hashAvail
      /\ pc["bt"] = "stopping" => sync["hash"].stopWriting
      /\ ~HashAsked /\ pc["bt"] = "fill" => HashFresh
      /\ HashAsked => pc["lz"] \in {"wait", "encode", "ask", "stop", "stopping"}
      /\ pc["hash"] \in {"stopped", "read", "loop", "move"} => HashAsked
  BY DEF IInv, TypeInv, CtrlInv, LzInv, HashInv, BtPlace, BtRuns, HashLabels
<1>2. CASE Header
  BY <1>1, <1>2, HeaderDoes, HashTypes, HashCountQuiet DEF HashReady, HashHeld, HashFilling, HashAsked
<1>3. CASE EncodeAlone
  BY <1>1, <1>3, EncodeAloneDoes, HashTypes, HashCountQuiet DEF HashReady, HashHeld, HashFilling, HashAsked
<1>4. CASE Create
  BY <1>1, <1>4, CreateDoes, HashTypes, HashCountQuiet DEF HashReady, HashHeld, HashFilling, HashAsked
<1>5. CASE Ask
  BY <1>1, <1>5, AskDoes, HashTypes, HashCountQuiet DEF HashReady, HashHeld, HashFilling, HashAsked
<1>6. CASE Take
  BY <1>1, <1>6, TakeDoes, HashTypes, HashCountQuiet DEF HashReady, HashHeld, HashFilling, HashAsked
<1>7. CASE Encode
  BY <1>1, <1>7, EncodeDoes, HashTypes, HashCountQuiet DEF HashReady, HashHeld, HashFilling, HashAsked
<1>8. CASE Flush
  BY <1>1, <1>8, FlushDoes, HashTypes, HashCountQuiet DEF HashReady, HashHeld, HashFilling, HashAsked
<1>9. CASE Stop
  BY <1>1, <1>9, StopDoes, HashTypes, HashCountQuiet DEF HashReady, HashHeld, HashFilling, HashAsked
<1>10. CASE StopEnds
  BY <1>1, <1>10, StopEndsDoes, HashTypes, HashCountQuiet DEF HashReady, HashHeld, HashFilling, HashAsked
<1>11. CASE Footer
  BY <1>1, <1>11, FooterDoes, HashTypes, HashCountQuiet DEF HashReady, HashHeld, HashFilling, HashAsked
<1>12. CASE Exit
  <2>1. /\ ~HashAsked /\ hashIndex' = hashIndex /\ hashBi' = hashBi
        /\ pc'["bt"] = pc["bt"] /\ pc'["hash"] = pc["hash"]
        /\ sync'["hash"].needStart = sync["hash"].needStart
        /\ sync'["hash"].filled = sync["hash"].filled
    BY <1>1, <1>12, ExitDoes, TwoSyncs
  <2> QED BY <1>1, <2>1, HashCountQuiet DEF HashReady, HashHeld, HashFilling, HashAsked
<1>13. CASE Join
  BY <1>1, <1>13, JoinDoes, HashTypes, HashCountQuiet DEF HashReady, HashHeld, HashFilling, HashAsked
<1>14. CASE BtStart
  BY <1>1, <1>14, BtStartDoes, HashTypes, HashCountQuiet DEF HashReady, HashHeld, HashFilling, HashAsked
<1>15. CASE BtFree
  BY <1>1, <1>15, BtFreeDoes, HashTypes, HashCountQuiet DEF HashReady, HashHeld, HashFilling, HashAsked
<1>16. CASE BtLock
  BY <1>1, <1>16, BtLockDoes, HashTypes, HashCountQuiet DEF HashReady, HashHeld, HashFilling, HashAsked
<1>17. CASE BtAsk
  <2>1. /\ pc["bt"] = "fill" /\ pc'["bt"] = "wait" /\ pc'["hash"] = pc["hash"] /\ HashAsked'
        /\ sync'["hash"].filled = sync["hash"].filled /\ hashIndex' = hashIndex
    BY <1>1, <1>17, BtAskDoes DEF HashAsked
  <2>2. HashHeld' = 0 /\ HashReady' = sync["hash"].filled /\ HashFilling' = HashFilling
    BY <1>1, <2>1, HashTypes DEF HashReady, HashHeld, HashFilling
  <2>3. CASE ~HashAsked
    <3>1. /\ hashBi' = 0 /\ sync'["hash"].free = sync["hash"].free
          /\ sync'["hash"].numProcessed = Place(0, 1, HashBlocks)
      BY <1>1, <1>17, <2>3, BtAskDoes
    <3>2. /\ sync["hash"].free = HashBlocks /\ sync["hash"].filled = 0 /\ hashIndex = 0 /\ HashFilling = 0
      BY <1>1, <2>1, <2>3 DEF HashFresh, Fresh, HashFilling
    <3>3. Place(0, 0, HashBlocks) = 0 /\ HashBlocks \in Nat
      BY SizesAre DEF Place
    <3> QED BY <2>1, <2>2, <3>1, <3>2, <3>3 DEF HashCount
  <2>4. CASE HashAsked
    <3>1. /\ hashBi' = Place(hashBi, 1, HashBlocks)
          /\ sync'["hash"].free = Released(sync["hash"].free, "hash")
          /\ sync'["hash"].numProcessed = Place(hashBi', 1, HashBlocks)
      BY <1>1, <1>17, <2>4, BtAskDoes
    <3>2. HashHeld = 1 /\ HashReady = 1 + sync["hash"].filled
      BY <2>1, <2>4, HashTypes, <1>1 DEF HashHeld
    <3>3. /\ sync["hash"].free + HashReady + HashFilling <= HashBlocks
          /\ hashIndex = Place(hashBi, HashReady, HashBlocks)
      BY <1>1, <2>1, <2>4 DEF HashCount
    <3>4. sync'["hash"].free \in Nat /\ sync'["hash"].free <= sync["hash"].free + 1
      BY <1>1, <3>1, HashTypes, TwoSyncs, ReleasedIs
    <3>5. HashBlocks \in Nat \ {0} /\ hashBi \in 0 .. HashBlocks - 1 /\ sync["hash"].filled \in 0 .. HashBlocks - 1
      <4>1. hashBi \in 0 .. HashBlocks - 1
        BY <1>1 DEF TypeInv
      <4>2. 1 + sync["hash"].filled <= HashBlocks
        BY <1>1, <3>2, <3>3, HashTypes, RingsAre
      <4> QED BY <1>1, <4>1, <4>2, HashTypes, RingsAre
    <3>6. Place(Place(hashBi, 1, HashBlocks), sync["hash"].filled, HashBlocks)
          = Place(hashBi, sync["hash"].filled + 1, HashBlocks)
      <4>1. \A n \in 0 .. HashBlocks - 1 :
              Place(Place(hashBi, 1, HashBlocks), n, HashBlocks) = Place(hashBi, n + 1, HashBlocks)
        BY <3>5, PlaceIs
      <4> QED BY <3>5, <4>1
    <3>7. hashIndex' = Place(hashBi', HashReady', HashBlocks)
      BY <2>1, <2>2, <3>1, <3>2, <3>3, <3>5, <3>6
    <3>8. sync'["hash"].free + HashReady' + HashFilling' <= HashBlocks
      <4>1. sync["hash"].free + sync["hash"].filled + 1 + HashFilling <= HashBlocks
        BY <1>1, <3>2, <3>3, HashTypes
      <4>2. \A f \in Nat : f <= sync["hash"].free + 1 => f + sync["hash"].filled + HashFilling <= HashBlocks
        BY <1>1, <4>1, HashTypes, RingsAre
      <4> QED BY <2>2, <3>4, <4>2
    <3>9. HashReady' + HashFilling' <= HashBlocks
      <4>1. sync["hash"].filled + HashFilling <= HashBlocks
        BY <1>1, <3>2, <3>3, HashTypes, RingsAre
      <4> QED BY <2>2, <4>1
    <3> QED BY <2>1, <3>1, <3>7, <3>8, <3>9 DEF HashCount
  <2> QED BY <2>3, <2>4
<1>18. CASE BtTake
  <2>1. /\ pc["bt"] = "wait" /\ pc'["bt"] \in {"fill", "end"} /\ pc'["hash"] = pc["hash"]
        /\ SameFlags("hash") /\ hashIndex' = hashIndex /\ hashBi' = hashBi
        /\ sync'["hash"].free = sync["hash"].free
        /\ sync'["hash"].numProcessed = sync["hash"].numProcessed
        /\ sync["hash"].filled > 0 /\ sync'["hash"].filled = sync["hash"].filled - 1
    BY <1>1, <1>18, BtTakeDoes
  <2>2. HashAsked /\ HashAsked'
    BY <1>1, <2>1 DEF CtrlInv, HashInv, HashAsked
  <2>3. HashReady' = HashReady /\ HashFilling' = HashFilling
    BY <1>1, <2>1, <2>2, HashTypes DEF HashReady, HashHeld, HashFilling
  <2> QED BY <1>1, <2>1, <2>2, <2>3, HashCountQuiet
<1>19. CASE BtMatch
  <2>1. sync' = sync /\ pc' = pc /\ hashIndex' = hashIndex /\ hashBi' = hashBi
    BY <1>19 DEF BtMatch, hashVars
  <2> QED BY <1>1, <2>1, HashCountQuiet DEF HashReady, HashHeld, HashFilling, HashAsked
<1>20. CASE BtEnd
  BY <1>1, <1>20, BtEndDoes, HashTypes, HashCountQuiet DEF HashReady, HashHeld, HashFilling, HashAsked
<1>21. CASE BtStop
  BY <1>1, <1>21, BtStopDoes, HashTypes, HashCountQuiet DEF HashReady, HashHeld, HashFilling, HashAsked
<1>22. CASE BtStopEnds
  <2>1. /\ ~HashAsked' /\ pc'["hash"] = pc["hash"] /\ sync'["hash"].filled = sync["hash"].filled
        /\ hashIndex' = hashIndex /\ hashBi' = hashBi
    BY <1>1, <1>22, BtStopEndsDoes DEF HashAsked
  <2>2. HashReady' = sync["hash"].filled /\ HashFilling' = HashFilling
    BY <1>1, <2>1, HashTypes DEF HashReady, HashHeld, HashFilling
  <2>3. HashReady' + HashFilling' <= HashBlocks
    BY <1>1, <2>2, HashTypes, SizesAre DEF HashCount
  <2> QED BY <1>1, <2>1, <2>2, <2>3, HashCountQuiet
<1>23. CASE BtStopped
  BY <1>1, <1>23, BtStoppedDoes, HashTypes, HashCountQuiet DEF HashReady, HashHeld, HashFilling, HashAsked
<1>24. CASE HashStart
  BY <1>1, <1>24, HashStartDoes, HashTypes, HashCountQuiet DEF HashReady, HashHeld, HashFilling, HashAsked
<1>25. CASE HashEnter
  BY <1>1, <1>25, HashEnterDoes, HashTypes, HashCountQuiet DEF HashReady, HashHeld, HashFilling, HashAsked
<1>26. CASE HashMove
  BY <1>1, <1>26, HashMoveDoes, HashTypes, HashCountQuiet DEF HashReady, HashHeld, HashFilling, HashAsked
<1>27. CASE HashFree
  <2>1. /\ hashIndex' = hashIndex /\ hashBi' = hashBi /\ pc["hash"] = "loop" /\ pc'["bt"] = pc["bt"]
        /\ SameFlags("hash") /\ sync'["hash"].filled = sync["hash"].filled
        /\ sync'["hash"].numProcessed = sync["hash"].numProcessed
        /\ sync["hash"].free > 0 /\ sync'["hash"].free = sync["hash"].free - 1
        /\ pc'["hash"] = "stopped" \/ (pc'["hash"] = "read" /\ ~sync["hash"].stopWriting)
    BY <1>1, <1>27, HashFreeDoes
  <2>2. HashAsked /\ HashReady' = HashReady /\ HashFilling = 0
    BY <1>1, <2>1 DEF HashReady, HashHeld, HashFilling, HashAsked
  <2>3. CASE pc'["hash"] = "stopped"
    <3>1. HashFilling' = 0
      BY <2>3 DEF HashFilling
    <3> QED BY <1>1, <2>1, <2>2, <3>1, HashTypes, SizesAre DEF HashCount, HashAsked
  <2>4. CASE pc'["hash"] = "read" /\ ~sync["hash"].stopWriting
    <3>1. HashFilling' = 1 /\ pc["bt"] # "stopping"
      BY <1>1, <2>4 DEF HashFilling
    <3>2. sync["hash"].free + HashReady <= HashBlocks
      BY <1>1, <2>2, <3>1, HashTypes, SizesAre DEF HashCount
    <3>3. sync["hash"].free - 1 + HashReady + 1 <= HashBlocks /\ HashReady + 1 <= HashBlocks
      BY <1>1, <2>1, <3>2, HashTypes, SizesAre
    <3> QED BY <1>1, <2>1, <2>2, <3>1, <3>3 DEF HashCount, HashAsked
  <2> QED BY <2>1, <2>3, <2>4
<1>28. CASE HashRead
  <2>1. pc["hash"] = "read"
    BY <1>28 DEF HashRead
  <2>2. /\ hashIndex' = Place(hashIndex, 1, HashBlocks) /\ hashBi' = hashBi /\ pc'["hash"] = "loop"
        /\ pc'["bt"] = pc["bt"] /\ SameFlags("hash")
        /\ sync'["hash"].filled = sync["hash"].filled + 1
        /\ sync'["hash"].free = sync["hash"].free
        /\ sync'["hash"].numProcessed = sync["hash"].numProcessed
    BY <1>1, <1>28, <2>1, HashReadDoes
  <2>3. HashAsked /\ HashReady' = HashReady + 1 /\ HashFilling = 1 /\ HashFilling' = 0
    BY <1>1, <2>1, <2>2, HashTypes DEF HashReady, HashHeld, HashFilling, HashAsked
  <2>4. /\ HashBlocks \in Nat \ {0} /\ hashBi \in 0 .. HashBlocks - 1 /\ HashReady \in 0 .. HashBlocks - 1
    <3>1. hashBi \in 0 .. HashBlocks - 1
      BY <1>1 DEF TypeInv
    <3>2. HashReady + 1 <= HashBlocks
      BY <1>1, <2>3 DEF HashCount
    <3> QED BY <1>1, <3>1, <3>2, HashTypes, RingsAre
  <2>5. hashIndex' = Place(hashBi, HashReady + 1, HashBlocks)
    BY <1>1, <2>2, <2>3, <2>4, PlaceIs DEF HashCount
  <2>6. pc["bt"] # "stopping" => sync["hash"].free + (HashReady + 1) <= HashBlocks
    BY <1>1, <2>3, <2>4, HashTypes DEF HashCount
  <2> QED BY <1>1, <2>2, <2>3, <2>4, <2>5, <2>6, HashTypes DEF HashCount, HashAsked
<1>29. CASE HashStopped
  BY <1>1, <1>29, HashStoppedDoes, HashTypes, HashCountQuiet DEF HashReady, HashHeld, HashFilling, HashAsked
<1>30. CASE UNCHANGED vars
  BY <1>1, <1>30, HashCountQuiet DEF HashReady, HashHeld, HashFilling, HashAsked, vars, docVars, windowVars, hashVars, btVars, ptrVars, lzVars
<1> QED BY NextSplit, <1>2, <1>3, <1>4, <1>5, <1>6, <1>7, <1>8, <1>9, <1>10, <1>11, <1>12, <1>13, <1>14, <1>15, <1>16, <1>17, <1>18, <1>19, <1>20, <1>21, <1>22, <1>23, <1>24, <1>25, <1>26, <1>27, <1>28, <1>29, <1>30


-----------------------------------------------------------------------------
(* The counts of the ring of blocks of matches *)

LEMMA BtTypes ==
  ASSUME TypeInv
  PROVE  /\ BtHeld \in Nat /\ BtHeld <= 1 /\ BtFilling \in Nat /\ BtFilling <= 1
         /\ BtReady \in Nat /\ BtReady <= 1 + sync["bt"].filled
         /\ sync["bt"].filled \in Nat /\ sync["bt"].free \in Nat
         /\ btBi \in 0 .. BtBlocks - 1 /\ btIndex \in 0 .. BtBlocks - 1
         /\ BtHead \in 0 .. BtBlocks - 1
<1>1. sync["bt"].filled \in Nat /\ sync["bt"].free \in Nat
  BY TwoSyncs DEF TypeInv, SyncType
<1>2. BtHeld = 0 \/ BtHeld = 1
  BY DEF BtHeld
<1>3. BtFilling = 0 \/ BtFilling = 1
  BY DEF BtFilling
<1>4. BtReady = sync["bt"].filled \/ BtReady = 1 + sync["bt"].filled
  BY <1>1 DEF BtReady
<1>5. btBi \in 0 .. BtBlocks - 1 /\ btIndex \in 0 .. BtBlocks - 1
  BY DEF TypeInv
<1>6. 1 \in 0 .. BtBlocks
  BY RingsAre
<1>7. BtHead \in 0 .. BtBlocks - 1
  BY <1>5, <1>6, RingsAre, PlaceIs DEF BtHead
<1> QED BY <1>1, <1>2, <1>3, <1>4, <1>5, <1>7

\* The counts hold while no block changes hands.
LEMMA BtCountQuiet ==
  ASSUME TypeInv, BtCount, btIndex' = btIndex, BtFilling' = BtFilling,
         sync'["bt"].filled = sync["bt"].filled,
         BtAsked' /\ pc'["lz"] # "stopping" =>
           /\ BtAsked /\ pc["lz"] # "stopping" /\ sync'["bt"].free = sync["bt"].free
           /\ BtHeld' = BtHeld \/ BtHeld' = 0,
         LzRuns' => /\ LzRuns /\ BtHead' = BtHead /\ BtReady' = BtReady /\ btBi' = btBi
                    /\ sync'["bt"].numProcessed = sync["bt"].numProcessed
  PROVE  BtCount'
<1>1. sync'["bt"].filled + BtFilling' <= BtBlocks
  BY DEF BtCount
<1>2. BtAsked' /\ pc'["lz"] # "stopping" =>
        sync'["bt"].free + sync'["bt"].filled + BtHeld' + BtFilling' <= BtBlocks
  <2> SUFFICES ASSUME BtAsked', pc'["lz"] # "stopping"
               PROVE  sync'["bt"].free + sync'["bt"].filled + BtHeld' + BtFilling' <= BtBlocks
    OBVIOUS
  <2>1. sync["bt"].free + sync["bt"].filled + BtHeld + BtFilling <= BtBlocks
    BY DEF BtCount
  <2>2. sync["bt"].free + sync["bt"].filled + 0 + BtFilling <= BtBlocks
    BY <2>1, BtTypes, RingsAre
  <2>3. CASE BtHeld' = BtHeld
    BY <2>1, <2>3
  <2>4. CASE BtHeld' = 0
    BY <2>2, <2>4
  <2> QED BY <2>3, <2>4
<1>3. LzRuns' => /\ btIndex' = Place(BtHead', BtReady', BtBlocks)
                 /\ sync'["bt"].numProcessed = Place(btBi', 1, BtBlocks)
  BY DEF BtCount
<1> QED BY <1>1, <1>2, <1>3 DEF BtCount

LEMMA BtCountStep == IInv /\ Next => BtCount'
<1> SUFFICES ASSUME IInv, Next PROVE BtCount'
  OBVIOUS
<1> USE DEF SameDoc, SameRes, SameWindow, SameHash, SameBt, SamePtr, SameLz, SameData, SameFlags
<1>1. /\ TypeInv /\ CtrlInv /\ StreamInv /\ HashCount /\ BtCount /\ nthread \in {1, 2}
      /\ pc["hash"] \in {"read", "loop", "move"} => nthread = 2
      /\ pc["bt"] = "fill" => hashLeft <= hashAvail
      /\ pc["lz"] = "stopping" => sync["bt"].stopWriting
      /\ pc["lz"] \in {"header", "alone", "create"} => BtFresh
      /\ pc["lz"] = "ask" /\ ~BtAsked => BtFresh
      /\ pc["lz"] \in {"wait", "encode"} => BtAsked
      /\ BtFresh => ~BtAsked
  BY DEF IInv, TypeInv, CtrlInv, LzInv, BtInv, BtPlace, BtRuns, BtFresh, Fresh, BtAsked
<1>2. CASE Header
  BY <1>1, <1>2, HeaderDoes, BtTypes, TwoSyncs, BtCountQuiet DEF BtReady, BtHeld, BtHead, BtFilling, BtAsked, LzRuns
<1>3. CASE EncodeAlone
  BY <1>1, <1>3, EncodeAloneDoes, BtTypes, TwoSyncs, BtCountQuiet DEF BtReady, BtHeld, BtHead, BtFilling, BtAsked, LzRuns
<1>4. CASE Create
  <2>1. /\ sync' = sync /\ btIndex' = btIndex /\ pc["bt"] = "none" /\ pc'["bt"] \in {"none", "start"}
        /\ pc'["lz"] \in {"ask", "exit"} /\ ~BtAsked
    BY <1>1, <1>4, CreateDoes DEF CtrlInv, LzInv
  <2>2. ~BtAsked' /\ BtFilling' = BtFilling /\ ~LzRuns'
    BY <2>1 DEF BtAsked, BtFilling, LzRuns
  <2> QED BY <1>1, <2>1, <2>2, BtCountQuiet
<1>5. CASE Ask
  <2>1. /\ pc["lz"] = "ask" /\ pc'["lz"] = "wait" /\ pc'["bt"] = pc["bt"] /\ BtAsked'
        /\ sync'["bt"].filled = sync["bt"].filled /\ btIndex' = btIndex
    BY <1>1, <1>5, AskDoes DEF BtAsked
  <2>2. /\ BtHeld' = 0 /\ BtReady' = sync["bt"].filled /\ BtReady = sync["bt"].filled
        /\ BtFilling' = BtFilling /\ BtHead' = btBi'
    BY <1>1, <2>1, BtTypes DEF BtReady, BtHeld, BtFilling, BtHead
  <2>3. CASE ~BtAsked
    <3>1. /\ btBi' = 0 /\ sync'["bt"].free = sync["bt"].free
          /\ sync'["bt"].numProcessed = Place(0, 1, BtBlocks)
      BY <1>1, <1>5, <2>3, AskDoes
    <3>2. /\ sync["bt"].free = BtBlocks /\ sync["bt"].filled = 0 /\ btIndex = 0 /\ BtFilling = 0
      BY <1>1, <2>1, <2>3 DEF BtFresh, Fresh, BtFilling
    <3>3. Place(0, 0, BtBlocks) = 0 /\ BtBlocks \in Nat
      BY RingsAre DEF Place
    <3> QED BY <2>1, <2>2, <3>1, <3>2, <3>3 DEF BtCount
  <2>4. CASE BtAsked
    <3>1. /\ btBi' = Place(btBi, 1, BtBlocks)
          /\ sync'["bt"].free = Released(sync["bt"].free, "bt")
          /\ sync'["bt"].numProcessed = Place(btBi', 1, BtBlocks)
      BY <1>1, <1>5, <2>4, AskDoes
    <3>2. BtHeld = 1 /\ BtHead = Place(btBi, 1, BtBlocks) /\ LzRuns
      BY <2>1, <2>4 DEF BtHeld, BtHead, LzRuns
    <3>3. /\ sync["bt"].free + sync["bt"].filled + 1 + BtFilling <= BtBlocks
          /\ btIndex = Place(BtHead, BtReady, BtBlocks) /\ sync["bt"].filled + BtFilling <= BtBlocks
      BY <1>1, <2>1, <2>4, <3>2 DEF BtCount
    <3>4. sync'["bt"].free \in Nat /\ sync'["bt"].free <= sync["bt"].free + 1
      BY <1>1, <3>1, BtTypes, TwoSyncs, ReleasedIs
    <3>5. btIndex' = Place(BtHead', BtReady', BtBlocks)
      BY <2>1, <2>2, <3>1, <3>2, <3>3
    <3>6. sync'["bt"].free + sync'["bt"].filled + BtHeld' + BtFilling' <= BtBlocks
      <4>1. \A f \in Nat : f <= sync["bt"].free + 1 => f + sync["bt"].filled + 0 + BtFilling <= BtBlocks
        BY <1>1, <3>3, BtTypes, RingsAre
      <4> QED BY <2>1, <2>2, <3>4, <4>1
    <3> QED BY <2>1, <2>2, <3>1, <3>3, <3>5, <3>6 DEF BtCount
  <2> QED BY <2>3, <2>4
<1>6. CASE Take
  <2>1. /\ pc["lz"] = "wait" /\ pc'["lz"] = "encode" /\ pc'["bt"] = pc["bt"] /\ SameFlags("bt")
        /\ sync'["bt"].free = sync["bt"].free /\ btIndex' = btIndex /\ btBi' = btBi
        /\ sync'["bt"].numProcessed = sync["bt"].numProcessed
        /\ sync["bt"].filled > 0 /\ sync'["bt"].filled = sync["bt"].filled - 1
    BY <1>1, <1>6, TakeDoes
  <2>2. BtAsked /\ BtAsked' /\ LzRuns /\ LzRuns' /\ BtHeld = 0 /\ BtHeld' = 1
    BY <1>1, <2>1 DEF LzRuns, BtHeld, BtAsked
  <2>3. BtReady' = BtReady /\ BtHead' = BtHead /\ BtFilling' = BtFilling
    BY <1>1, <2>1, BtTypes DEF BtReady, BtHead, BtFilling
  <2>4. /\ sync["bt"].filled + BtFilling <= BtBlocks
        /\ sync["bt"].free + sync["bt"].filled + 0 + BtFilling <= BtBlocks
    BY <1>1, <2>1, <2>2 DEF BtCount
  <2>5. /\ (sync["bt"].filled - 1) + BtFilling <= BtBlocks
        /\ sync["bt"].free + (sync["bt"].filled - 1) + 1 + BtFilling <= BtBlocks
    BY <1>1, <2>1, <2>4, BtTypes, RingsAre
  <2>6. /\ btIndex' = Place(BtHead', BtReady', BtBlocks)
        /\ sync'["bt"].numProcessed = Place(btBi', 1, BtBlocks)
    BY <1>1, <2>1, <2>2, <2>3 DEF BtCount
  <2> QED BY <2>1, <2>2, <2>3, <2>5, <2>6 DEF BtCount
<1>7. CASE Encode
  <2>1. /\ pc["lz"] = "encode" /\ pc'["lz"] \in {"ask", "stop"} /\ pc'["bt"] = pc["bt"]
        /\ sync' = sync /\ btIndex' = btIndex /\ btBi' = btBi
    BY <1>1, <1>7, EncodeDoes
  <2>2. BtAsked /\ BtAsked' /\ LzRuns /\ BtHeld = 1 /\ BtReady = 1 + sync["bt"].filled /\ BtHead = btBi
    BY <1>1, <2>1 DEF LzRuns, BtHeld, BtAsked, BtReady, BtHead
  <2>3. BtFilling' = BtFilling /\ (BtHeld' = BtHeld \/ BtHeld' = 0)
    BY <2>1, <2>2 DEF BtFilling, BtHeld
  <2>4. /\ sync["bt"].filled + BtFilling <= BtBlocks
        /\ sync["bt"].free + sync["bt"].filled + BtHeld + BtFilling <= BtBlocks
    BY <1>1, <2>1, <2>2 DEF BtCount
  <2>5. sync["bt"].free + sync["bt"].filled + 0 + BtFilling <= BtBlocks
    BY <1>1, <2>2, <2>4, BtTypes, RingsAre
  <2>6. sync'["bt"].free + sync'["bt"].filled + BtHeld' + BtFilling' <= BtBlocks
    BY <2>1, <2>3, <2>4, <2>5
  <2>7. LzRuns' => /\ btIndex' = Place(BtHead', BtReady', BtBlocks)
                   /\ sync'["bt"].numProcessed = Place(btBi', 1, BtBlocks)
    <3> SUFFICES ASSUME LzRuns'
                 PROVE  /\ btIndex' = Place(BtHead', BtReady', BtBlocks)
                        /\ sync'["bt"].numProcessed = Place(btBi', 1, BtBlocks)
      OBVIOUS
    <3>1. BtHead' = Place(btBi, 1, BtBlocks) /\ BtReady' = sync["bt"].filled
      BY <1>1, <2>1, <2>2, BtTypes DEF LzRuns, BtHead, BtReady
    <3>2. /\ btIndex = Place(btBi, 1 + sync["bt"].filled, BtBlocks)
          /\ sync["bt"].numProcessed = Place(btBi, 1, BtBlocks)
      BY <1>1, <2>2 DEF BtCount
    <3>3. /\ BtBlocks \in Nat \ {0} /\ btBi \in 0 .. BtBlocks - 1
          /\ sync["bt"].filled \in 0 .. BtBlocks - 1
      BY <1>1, <2>2, <2>4, BtTypes, RingsAre
    <3>4. Place(Place(btBi, 1, BtBlocks), sync["bt"].filled, BtBlocks)
          = Place(btBi, sync["bt"].filled + 1, BtBlocks)
      <4>1. \A n \in 0 .. BtBlocks - 1 :
              Place(Place(btBi, 1, BtBlocks), n, BtBlocks) = Place(btBi, n + 1, BtBlocks)
        BY <3>3, PlaceIs
      <4> QED BY <3>3, <4>1
    <3>5. sync["bt"].filled + 1 = 1 + sync["bt"].filled
      BY <3>3
    <3> QED BY <2>1, <3>1, <3>2, <3>4, <3>5
  <2> QED BY <2>1, <2>3, <2>4, <2>6, <2>7 DEF BtCount
<1>8. CASE Flush
  BY <1>1, <1>8, FlushDoes, BtTypes, TwoSyncs, BtCountQuiet DEF BtReady, BtHeld, BtHead, BtFilling, BtAsked, LzRuns
<1>9. CASE Stop
  BY <1>1, <1>9, StopDoes, BtTypes, TwoSyncs, BtCountQuiet DEF BtReady, BtHeld, BtHead, BtFilling, BtAsked, LzRuns
<1>10. CASE StopEnds
  BY <1>1, <1>10, StopEndsDoes, BtTypes, TwoSyncs, BtCountQuiet DEF BtReady, BtHeld, BtHead, BtFilling, BtAsked, LzRuns
<1>11. CASE Footer
  BY <1>1, <1>11, FooterDoes, BtTypes, TwoSyncs, BtCountQuiet DEF BtReady, BtHeld, BtHead, BtFilling, BtAsked, LzRuns
<1>12. CASE Exit
  BY <1>1, <1>12, ExitDoes, BtTypes, TwoSyncs, BtCountQuiet DEF BtReady, BtHeld, BtHead, BtFilling, BtAsked, LzRuns
<1>13. CASE Join
  <2>1. /\ sync' = sync /\ btIndex' = btIndex /\ pc["lz"] = "join" /\ pc'["lz"] = "exit"
        /\ pc[Leaving] = "gone" /\ pc'["bt"] = "none"
    BY <1>1, <1>13, JoinDoes
  <2>2. pc["bt"] \in {"none", "gone"}
    BY <2>1 DEF Leaving
  <2>3. BtFilling' = BtFilling /\ ~LzRuns' /\ BtHeld' = 0
    BY <2>1, <2>2 DEF BtFilling, LzRuns, BtHeld
  <2> QED BY <1>1, <2>1, <2>3, BtCountQuiet DEF BtAsked
<1>14. CASE BtStart
  BY <1>1, <1>14, BtStartDoes, BtTypes, TwoSyncs, BtCountQuiet DEF BtReady, BtHeld, BtHead, BtFilling, BtAsked, LzRuns
<1>15. CASE BtFree
  <2>1. /\ pc["bt"] = "free" /\ pc'["bt"] = (IF sync["bt"].stopWriting THEN "stop" ELSE "lock")
        /\ pc'["lz"] = pc["lz"] /\ btIndex' = btIndex /\ btBi' = btBi
        /\ SameFlags("bt") /\ sync["bt"].free > 0 /\ sync'["bt"].free = sync["bt"].free - 1
        /\ sync'["bt"].filled = sync["bt"].filled
        /\ sync'["bt"].numProcessed = sync["bt"].numProcessed
    BY <1>1, <1>15, BtFreeDoes
  <2>2. /\ BtFilling = 0 /\ BtHeld' = BtHeld /\ BtHead' = BtHead /\ BtReady' = BtReady
        /\ (LzRuns' <=> LzRuns) /\ (BtAsked' <=> BtAsked)
    BY <2>1 DEF BtReady, BtHeld, BtHead, BtFilling, BtAsked, LzRuns
  <2>3. LzRuns' => /\ btIndex' = Place(BtHead', BtReady', BtBlocks)
                   /\ sync'["bt"].numProcessed = Place(btBi', 1, BtBlocks)
    BY <1>1, <2>1, <2>2 DEF BtCount
  <2>4. CASE sync["bt"].stopWriting
    <3>1. BtFilling' = 0
      BY <2>1, <2>4 DEF BtFilling
    <3>2. BtAsked /\ pc["lz"] # "stopping" =>
            (sync["bt"].free - 1) + sync["bt"].filled + BtHeld + 0 <= BtBlocks
      BY <1>1, <2>1, <2>2, BtTypes, RingsAre DEF BtCount
    <3>3. sync["bt"].filled + 0 <= BtBlocks
      BY <1>1, <2>2 DEF BtCount
    <3> QED BY <2>1, <2>2, <2>3, <3>1, <3>2, <3>3 DEF BtCount
  <2>5. CASE ~sync["bt"].stopWriting
    <3>1. BtFilling' = 1
      BY <2>1, <2>5 DEF BtFilling
    <3>2. BtAsked /\ pc["lz"] # "stopping"
      BY <1>1, <2>1, <2>5 DEF TypeInv, LzLabels, CtrlInv, LzInv, BtInv, BtFresh, Leaving
    <3>3. sync["bt"].free + sync["bt"].filled + BtHeld + 0 <= BtBlocks
      BY <1>1, <2>2, <3>2 DEF BtCount
    <3>4. /\ (sync["bt"].free - 1) + sync["bt"].filled + BtHeld + 1 <= BtBlocks
          /\ sync["bt"].filled + 1 <= BtBlocks
      BY <1>1, <2>1, <3>3, BtTypes, RingsAre
    <3> QED BY <2>1, <2>2, <2>3, <3>1, <3>4 DEF BtCount
  <2> QED BY <2>4, <2>5
<1>16. CASE BtLock
  BY <1>1, <1>16, BtLockDoes, BtTypes, TwoSyncs, BtCountQuiet DEF BtReady, BtHeld, BtHead, BtFilling, BtAsked, LzRuns
<1>17. CASE BtAsk
  BY <1>1, <1>17, BtAskDoes, BtTypes, TwoSyncs, BtCountQuiet DEF BtReady, BtHeld, BtHead, BtFilling, BtAsked, LzRuns
<1>18. CASE BtTake
  BY <1>1, <1>18, BtTakeDoes, BtTypes, TwoSyncs, BtCountQuiet DEF BtReady, BtHeld, BtHead, BtFilling, BtAsked, LzRuns
<1>19. CASE BtMatch
  <2>1. sync' = sync /\ pc' = pc /\ btIndex' = btIndex /\ btBi' = btBi
    BY <1>19 DEF BtMatch, lzVars
  <2> QED BY <1>1, <2>1, BtCountQuiet DEF BtReady, BtHeld, BtHead, BtFilling, BtAsked, LzRuns
<1>20. CASE BtEnd
  <2>1. /\ pc["bt"] \in {"end", "fill"} /\ pc'["bt"] = "free"
        /\ pc'["lz"] = pc["lz"] /\ btIndex' = Place(btIndex, 1, BtBlocks) /\ btBi' = btBi
        /\ SameFlags("bt") /\ sync'["bt"].free = sync["bt"].free
        /\ sync'["bt"].filled = sync["bt"].filled + 1
        /\ sync'["bt"].numProcessed = sync["bt"].numProcessed
    BY <1>1, <1>20, BtEndDoes
  <2>2. /\ BtFilling = 1 /\ BtFilling' = 0 /\ BtHeld' = BtHeld /\ BtHead' = BtHead
        /\ (LzRuns' <=> LzRuns) /\ (BtAsked' <=> BtAsked)
    BY <2>1 DEF BtHeld, BtHead, BtFilling, BtAsked, LzRuns
  <2>3. BtReady' = BtReady + 1
    BY <1>1, <2>1, BtTypes DEF BtReady
  <2>4. /\ sync["bt"].filled + 1 <= BtBlocks
        /\ BtAsked /\ pc["lz"] # "stopping" =>
             sync["bt"].free + sync["bt"].filled + BtHeld + 1 <= BtBlocks
    BY <1>1, <2>2 DEF BtCount
  <2>5. /\ (sync["bt"].filled + 1) + 0 <= BtBlocks
        /\ BtAsked /\ pc["lz"] # "stopping" =>
             sync["bt"].free + (sync["bt"].filled + 1) + BtHeld + 0 <= BtBlocks
    BY <1>1, <2>4, BtTypes, RingsAre
  <2>6. LzRuns => Place(btIndex, 1, BtBlocks) = Place(BtHead, BtReady + 1, BtBlocks)
    <3> SUFFICES ASSUME LzRuns PROVE Place(btIndex, 1, BtBlocks) = Place(BtHead, BtReady + 1, BtBlocks)
      OBVIOUS
    <3>1. BtReady <= BtHeld + sync["bt"].filled
      BY <1>1, BtTypes DEF BtReady, BtHeld
    <3>2. BtReady \in 0 .. BtBlocks - 1
      BY <1>1, <2>4, <3>1, BtTypes, RingsAre DEF LzRuns
    <3> QED BY <1>1, <3>2, BtTypes, RingsAre, PlaceIs DEF BtCount
  <2>7. LzRuns' => /\ btIndex' = Place(BtHead', BtReady', BtBlocks)
                   /\ sync'["bt"].numProcessed = Place(btBi', 1, BtBlocks)
    BY <1>1, <2>1, <2>2, <2>3, <2>6 DEF BtCount
  <2> QED BY <2>1, <2>2, <2>5, <2>7 DEF BtCount
<1>21. CASE BtStop
  BY <1>1, <1>21, BtStopDoes, BtTypes, TwoSyncs, BtCountQuiet DEF BtReady, BtHeld, BtHead, BtFilling, BtAsked, LzRuns
<1>22. CASE BtStopEnds
  BY <1>1, <1>22, BtStopEndsDoes, BtTypes, TwoSyncs, BtCountQuiet DEF BtReady, BtHeld, BtHead, BtFilling, BtAsked, LzRuns
<1>23. CASE BtStopped
  BY <1>1, <1>23, BtStoppedDoes, BtTypes, TwoSyncs, BtCountQuiet DEF BtReady, BtHeld, BtHead, BtFilling, BtAsked, LzRuns
<1>24. CASE HashStart
  BY <1>1, <1>24, HashStartDoes, BtTypes, TwoSyncs, BtCountQuiet DEF BtReady, BtHeld, BtHead, BtFilling, BtAsked, LzRuns
<1>25. CASE HashEnter
  BY <1>1, <1>25, HashEnterDoes, BtTypes, TwoSyncs, BtCountQuiet DEF BtReady, BtHeld, BtHead, BtFilling, BtAsked, LzRuns
<1>26. CASE HashMove
  BY <1>1, <1>26, HashMoveDoes, BtTypes, TwoSyncs, BtCountQuiet DEF BtReady, BtHeld, BtHead, BtFilling, BtAsked, LzRuns
<1>27. CASE HashFree
  BY <1>1, <1>27, HashFreeDoes, BtTypes, TwoSyncs, BtCountQuiet DEF BtReady, BtHeld, BtHead, BtFilling, BtAsked, LzRuns
<1>28. CASE HashRead
  <2>1. nthread = 2
    BY <1>1, <1>28 DEF HashRead
  <2>2. /\ sync'["bt"] = sync["bt"] /\ pc'["lz"] = pc["lz"] /\ pc'["bt"] = pc["bt"]
        /\ btIndex' = btIndex /\ btBi' = btBi
    BY <1>1, <1>28, <2>1, HashReadDoes
  <2> QED BY <1>1, <2>2, BtCountQuiet DEF BtReady, BtHeld, BtHead, BtFilling, BtAsked, LzRuns
<1>29. CASE HashStopped
  BY <1>1, <1>29, HashStoppedDoes, BtTypes, TwoSyncs, BtCountQuiet DEF BtReady, BtHeld, BtHead, BtFilling, BtAsked, LzRuns
<1>30. CASE UNCHANGED vars
  BY <1>1, <1>30, BtCountQuiet DEF BtReady, BtHeld, BtHead, BtFilling, BtAsked, LzRuns, vars, docVars, windowVars, hashVars, btVars, ptrVars, lzVars
<1> QED BY NextSplit, <1>2, <1>3, <1>4, <1>5, <1>6, <1>7, <1>8, <1>9, <1>10, <1>11, <1>12, <1>13, <1>14, <1>15, <1>16, <1>17, <1>18, <1>19, <1>20, <1>21, <1>22, <1>23, <1>24, <1>25, <1>26, <1>27, <1>28, <1>29, <1>30



-----------------------------------------------------------------------------
(* The ring of hash blocks *)

\* A step that leaves the hash blocks and what the bt thread has of them alone
HashQuietStep ==
  /\ SameDoc /\ streamPos' = streamPos /\ streamEnd' = streamEnd
  /\ hashBuf' = hashBuf /\ hashBi' = hashBi /\ pos' = pos
  /\ hashLeft' = hashLeft /\ hashAvail' = hashAvail /\ btPos' = btPos
  /\ BtRuns' => BtRuns /\ HashReady' = HashReady /\ HashHeld' = HashHeld
  /\ BtRuns => BtRuns' \/ pc'["bt"] = "stop"
  /\ BtLock \/ d' = d
  /\ BtRuns' /\ pc'["bt"] = "wait" => pc["bt"] = "wait"
  /\ Filling' => BtLock \/ pc'["bt"] = pc["bt"]
  /\ BtRuns' /\ Filling => BtEnd \/ Filling'

LEMMA HashQuiet ==
  ASSUME IInv, Next
  PROVE  HashQuietStep \/ EncodeAlone \/ BtStart \/ BtAsk \/ BtTake \/ BtMatch \/ HashFree \/ HashRead
<1> USE DEF SameDoc, SameRes, SameWindow, SameHash, SameBt, SamePtr, SameLz, SameData, SameFlags
<1>1. /\ TypeInv /\ CtrlInv /\ StreamInv /\ HashCount /\ BtCount
      /\ pc["lz"] \in {"create", "exit"} => pc["bt"] \in {"none", "start"}
  BY DEF IInv, CtrlInv, LzInv
<1>2. CASE Header
  BY <1>1, <1>2, HeaderDoes DEF HashQuietStep, HashReady, HashHeld, HashAsked, BtRuns, Filling
<1>3. CASE Create
  BY <1>1, <1>3, CreateDoes DEF HashQuietStep, HashReady, HashHeld, HashAsked, BtRuns, Filling
<1>4. CASE Ask
  BY <1>1, <1>4, AskDoes DEF HashQuietStep, HashReady, HashHeld, HashAsked, BtRuns, Filling
<1>5. CASE Take
  BY <1>1, <1>5, TakeDoes DEF HashQuietStep, HashReady, HashHeld, HashAsked, BtRuns, Filling
<1>6. CASE Encode
  BY <1>1, <1>6, EncodeDoes DEF HashQuietStep, HashReady, HashHeld, HashAsked, BtRuns, Filling
<1>7. CASE Flush
  BY <1>1, <1>7, FlushDoes DEF HashQuietStep, HashReady, HashHeld, HashAsked, BtRuns, Filling
<1>8. CASE Stop
  BY <1>1, <1>8, StopDoes DEF HashQuietStep, HashReady, HashHeld, HashAsked, BtRuns, Filling
<1>9. CASE StopEnds
  BY <1>1, <1>9, StopEndsDoes DEF HashQuietStep, HashReady, HashHeld, HashAsked, BtRuns, Filling
<1>10. CASE Footer
  BY <1>1, <1>10, FooterDoes DEF HashQuietStep, HashReady, HashHeld, HashAsked, BtRuns, Filling
<1>11. CASE Exit
  <2>1. /\ SameDoc /\ SameData /\ pc["lz"] = "exit" /\ pc'["bt"] = pc["bt"]
    BY <1>1, <1>11, ExitDoes
  <2> QED BY <1>1, <2>1 DEF HashQuietStep, BtRuns, Filling
<1>12. CASE Join
  <2>1. /\ SameDoc /\ SameData /\ pc'["bt"] = "none" /\ pc["bt"] \in {"none", "gone"}
    BY <1>1, <1>12, JoinDoes DEF Leaving
  <2> QED BY <1>1, <2>1 DEF HashQuietStep, BtRuns, Filling
<1>13. CASE BtFree
  BY <1>1, <1>13, BtFreeDoes DEF HashQuietStep, HashReady, HashHeld, HashAsked, BtRuns, Filling
<1>14. CASE BtLock
  BY <1>1, <1>14, BtLockDoes DEF HashQuietStep, HashReady, HashHeld, HashAsked, BtRuns, Filling
<1>15. CASE BtEnd
  BY <1>1, <1>15, BtEndDoes DEF HashQuietStep, HashReady, HashHeld, HashAsked, BtRuns, Filling
<1>16. CASE BtStop
  BY <1>1, <1>16, BtStopDoes DEF HashQuietStep, HashReady, HashHeld, HashAsked, BtRuns, Filling
<1>17. CASE BtStopEnds
  BY <1>1, <1>17, BtStopEndsDoes DEF HashQuietStep, HashReady, HashHeld, HashAsked, BtRuns, Filling
<1>18. CASE BtStopped
  BY <1>1, <1>18, BtStoppedDoes DEF HashQuietStep, HashReady, HashHeld, HashAsked, BtRuns, Filling
<1>19. CASE HashStart
  BY <1>1, <1>19, HashStartDoes DEF HashQuietStep, HashReady, HashHeld, HashAsked, BtRuns, Filling
<1>20. CASE HashEnter
  BY <1>1, <1>20, HashEnterDoes DEF HashQuietStep, HashReady, HashHeld, HashAsked, BtRuns, Filling
<1>21. CASE HashMove
  BY <1>1, <1>21, HashMoveDoes DEF HashQuietStep, HashReady, HashHeld, HashAsked, BtRuns, Filling
<1>22. CASE HashStopped
  BY <1>1, <1>22, HashStoppedDoes DEF HashQuietStep, HashReady, HashHeld, HashAsked, BtRuns, Filling
<1>23. CASE UNCHANGED vars
  BY <1>23 DEF HashQuietStep, HashReady, HashHeld, HashAsked, BtRuns, Filling, vars, docVars, windowVars, hashVars, btVars, ptrVars, lzVars
<1> QED BY NextSplit, <1>2, <1>3, <1>4, <1>5, <1>6, <1>7, <1>8, <1>9, <1>10, <1>11, <1>12, <1>13, <1>14, <1>15, <1>16, <1>17, <1>18, <1>19, <1>20, <1>21, <1>22, <1>23


\* The blocks are the same ...
LEMMA HashSame ==
  ASSUME hashBuf' = hashBuf, hashBi' = hashBi, pos' = pos, HashReady' = HashReady
  PROVE  \A j \in Nat : HashItem(j)' = HashItem(j) /\ HashAt(j)' = HashAt(j)
BY DEF HashItem, HashAt

LEMMA HashIndices ==
  ASSUME TypeInv, HashCount
  PROVE  /\ HashReady \in 0 .. HashBlocks /\ hashBi \in 0 .. HashBlocks - 1 /\ HashBlocks \in Nat \ {0}
         /\ \A j \in 0 .. HashBlocks : Place(hashBi, j, HashBlocks) \in 0 .. HashBlocks - 1
         /\ \A j, m \in 0 .. HashBlocks - 1 :
              Place(hashBi, j, HashBlocks) = Place(hashBi, m, HashBlocks) => j = m
         /\ \A j \in 0 .. HashBlocks - 1 :
              Place(Place(hashBi, 1, HashBlocks), j, HashBlocks) = Place(hashBi, j + 1, HashBlocks)
<1>1. hashBi \in 0 .. HashBlocks - 1
  BY DEF TypeInv
<1>2. HashReady + HashFilling <= HashBlocks
  BY DEF HashCount
<1>3. HashReady \in 0 .. HashBlocks
  BY <1>2, HashTypes, RingsAre
<1> QED BY <1>1, <1>3, RingsAre, PlaceIs

\* ... or all but the one that is filled next ...
LEMMA HashKept ==
  ASSUME TypeInv, HashCount, HashAsked, HashReady < HashBlocks, hashBi' = hashBi,
         \A i \in 0 .. HashBlocks - 1 : i # hashIndex => hashBuf'[i] = hashBuf[i]
  PROVE  \A j \in 0 .. HashReady - 1 : HashItem(j)' = HashItem(j)
<1>1. hashIndex = Place(hashBi, HashReady, HashBlocks)
  BY DEF HashCount
<1>2. HashReady \in 0 .. HashBlocks - 1
  BY HashIndices
<1> SUFFICES ASSUME NEW j \in 0 .. HashReady - 1 PROVE HashItem(j)' = HashItem(j)
  OBVIOUS
<1>3. j \in 0 .. HashBlocks - 1 /\ j # HashReady /\ j \in 0 .. HashBlocks
  BY <1>2, RingsAre
<1>4. Place(hashBi, j, HashBlocks) # hashIndex /\ Place(hashBi, j, HashBlocks) \in 0 .. HashBlocks - 1
  BY <1>1, <1>2, <1>3, HashIndices
<1> QED BY <1>4 DEF HashItem

\* ... or one more ...
LEMMA HashPushed ==
  ASSUME IInv, nthread = 2, HashAsked, HashRead
  PROVE  /\ HashReady' = HashReady + 1 /\ HashReady < HashBlocks /\ HashHeld' = HashHeld
         /\ \A j \in 0 .. HashReady - 1 : HashItem(j)' = HashItem(j)
         /\ \A j \in 0 .. HashReady : HashAt(j)' = HashAt(j)
         /\ \A j \in Nat : j = HashReady => HashItem(j)' = hashBuf'[hashIndex] /\ HashAt(j + 1)' = pos'
<1> USE DEF SameBt, SameFlags
<1>1. TypeInv /\ StreamInv /\ HashCount
  BY DEF IInv
<1>2. /\ pc["hash"] = "read" /\ pc'["bt"] = pc["bt"] /\ hashBi' = hashBi /\ SameFlags("hash")
      /\ sync'["hash"].filled = sync["hash"].filled + 1 /\ hashBuf'[hashIndex].at = pos
      /\ \A i \in 0 .. HashBlocks - 1 : i # hashIndex => hashBuf'[i] = hashBuf[i]
  BY <1>1, HashReadDoes
<1>3. HashReady' = HashReady + 1 /\ HashHeld' = HashHeld
  BY <1>1, <1>2, HashTypes DEF HashReady, HashHeld, HashAsked
<1>4. HashReady < HashBlocks
  <2>1. HashReady + 1 <= HashBlocks
    BY <1>1, <1>2 DEF HashCount, HashFilling
  <2> QED BY <1>1, <2>1, HashTypes, RingsAre
<1>5. \A j \in 0 .. HashReady - 1 : HashItem(j)' = HashItem(j)
  BY <1>1, <1>2, <1>4, HashKept
<1>6. hashIndex = Place(hashBi, HashReady, HashBlocks)
  BY <1>1 DEF HashCount
<1>7. \A j \in Nat : j = HashReady => HashItem(j)' = hashBuf'[hashIndex]
  BY <1>2, <1>6 DEF HashItem
<1>8. \A j \in Nat : j = HashReady => HashAt(j + 1)' = pos'
  BY <1>1, <1>3, HashTypes DEF HashAt
<1>9. ASSUME NEW j \in 0 .. HashReady PROVE HashAt(j)' = HashAt(j)
  <2>1. CASE j < HashReady
    <3>1. j \in 0 .. HashReady - 1 /\ j < HashReady + 1
      BY <1>1, <2>1, HashTypes
    <3> QED BY <1>3, <1>5, <2>1, <3>1 DEF HashAt
  <2>2. CASE j = HashReady
    <3>1. j < HashReady + 1 /\ ~(j < HashReady) /\ j \in Nat
      BY <1>1, <2>2, HashTypes
    <3> QED BY <1>2, <1>3, <1>7, <2>2, <3>1 DEF HashAt
  <2> QED BY <1>1, <2>1, <2>2, HashTypes
<1> QED BY <1>3, <1>4, <1>5, <1>7, <1>8, <1>9

\* ... or one less, when the bt thread asks for the next.
LEMMA HashPopped ==
  ASSUME IInv, BtAsk, HashAsked
  PROVE  /\ HashReady' = HashReady - 1 /\ HashReady >= 1 /\ HashHeld = 1 /\ HashHeld' = 0
         /\ \A j \in 0 .. HashReady - 1 : HashAt(j)' = HashAt(j + 1)
         /\ \A j \in 0 .. HashReady - 2 : HashItem(j)' = HashItem(j + 1)
<1> USE DEF SameHash
<1>1. TypeInv /\ HashCount
  BY DEF IInv
<1>2. /\ pc["bt"] = "fill" /\ pc'["bt"] = "wait" /\ hashBi' = Place(hashBi, 1, HashBlocks)
      /\ sync'["hash"].filled = sync["hash"].filled /\ hashBuf' = hashBuf /\ pos' = pos
  BY <1>1, BtAskDoes
<1>3. HashHeld = 1 /\ HashHeld' = 0 /\ HashReady' = HashReady - 1 /\ HashReady >= 1
  BY <1>1, <1>2, HashTypes DEF HashReady, HashHeld
<1>4. \A j \in 0 .. HashBlocks - 1 : HashItem(j)' = HashItem(j + 1)
  BY <1>1, <1>2, HashIndices DEF HashItem
<1>5. ASSUME NEW j \in 0 .. HashReady - 1
      PROVE  j \in 0 .. HashBlocks - 1 /\ (j < HashReady - 1 <=> j + 1 < HashReady)
  BY <1>1, HashTypes, HashIndices, RingsAre
<1>6. ASSUME NEW j \in 0 .. HashReady - 1 PROVE HashAt(j)' = HashAt(j + 1)
  BY <1>2, <1>3, <1>4, <1>5 DEF HashAt
<1>7. ASSUME NEW j \in 0 .. HashReady - 2 PROVE HashItem(j)' = HashItem(j + 1)
  <2>1. j \in 0 .. HashReady - 1
    BY <1>1, HashTypes
  <2> QED BY <1>4, <1>5, <2>1
<1> QED BY <1>3, <1>6, <1>7


\* The bt thread is only woken to work before anything was read.
LEMMA BtStartsFresh ==
  ASSUME IInv, BtStart
  PROVE  /\ SameDoc /\ SameData /\ SameLz /\ pc["bt"] = "start" /\ pc'["lz"] = pc["lz"]
         /\ sync'["hash"] = sync["hash"] /\ sync'["bt"].filled = sync["bt"].filled
         /\ sync'["bt"].needStart = sync["bt"].needStart
         /\ \/ pc'["bt"] = "gone"
            \/ /\ pc'["bt"] = "free" /\ pc["lz"] = "wait" /\ HashFresh
               /\ HashReady = 0 /\ HashReady' = 0 /\ HashHeld = 0 /\ HashHeld' = 0
<1>1. TypeInv /\ CtrlInv
  BY DEF IInv
<1>2. /\ SameDoc /\ SameData /\ SameLz /\ pc["bt"] = "start" /\ pc'["lz"] = pc["lz"]
      /\ sync'["hash"] = sync["hash"] /\ sync["bt"].canStart
      /\ sync'["bt"].filled = sync["bt"].filled /\ sync'["bt"].needStart = sync["bt"].needStart
      /\ pc'["bt"] = (IF sync["bt"].exit THEN "gone" ELSE "free")
  BY <1>1, BtStartDoes
<1>3. CASE sync["bt"].exit
  BY <1>2, <1>3
<1>4. CASE ~sync["bt"].exit
  <2>1. pc["lz"] \in {"ask", "wait", "encode", "stop", "stopping"}
    BY <1>1, <1>2, <1>4 DEF TypeInv, LzLabels, CtrlInv, LzInv, Leaving
  <2>2. pc["lz"] = "wait" /\ HashFresh
    BY <1>1, <1>2, <2>1 DEF CtrlInv, BtInv
  <2>3. ~HashAsked /\ sync["hash"].filled = 0
    BY <2>2, FreshIs DEF HashAsked
  <2>4. HashReady = 0 /\ HashReady' = 0 /\ HashHeld = 0 /\ HashHeld' = 0
    BY <1>2, <2>3 DEF HashReady, HashHeld, HashAsked
  <2> QED BY <1>2, <1>4, <2>2, <2>4
<1> QED BY <1>2, <1>3, <1>4

LEMMA HashFacts ==
  ASSUME IInv
  PROVE  /\ TypeInv /\ CtrlInv /\ StreamInv /\ HashCount /\ BtCount
         /\ pc["hash"] \in {"loop", "move", "read", "stopped"} => nthread = 2 /\ HashAsked
         /\ pc["bt"] = "wait" => HashAsked
         /\ HashAsked => BtRuns \/ pc["bt"] \in {"stop", "stopping"}
         /\ HashAsked => pc["lz"] \in {"wait", "encode", "ask", "stop", "stopping"}
         /\ pc["bt"] = "stopping" => sync["hash"].stopWriting
         /\ HashAsked /\ sync["hash"].stopWriting => pc["bt"] = "stopping"
         /\ ~HashAsked /\ pc["bt"] = "fill" => HashFresh
         /\ nthread = 1 => pc["bt"] = "none" /\ pc["hash"] = "none"
BY DEF IInv, TypeInv, HashLabels, CtrlInv, LzInv, HashInv

\* The next block is only asked for while the one before is finished.
LEMMA HashRoom ==
  ASSUME IInv, HashFree, pc'["hash"] = "read"
  PROVE  /\ HashAsked /\ (BtRuns \/ pc["bt"] = "stop")
         /\ HashReady < HashBlocks /\ HashReady' = HashReady /\ HashHeld' = HashHeld
         /\ \A j \in 0 .. HashReady - 1 : HashItem(j)' = HashItem(j)
         /\ \A j \in 0 .. HashReady : HashAt(j)' = HashAt(j)
<1> USE DEF SameBt, SameFlags
<1>1. TypeInv /\ HashCount
  BY HashFacts
<1>2. /\ pc["hash"] = "loop" /\ pc'["bt"] = pc["bt"] /\ hashBi' = hashBi /\ SameFlags("hash") /\ pos' = pos
      /\ sync["hash"].free > 0 /\ sync'["hash"].filled = sync["hash"].filled /\ ~sync["hash"].stopWriting
      /\ \A i \in 0 .. HashBlocks - 1 : i # hashIndex => hashBuf'[i] = hashBuf[i]
  BY <1>1, HashFreeDoes
<1>3. HashAsked /\ (BtRuns \/ pc["bt"] = "stop") /\ pc["bt"] # "stopping"
  BY <1>2, HashFacts
<1>4. HashReady' = HashReady /\ HashHeld' = HashHeld
  BY <1>2 DEF HashReady, HashHeld, HashAsked
<1>5. HashReady < HashBlocks
  BY <1>1, <1>2, <1>3, HashTypes, RingsAre DEF HashCount
<1>6. \A j \in 0 .. HashReady - 1 : HashItem(j)' = HashItem(j)
  BY <1>1, <1>2, <1>3, <1>5, HashKept
<1>7. ASSUME NEW j \in 0 .. HashReady PROVE HashAt(j)' = HashAt(j)
  <2>1. CASE j < HashReady
    <3>1. j \in 0 .. HashReady - 1
      BY <1>1, <2>1, HashTypes
    <3> QED BY <1>4, <1>6, <2>1, <3>1 DEF HashAt
  <2>2. CASE ~(j < HashReady)
    BY <1>2, <1>4, <2>2 DEF HashAt
  <2> QED BY <2>1, <2>2
<1> QED BY <1>3, <1>4, <1>5, <1>6, <1>7

LEMMA LagGrows == \A n, c \in Nat, j \in Nat : n * c + c = (n + 1) * c /\ n * c \in Nat
  OBVIOUS

LEMMA HashRingStep == IInv /\ Next => HashRing'
<1> SUFFICES ASSUME IInv, Next, BtRuns', NEW j \in 0 .. HashReady' - 1 PROVE HashLink(j)'
  BY DEF HashRing
<1> USE DEF SameDoc, SameRes, SameWindow, SameHash, SameBt, SamePtr, SameLz, SameData
<1>1. TypeInv /\ StreamInv /\ HashCount /\ HashReady \in Nat /\ HashBlock \in Nat /\ NumHash \in Nat
  BY HashFacts, HashTypes, SizesAre
<1>2. BtRuns => \A i \in 0 .. HashReady - 1 : HashLink(i)
  BY DEF IInv, HashRing
<1>3. ASSUME BtRuns, hashBuf' = hashBuf, hashBi' = hashBi, pos' = pos, HashReady' = HashReady,
             streamPos' = streamPos, streamEnd' = streamEnd, size' = size
      PROVE  HashLink(j)'
  <2>1. HashLink(j) /\ j \in Nat /\ j + 1 \in Nat
    BY <1>1, <1>2, <1>3
  <2>2. HashItem(j)' = HashItem(j) /\ HashAt(j + 1)' = HashAt(j + 1)
    BY <1>3, <2>1, HashSame
  <2> QED BY <1>3, <2>1, <2>2 DEF HashLink, Heads, Adv
<1>4. CASE HashQuietStep
  BY <1>3, <1>4 DEF HashQuietStep
<1>5. CASE EncodeAlone
  BY <1>1, <1>5, HashFacts, EncodeAloneDoes DEF CtrlInv, LzInv, BtRuns
<1>6. CASE BtStart
  <2>1. HashReady' = 0
    BY <1>6, BtStartsFresh DEF BtRuns
  <2> QED BY <2>1
<1>7. CASE BtAsk
  <2>1. /\ SameDoc /\ SameWindow /\ SameHash /\ pc["bt"] = "fill" /\ pc'["bt"] = "wait"
        /\ sync'["hash"].filled = sync["hash"].filled
    BY <1>1, <1>7, BtAskDoes
  <2>2. CASE ~HashAsked
    <3>1. sync["hash"].filled = 0
      BY <2>1, <2>2, HashFacts, FreshIs
    <3>2. HashReady' = 0
      BY <2>1, <3>1 DEF HashReady, HashHeld
    <3> QED BY <3>2
  <2>3. CASE HashAsked
    <3>1. HashReady' = HashReady - 1 /\ HashReady >= 1
      BY <1>7, <2>3, HashPopped
    <3>2. j \in 0 .. HashReady - 1 /\ j + 1 \in 0 .. HashReady - 1 /\ j \in 0 .. HashReady - 2
          /\ j + 1 \in 0 .. (HashReady - 1)
      BY <1>1, <3>1
    <3>3. HashItem(j)' = HashItem(j + 1) /\ HashAt(j + 1)' = HashAt(j + 2) /\ HashLink(j + 1)
      <4>1. (j + 1) + 1 = j + 2
        BY <3>2
      <4> QED BY <1>2, <1>7, <2>1, <2>3, <3>2, <4>1, HashPopped DEF BtRuns
    <3>4. HashReady' - j = HashReady - (j + 1) /\ (j + 1) + 1 = j + 2
      BY <1>1, <3>1, <3>2
    <3> QED BY <2>1, <3>3, <3>4 DEF HashLink, Heads, Adv
  <2> QED BY <2>2, <2>3
<1>8. CASE BtTake
  <2>1. /\ SameDoc /\ SameWindow /\ SameHash /\ hashBi' = hashBi /\ pc["bt"] = "wait"
        /\ pc'["bt"] \in {"fill", "end"} /\ SameFlags("hash")
        /\ sync["hash"].filled > 0 /\ sync'["hash"].filled = sync["hash"].filled - 1
    BY <1>1, <1>8, BtTakeDoes
  <2>2. HashReady' = HashReady /\ BtRuns
    BY <1>1, <2>1, HashFacts, HashTypes DEF HashReady, HashHeld, HashAsked, SameFlags, BtRuns
  <2> QED BY <1>3, <2>1, <2>2
<1>9. CASE BtMatch
  <2>1. /\ SameDoc /\ SameWindow /\ SameHash /\ hashBi' = hashBi /\ pc' = pc /\ sync' = sync
    BY <1>9 DEF BtMatch, docVars, windowVars, hashVars
  <2>2. HashReady' = HashReady /\ BtRuns
    BY <2>1 DEF HashReady, HashHeld, HashAsked, BtRuns
  <2> QED BY <1>3, <2>1, <2>2
<1>10. CASE HashFree
  <2>1. /\ SameDoc /\ SameWindow /\ hashBi' = hashBi /\ pos' = pos /\ pc'["bt"] = pc["bt"]
        /\ SameFlags("hash") /\ sync'["hash"].filled = sync["hash"].filled
        /\ pc'["hash"] = "read" \/ hashBuf' = hashBuf
    BY <1>1, <1>10, HashFreeDoes
  <2>2. BtRuns /\ HashReady' = HashReady
    BY <2>1 DEF BtRuns, HashReady, HashHeld, HashAsked, SameFlags
  <2>3. CASE hashBuf' = hashBuf
    BY <1>3, <2>1, <2>2, <2>3
  <2>4. CASE pc'["hash"] = "read"
    <3>1. HashLink(j) /\ j \in 0 .. HashReady - 1 /\ j + 1 \in 0 .. HashReady
      BY <1>1, <1>2, <2>2
    <3>2. HashItem(j)' = HashItem(j) /\ HashAt(j + 1)' = HashAt(j + 1)
      BY <1>10, <2>4, <3>1, HashRoom
    <3> QED BY <2>1, <2>2, <3>1, <3>2 DEF HashLink, Heads, Adv
  <2> QED BY <2>1, <2>3, <2>4
<1>11. CASE HashRead
  <2>1. pc["hash"] = "read" /\ nthread = 2 /\ HashAsked
    BY <1>11, HashFacts DEF HashRead
  <2>2. /\ SameDoc /\ pc'["bt"] = pc["bt"] /\ streamPos <= streamPos' /\ streamPos' \in Nat /\ pos' \in Nat
        /\ pos <= pos' /\ (~streamEnd' => pos' <= pos + HashBlock)
        /\ (streamEnd' => streamPos' = size) /\ (streamEnd => streamEnd' /\ streamPos' = streamPos)
    BY <1>1, <1>11, <2>1, HashReadDoes DEF TypeInv
  <2>3. /\ HashReady' = HashReady + 1
        /\ \A i \in 0 .. HashReady - 1 : HashItem(i)' = HashItem(i)
        /\ \A i \in 0 .. HashReady : HashAt(i)' = HashAt(i)
        /\ \A i \in Nat : i = HashReady => HashItem(i)' = hashBuf'[hashIndex] /\ HashAt(i + 1)' = pos'
    BY <1>11, <2>1, HashPushed
  <2>4. BtRuns
    BY <2>2 DEF BtRuns
  <2>5. CASE j = HashReady
    <3>1. HashItem(j)' = hashBuf'[hashIndex] /\ HashAt(j + 1)' = pos'
      BY <1>1, <2>3, <2>5
    <3>2. (HashReady' - j) * HashBlock = HashBlock
      BY <1>1, <2>3, <2>5
    <3>3. /\ hashBuf'[hashIndex].at = pos /\ pos + hashBuf'[hashIndex].avail = streamPos'
          /\ hashBuf'[hashIndex].n = Heads(hashBuf'[hashIndex].avail)
          /\ hashBuf'[hashIndex].avail < NumHash => streamEnd'
          /\ pos' = pos + Adv(hashBuf'[hashIndex])
      BY <1>1, <1>11, <2>1, HashReadDoes
    <3>4. pos \in Nat /\ pos # None
      BY <1>1 DEF TypeInv, None
    <3>5. \A q \in Nat : q <= pos + HashBlock => q - pos <= HashBlock
      BY <1>1, <3>4
    <3>6. ~streamEnd' => pos' - pos <= (HashReady' - j) * HashBlock
      BY <2>2, <3>2, <3>5
    <3>7. pos + hashBuf'[hashIndex].avail <= streamPos'
      BY <2>2, <3>3
    <3>8. HashItem(j)'.avail = hashBuf'[hashIndex].avail /\ HashItem(j)'.at = pos
          /\ HashItem(j)'.n = hashBuf'[hashIndex].n
      BY <3>1, <3>3
    <3> QED BY <2>2, <3>1, <3>3, <3>4, <3>6, <3>7, <3>8 DEF HashLink, Heads, Adv
  <2>6. CASE j # HashReady
    <3>1. j \in 0 .. HashReady - 1 /\ j + 1 \in 0 .. HashReady /\ j \in Nat /\ HashReady - j \in Nat
      BY <1>1, <2>3, <2>6
    <3>2. HashItem(j)' = HashItem(j) /\ HashAt(j + 1)' = HashAt(j + 1) /\ HashLink(j)
      BY <1>2, <2>3, <2>4, <3>1
    <3>3. /\ HashItem(j).at # None /\ HashItem(j).n = Heads(HashItem(j).avail)
          /\ HashItem(j).at + HashItem(j).avail <= streamPos
          /\ HashAt(j + 1) = HashItem(j).at + Adv(HashItem(j))
          /\ HashItem(j).avail < NumHash => streamEnd /\ HashItem(j).at + HashItem(j).avail = size
          /\ ~streamEnd => pos - HashItem(j).at <= (HashReady - j) * HashBlock
      BY <3>2 DEF HashLink
    <3>4. HashItem(j).at \in Nat /\ HashItem(j).avail \in Nat
      <4>0. Place(hashBi, j, HashBlocks) \in 0 .. HashBlocks - 1
        BY <1>1, <3>1, HashIndices
      <4>1. HashItem(j) \in BlockType
        BY <1>1, <4>0 DEF HashItem, TypeInv
      <4> QED BY <3>3, <4>1 DEF BlockType
    <3>5. \A q \in Nat : streamPos <= q => HashItem(j).at + HashItem(j).avail <= q
      BY <1>1, <3>3, <3>4 DEF TypeInv
    <3>6. ~streamEnd' => pos' - HashItem(j).at <= (HashReady' - j) * HashBlock
      <4>1. HashReady' - j = (HashReady - j) + 1
        BY <1>1, <2>3, <3>1
      <4>2. (HashReady - j) * HashBlock + HashBlock = ((HashReady - j) + 1) * HashBlock
            /\ (HashReady - j) * HashBlock \in Nat
        BY <1>1, <3>1, LagGrows
      <4> DEFINE lag == (HashReady - j) * HashBlock
      <4>3. lag \in Nat /\ lag + HashBlock = (HashReady' - j) * HashBlock
        BY <4>1, <4>2
      <4>4. ~streamEnd => pos - HashItem(j).at <= lag
        BY <3>3
      <4> HIDE DEF lag
      <4>5. pos \in Nat
        BY <1>1 DEF TypeInv
      <4>6. \A q \in Nat : ~streamEnd /\ q <= pos + HashBlock => q - HashItem(j).at <= lag + HashBlock
        BY <1>1, <3>4, <4>3, <4>4, <4>5
      <4> QED BY <2>2, <4>3, <4>6
    <3> QED BY <2>2, <3>2, <3>3, <3>5, <3>6 DEF HashLink, Heads, Adv
  <2> QED BY <2>5, <2>6
<1> QED BY HashQuiet, <1>4, <1>5, <1>6, <1>7, <1>8, <1>9, <1>10, <1>11



-----------------------------------------------------------------------------
(* Where the bt thread goes on *)

LEMMA NextAt ==
  /\ \A i \in Nat : i = HashHeld' => BtNext' = HashAt(i)' - hashLeft'
  /\ \A i \in Nat : i = HashHeld => BtNext = HashAt(i) - hashLeft
BY DEF BtNext, HashAt, HashItem

LEMMA BtNextType ==
  ASSUME IInv
  PROVE  /\ HashHeld \in 0 .. 1 /\ hashLeft \in Nat /\ hashAvail \in Nat /\ btPos \in Nat /\ pos \in Nat
         /\ BtRuns => HashAt(HashHeld) \in Nat /\ BtNext \in Int
<1>1. TypeInv /\ HashCount /\ hashLeft \in Nat /\ hashAvail \in Nat /\ btPos \in Nat /\ pos \in Nat
  BY HashFacts DEF TypeInv
<1>2. HashHeld \in 0 .. 1 /\ HashHeld \in Nat /\ HashReady \in Nat /\ HashHeld <= HashReady
  BY <1>1, HashTypes
<1>3. ASSUME BtRuns PROVE HashAt(HashHeld) \in Nat
  <2>1. CASE HashHeld < HashReady
    <3>1. HashHeld \in 0 .. HashReady - 1
      BY <1>2, <2>1
    <3>2. HashLink(HashHeld)
      BY <1>3, <3>1 DEF IInv, HashRing
    <3>3. HashItem(HashHeld) \in BlockType
      <4>1. HashHeld \in 0 .. HashBlocks
        BY <1>1, <1>2, HashIndices
      <4> QED BY <1>1, <4>1, HashIndices DEF HashItem, TypeInv
    <3> QED BY <2>1, <3>2, <3>3 DEF HashLink, HashAt, BlockType
  <2>2. CASE ~(HashHeld < HashReady)
    BY <1>1, <2>2 DEF HashAt
  <2> QED BY <2>1, <2>2
<1> QED BY <1>1, <1>2, <1>3 DEF BtNext

\* It goes on there while the others work, and when it asks for the next block.
LEMMA BtNextKept ==
  ASSUME IInv, Next, BtRuns', HashQuietStep \/ HashFree \/ HashRead \/ BtAsk
  PROVE  BtNext' = BtNext /\ hashLeft' = hashLeft /\ hashAvail' = hashAvail /\ btPos' = btPos /\ BtRuns
<1> USE DEF SameBt, SamePtr
<1>1. TypeInv /\ StreamInv /\ HashCount /\ HashReady \in Nat
  BY HashFacts, HashTypes
<1>2. HashHeld \in Nat /\ HashHeld \in 0 .. HashReady /\ 0 \in Nat /\ 1 \in Nat
  BY <1>1, HashTypes
<1>3. CASE HashQuietStep
  <2>1. HashAt(HashHeld)' = HashAt(HashHeld)
    BY <1>3 DEF HashQuietStep, HashAt, HashItem
  <2> QED BY <1>3, <2>1 DEF HashQuietStep, BtNext
<1>4. CASE HashFree
  <2>1. /\ hashBi' = hashBi /\ pos' = pos /\ pc'["bt"] = pc["bt"]
        /\ SameFlags("hash") /\ sync'["hash"].filled = sync["hash"].filled
        /\ pc'["hash"] = "read" \/ hashBuf' = hashBuf
        /\ hashLeft' = hashLeft /\ hashAvail' = hashAvail /\ btPos' = btPos
    BY <1>1, <1>4, HashFreeDoes
  <2>2. HashHeld' = HashHeld /\ HashReady' = HashReady /\ BtRuns
    BY <2>1 DEF HashHeld, HashReady, HashAsked, SameFlags, BtRuns
  <2>3. \A i \in 0 .. HashReady : HashAt(i)' = HashAt(i)
    <3>1. CASE hashBuf' = hashBuf
      BY <1>1, <2>1, <2>2, <3>1, HashSame
    <3>2. CASE pc'["hash"] = "read"
      BY <1>4, <3>2, HashRoom
    <3> QED BY <2>1, <3>1, <3>2
  <2> QED BY <1>2, <2>1, <2>2, <2>3, NextAt
<1>5. CASE HashRead
  <2>1. nthread = 2 /\ HashAsked
    BY <1>5, HashFacts DEF HashRead
  <2>2. hashLeft' = hashLeft /\ hashAvail' = hashAvail /\ btPos' = btPos /\ pc'["bt"] = pc["bt"]
    BY <1>1, <1>5, <2>1, HashReadDoes
  <2>3. HashHeld' = HashHeld /\ \A i \in 0 .. HashReady : HashAt(i)' = HashAt(i)
    BY <1>5, <2>1, HashPushed
  <2> QED BY <1>2, <2>2, <2>3, NextAt DEF BtRuns
<1>6. CASE BtAsk
  <2>1. /\ hashLeft' = hashLeft /\ hashAvail' = hashAvail /\ btPos' = btPos /\ pc["bt"] = "fill"
        /\ pc'["bt"] = "wait" /\ SameHash /\ sync'["hash"].filled = sync["hash"].filled
    BY <1>1, <1>6, BtAskDoes
  <2>2. CASE HashAsked
    <3>1. HashHeld = 1 /\ HashHeld' = 0 /\ HashReady >= 1
          /\ \A j \in 0 .. HashReady - 1 : HashAt(j)' = HashAt(j + 1)
      BY <1>6, <2>2, HashPopped
    <3>2. 0 \in 0 .. HashReady - 1 /\ 0 + 1 = 1
      BY <1>1, <3>1
    <3>3. HashAt(0)' = HashAt(1)
      BY <3>1, <3>2
    <3>4. BtNext' = HashAt(0)' - hashLeft' /\ BtNext = HashAt(1) - hashLeft
      BY <1>2, <3>1, NextAt
    <3> QED BY <2>1, <3>3, <3>4 DEF BtRuns
  <2>3. CASE ~HashAsked
    <3>1. sync["hash"].filled = 0
      BY <2>1, <2>3, HashFacts, FreshIs
    <3>2. HashHeld = 0 /\ HashHeld' = 0 /\ HashReady = 0 /\ HashReady' = 0
      BY <2>1, <2>3, <3>1 DEF HashHeld, HashReady
    <3>3. HashAt(0)' = pos' /\ HashAt(0) = pos
      BY <3>2 DEF HashAt
    <3>4. BtNext' = HashAt(0)' - hashLeft' /\ BtNext = HashAt(0) - hashLeft
      BY <1>2, <3>2, NextAt
    <3> QED BY <2>1, <3>3, <3>4 DEF SameHash, BtRuns
  <2> QED BY <2>2, <2>3
<1> QED BY <1>3, <1>4, <1>5, <1>6

\* The block it takes up begins there.
LEMMA BtTakeIs ==
  ASSUME IInv, BtTake
  PROVE  /\ hashLeft = 0 /\ BtRuns /\ BtRuns' /\ BtNext \in Nat
         /\ hashBuf[hashBi].at = BtNext /\ hashBuf[hashBi].at # None
         /\ hashBuf[hashBi].n \in Nat /\ hashBuf[hashBi].avail \in Nat
         /\ BtNext + hashBuf[hashBi].avail <= streamPos
         /\ hashBuf[hashBi].avail >= NumHash =>
              /\ BtNext' = BtNext /\ btPos = BtNext
              /\ hashBuf[hashBi].n <= HashBlock /\ hashBuf[hashBi].n <= hashBuf[hashBi].avail
         /\ hashBuf[hashBi].avail < NumHash =>
              /\ hashBuf[hashBi].n = 0 /\ BtNext' = BtNext + hashBuf[hashBi].avail
              /\ BtNext' = size /\ streamEnd /\ streamPos = size
              /\ hashBuf[hashBi].avail = 0 \/ BtNext = btPos
<1> USE DEF SameBt, SamePtr
<1>1. /\ TypeInv /\ StreamInv /\ HashCount /\ HashReady \in Nat /\ NumHash \in Nat \ {0}
      /\ streamPos \in Nat /\ size \in Nat /\ btPos \in Nat
  BY HashFacts, HashTypes, SizesAre DEF TypeInv
<1>2. /\ pc["bt"] = "wait" /\ pc'["bt"] \in {"fill", "end"} /\ SameFlags("hash") /\ SameHash /\ hashBi' = hashBi
      /\ sync["hash"].filled > 0 /\ sync'["hash"].filled = sync["hash"].filled - 1
      /\ hashLeft' = hashBuf[hashBi].n
  BY <1>1, BtTakeDoes
<1>3. HashAsked /\ HashAsked' /\ BtRuns /\ BtRuns'
  BY <1>2, HashFacts DEF BtRuns, HashAsked, SameFlags
<1>4. HashHeld = 0 /\ HashHeld' = 1 /\ HashReady' = HashReady /\ HashReady >= 1
  BY <1>1, <1>2, <1>3, HashTypes DEF HashHeld, HashReady
<1>5. hashLeft = 0
  BY <1>2, <1>3 DEF IInv, BtPlace
<1>6. 0 \in 0 .. HashReady - 1 /\ 0 < HashReady /\ 0 \in Nat /\ 1 \in Nat /\ 0 + 1 = 1
  BY <1>1, <1>4
<1>7. HashLink(0)
  BY <1>3, <1>6 DEF IInv, HashRing
<1>8. HashItem(0) = hashBuf[hashBi] /\ hashBuf[hashBi] \in BlockType
  BY <1>1, RingsAre, PlaceIs DEF HashItem, TypeInv
<1> DEFINE h == hashBuf[hashBi]
<1>9. /\ h.at # None /\ h.n = Heads(h.avail) /\ h.at + h.avail <= streamPos
      /\ HashAt(1) = h.at + Adv(h)
      /\ h.avail < NumHash => streamEnd /\ h.at + h.avail = size
  BY <1>6, <1>7, <1>8 DEF HashLink
<1>10. h.at \in Nat /\ h.n \in Nat /\ h.avail \in Nat
  BY <1>8, <1>9 DEF BlockType
<1>11. BtNext = h.at /\ BtNext' = HashAt(1) - h.n
  <2>1. HashAt(0) = h.at
    BY <1>6, <1>8 DEF HashAt
  <2>2. HashAt(1)' = HashAt(1)
    BY <1>2, <1>4, <1>6, HashSame DEF SameHash
  <2>3. BtNext = HashAt(0) - hashLeft /\ BtNext' = HashAt(1)' - hashLeft'
    BY <1>4, <1>6, NextAt
  <2> QED BY <1>2, <1>5, <1>10, <2>1, <2>2, <2>3
<1>12. BtNext = btPos \/ BtNext = size
  BY <1>3 DEF IInv, BtPlace
<1>13. streamPos <= size
  BY <1>1 DEF StreamInv
<1>14. Heads(h.avail) <= h.avail /\ Heads(h.avail) <= HashBlock /\ (h.avail < NumHash => Heads(h.avail) = 0)
  BY <1>10, HeadsAre
<1> HIDE DEF h
<1>15. CASE h.avail >= NumHash
  <2>1. Adv(h) = h.n
    BY <1>1, <1>10, <1>15 DEF Adv
  <2>2. BtNext' = BtNext /\ BtNext = btPos
    BY <1>1, <1>9, <1>10, <1>11, <1>12, <1>13, <1>15, <2>1
  <2> QED BY <1>1, <1>3, <1>5, <1>9, <1>10, <1>11, <1>14, <1>15, <2>2 DEF h
<1>16. CASE h.avail < NumHash
  <2>1. Adv(h) = h.avail /\ h.n = 0 /\ streamPos = size
    BY <1>1, <1>9, <1>14, <1>16 DEF Adv, StreamInv
  <2>2. BtNext' = h.at + h.avail /\ (h.avail = 0 \/ BtNext = btPos)
    BY <1>1, <1>9, <1>10, <1>11, <1>12, <1>13, <1>16, <2>1
  <2> QED BY <1>1, <1>3, <1>5, <1>9, <1>10, <1>11, <1>16, <2>1, <2>2 DEF h
<1> QED BY <1>1, <1>10, <1>15, <1>16


LEMMA BtPlaceStep == IInv /\ Next => BtPlace'
<1> SUFFICES ASSUME IInv, Next, BtRuns' PROVE BtPlace'
  BY DEF BtPlace
<1> USE DEF SameDoc, SameRes, SameWindow, SameHash, SameBt, SamePtr, SameLz, SameData
<1>1. /\ TypeInv /\ StreamInv /\ HashCount /\ hashLeft \in Nat /\ hashAvail \in Nat /\ btPos \in Nat
      /\ streamPos \in Nat /\ HashBlock \in Nat
  BY HashFacts, SizesAre DEF TypeInv
<1>2. BtRuns => /\ BtNext = btPos \/ (BtNext = size /\ streamPos = size /\ streamEnd /\ hashLeft = 0 /\ hashAvail = 0)
                /\ hashLeft <= HashBlock /\ hashLeft <= hashAvail /\ btPos + hashAvail <= streamPos
                /\ pc["bt"] = "wait" => hashLeft = 0
  BY DEF IInv, BtPlace
<1>3. ASSUME BtNext' = BtNext, hashLeft' = hashLeft, hashAvail' = hashAvail, btPos' = btPos, BtRuns,
             size' = size, streamPos' = streamPos, streamEnd' = streamEnd,
             pc'["bt"] = "wait" => hashLeft = 0
      PROVE  BtPlace'
  BY <1>2, <1>3 DEF BtPlace
<1>4. CASE HashQuietStep
  BY <1>2, <1>3, <1>4, BtNextKept DEF HashQuietStep
<1>5. CASE EncodeAlone
  BY <1>1, <1>5, HashFacts, EncodeAloneDoes DEF CtrlInv, LzInv, BtRuns
<1>6. CASE BtStart
  <2>1. /\ SameData /\ HashFresh /\ HashReady' = 0 /\ HashHeld' = 0 /\ pc'["bt"] = "free"
    BY <1>6, BtStartsFresh DEF BtRuns
  <2>2. pos = 0 /\ btPos = 0 /\ hashLeft = 0 /\ hashAvail = 0 /\ streamPos = 0
    BY <2>1 DEF HashFresh
  <2>3. BtNext' = 0
    BY <2>1, <2>2 DEF BtNext, HashAt
  <2>4. 0 <= HashBlock /\ 0 <= 0 /\ 0 + 0 <= 0
    BY <1>1
  <2> QED BY <2>1, <2>2, <2>3, <2>4 DEF BtPlace
<1>7. CASE BtAsk
  <2>1. SameDoc /\ SameWindow /\ hashLeft = 0
    BY <1>1, <1>7, BtAskDoes
  <2> QED BY <1>3, <1>7, <2>1, BtNextKept
<1>8. CASE BtTake
  <2>1. /\ SameDoc /\ SameWindow /\ SamePtr /\ hashLeft' = hashBuf[hashBi].n /\ pc'["bt"] # "wait"
        /\ \/ hashBuf[hashBi].avail >= NumHash /\ hashAvail' = hashBuf[hashBi].avail
           \/ hashBuf[hashBi].avail < NumHash /\ hashAvail' = 0
    BY <1>1, <1>8, BtTakeDoes
  <2>2. CASE hashBuf[hashBi].avail >= NumHash /\ hashAvail' = hashBuf[hashBi].avail
    BY <1>8, <2>1, <2>2, BtTakeIs DEF BtPlace
  <2>3. CASE hashBuf[hashBi].avail < NumHash /\ hashAvail' = 0
    <3>1. /\ hashLeft' = 0 /\ BtNext' = size /\ streamEnd /\ streamPos = size /\ BtRuns
      BY <1>8, <2>1, <2>3, BtTakeIs
    <3>2. btPos + hashAvail <= streamPos
      BY <1>2, <3>1
    <3>3. btPos + 0 <= streamPos /\ 0 <= HashBlock /\ 0 <= 0
      BY <1>1, <3>2
    <3> QED BY <2>1, <2>3, <3>1, <3>3 DEF BtPlace
  <2> QED BY <2>1, <2>2, <2>3
<1>9. CASE BtMatch
  <2>1. BtRuns /\ pc["bt"] = "fill" /\ hashLeft > 0
    BY <1>9 DEF BtMatch, BtRuns
  <2>2. /\ SameDoc /\ SameWindow /\ SameHash /\ hashBi' = hashBi /\ pc' = pc /\ sync' = sync
        /\ \E k \in 1 .. hashLeft :
             hashLeft' = hashLeft - k /\ hashAvail' = hashAvail - k /\ btPos' = btPos + k
    BY <1>1, <1>2, <1>9, <2>1, BtMatchDoes
  <2>3. PICK k \in 1 .. hashLeft :
          hashLeft' = hashLeft - k /\ hashAvail' = hashAvail - k /\ btPos' = btPos + k
    BY <2>2
  <2>4. BtNext = btPos /\ BtNext = HashAt(HashHeld) - hashLeft /\ HashAt(HashHeld) \in Nat
    BY <1>1, <1>2, <2>1, BtNextType DEF BtNext
  <2>5. BtNext' = HashAt(HashHeld) - hashLeft'
    BY <2>2 DEF BtNext, HashAt, HashItem, HashReady, HashHeld, HashAsked
  <2>6. /\ HashAt(HashHeld) - (hashLeft - k) = btPos + k
        /\ hashLeft - k <= HashBlock /\ hashLeft - k <= hashAvail - k
        /\ (btPos + k) + (hashAvail - k) <= streamPos
    BY <1>1, <1>2, <2>1, <2>3, <2>4
  <2> QED BY <2>1, <2>2, <2>3, <2>5, <2>6 DEF BtPlace
<1>10. CASE HashFree
  <2>1. SameDoc /\ SameWindow /\ pc'["bt"] = pc["bt"]
    BY <1>1, <1>10, HashFreeDoes
  <2> QED BY <1>2, <1>3, <1>10, <2>1, BtNextKept
<1>11. CASE HashRead
  <2>1. nthread = 2 /\ HashAsked
    BY <1>11, HashFacts DEF HashRead
  <2>2. /\ SameDoc /\ pc'["bt"] = pc["bt"] /\ streamPos <= streamPos' /\ streamPos' \in Nat
        /\ (streamEnd => streamEnd' /\ streamPos' = streamPos)
    BY <1>1, <1>11, <2>1, HashReadDoes DEF TypeInv
  <2>3. BtNext' = BtNext /\ hashLeft' = hashLeft /\ hashAvail' = hashAvail /\ btPos' = btPos /\ BtRuns
    BY <1>11, BtNextKept
  <2>4. \A q \in Nat : streamPos <= q => btPos + hashAvail <= q
    BY <1>1, <1>2, <2>3
  <2>5. btPos' + hashAvail' <= streamPos'
    BY <2>2, <2>3, <2>4
  <2> QED BY <1>2, <2>2, <2>3, <2>5 DEF BtPlace
<1> QED BY HashQuiet, <1>4, <1>5, <1>6, <1>7, <1>8, <1>9, <1>10, <1>11

\* The hash thread fills another block than the one the bt thread has heads of.
LEMMA NotThatBlock ==
  ASSUME IInv, HashAsked, hashLeft > 0, HashReady < HashBlocks
  PROVE  hashBi # hashIndex
<1>1. TypeInv /\ HashCount /\ HashReady \in Nat
  BY HashFacts, HashTypes
<1>2. pc["bt"] # "wait"
  BY DEF IInv, BtPlace, BtRuns
<1>3. HashHeld = 1 /\ HashReady >= 1
  BY <1>1, <1>2, HashTypes DEF HashHeld
<1>4. HashReady \in 0 .. HashBlocks - 1 /\ 0 \in 0 .. HashBlocks - 1 /\ HashReady # 0
  BY <1>1, <1>3, RingsAre
<1>5. Place(hashBi, HashReady, HashBlocks) # Place(hashBi, 0, HashBlocks)
  BY <1>1, <1>4, HashIndices
<1>6. Place(hashBi, 0, HashBlocks) = hashBi
  BY <1>1, HashIndices, PlaceIs
<1> QED BY <1>1, <1>5, <1>6 DEF HashCount

LEMMA LeftStep == IInv /\ Next => LeftInv'
<1> SUFFICES ASSUME IInv, Next, hashLeft' > 0 PROVE LeftInv'
  BY DEF LeftInv
<1> USE DEF SameDoc, SameRes, SameWindow, SameHash, SameBt, SamePtr, SameLz, SameData
<1>1. /\ TypeInv /\ StreamInv /\ HashCount /\ hashLeft \in Nat /\ hashBi \in 0 .. HashBlocks - 1
  BY HashFacts DEF TypeInv
<1>2. hashLeft > 0 => /\ hashBuf[hashBi].at # None
                      /\ hashBuf[hashBi].at + hashBuf[hashBi].n - hashLeft = btPos
  BY DEF IInv, LeftInv
<1>3. ASSUME hashLeft' = hashLeft, hashBi' = hashBi, btPos' = btPos, hashBuf'[hashBi] = hashBuf[hashBi]
      PROVE  LeftInv'
  BY <1>2, <1>3 DEF LeftInv
<1>4. CASE HashQuietStep
  BY <1>3, <1>4 DEF HashQuietStep
<1>5. CASE EncodeAlone
  BY <1>1, <1>3, <1>5, EncodeAloneDoes
<1>6. CASE BtStart
  BY <1>3, <1>6, BtStartsFresh
<1>7. CASE BtAsk
  BY <1>1, <1>7, BtAskDoes
<1>8. CASE BtTake
  <2>1. hashLeft' = hashBuf[hashBi].n /\ btPos' = btPos /\ hashBuf' = hashBuf /\ hashBi' = hashBi
    BY <1>1, <1>8, BtTakeDoes
  <2>2. /\ hashBuf[hashBi].at = btPos /\ hashBuf[hashBi].at \in Nat /\ hashBuf[hashBi].at # None
        /\ hashBuf[hashBi].n \in Nat
    BY <1>8, <2>1, BtTakeIs, SizesAre
  <2>3. hashBuf[hashBi].at + hashBuf[hashBi].n - hashBuf[hashBi].n = btPos
    BY <2>2
  <2> QED BY <2>1, <2>2, <2>3 DEF LeftInv
<1>9. CASE BtMatch
  <2>1. BtRuns /\ pc["bt"] = "fill" /\ hashLeft > 0
    BY <1>9 DEF BtMatch, BtRuns
  <2>2. hashLeft <= hashAvail
    BY <2>1 DEF IInv, BtPlace
  <2>3. /\ hashBuf' = hashBuf /\ hashBi' = hashBi
        /\ \E k \in 1 .. hashLeft : hashLeft' = hashLeft - k /\ btPos' = btPos + k
    BY <1>1, <1>9, <2>2, BtMatchDoes
  <2>4. PICK k \in 1 .. hashLeft : hashLeft' = hashLeft - k /\ btPos' = btPos + k
    BY <2>3
  <2>5. hashBuf[hashBi].at \in Int /\ hashBuf[hashBi].n \in Int
    <3>1. hashBuf[hashBi] \in BlockType
      BY <1>1 DEF TypeInv
    <3> QED BY <3>1 DEF BlockType, None
  <2>6. hashBuf[hashBi].at + hashBuf[hashBi].n - (hashLeft - k) = btPos + k
    BY <1>1, <1>2, <2>1, <2>4, <2>5
  <2> QED BY <1>2, <2>1, <2>3, <2>4, <2>6 DEF LeftInv
<1>10. CASE HashFree
  <2>1. /\ hashLeft' = hashLeft /\ hashBi' = hashBi /\ btPos' = btPos
        /\ \/ hashBuf' = hashBuf
           \/ /\ pc'["hash"] = "read"
              /\ \A i \in 0 .. HashBlocks - 1 : i # hashIndex => hashBuf'[i] = hashBuf[i]
    BY <1>1, <1>10, HashFreeDoes
  <2>2. CASE hashBuf' = hashBuf
    BY <1>3, <2>1, <2>2
  <2>3. CASE /\ pc'["hash"] = "read"
             /\ \A i \in 0 .. HashBlocks - 1 : i # hashIndex => hashBuf'[i] = hashBuf[i]
    <3>1. hashBi # hashIndex
      <4>1. HashAsked /\ HashReady < HashBlocks
        BY <1>10, <2>3, HashRoom, HashFacts DEF HashFree
      <4> QED BY <2>1, <4>1, NotThatBlock
    <3> QED BY <1>1, <1>3, <2>1, <2>3, <3>1
  <2> QED BY <2>1, <2>2, <2>3
<1>11. CASE HashRead
  <2>1. nthread = 2 /\ HashAsked
    BY <1>11, HashFacts DEF HashRead
  <2>2. /\ hashLeft' = hashLeft /\ hashBi' = hashBi /\ btPos' = btPos
        /\ \A i \in 0 .. HashBlocks - 1 : i # hashIndex => hashBuf'[i] = hashBuf[i]
    BY <1>1, <1>11, <2>1, HashReadDoes
  <2>3. hashBi # hashIndex
    BY <1>11, <2>1, <2>2, HashPushed, NotThatBlock
  <2> QED BY <1>1, <1>3, <2>2, <2>3
<1> QED BY HashQuiet, <1>4, <1>5, <1>6, <1>7, <1>8, <1>9, <1>10, <1>11



-----------------------------------------------------------------------------
(* The block the bt thread fills *)

LEMMA FillIs ==
  ASSUME IInv
  PROVE  /\ d.at \in Nat /\ d.n \in Nat /\ d.avail \in Nat /\ d.words \in Nat /\ d.words <= BtBlock
         /\ BtBlock \in Nat /\ Limit \in Nat /\ Limit > 2
         /\ hashLeft \in Nat /\ hashAvail \in Nat /\ btPos \in Nat
         /\ Filling =>
              /\ d.avail = d.n + hashAvail /\ d.n <= d.words
              /\ d.n > 0 => d.at = BtNext - d.n
              /\ BtRuns /\ BtNext \in Int /\ BtFrom = BtNext - d.n
              /\ pc["bt"] # "end" => d.at = btPos - d.n /\ (d.n > 0 => BtNext = btPos)
              /\ d.words = 2 \/ d.n > 0 \/ pc["bt"] = "end"
              /\ pc["bt"] = "wait" => d.words < Limit
              /\ pc["bt"] = "end" => BtNext = size /\ hashAvail = 0 /\ streamEnd
<1>1. d.at \in Nat /\ d.n \in Nat /\ d.avail \in Nat /\ d.words \in Nat
  BY DEF IInv, TypeInv
<1>2. Filling => BtRuns
  BY DEF Filling, BtRuns
<1>3. Limit \in Nat /\ BtBlock \in Nat
  BY SizesAre
<1> QED BY <1>1, <1>2, <1>3, BtNextType, SizesAre DEF IInv, FillInv, BtFrom

LEMMA FillStep == IInv /\ Next => FillInv'
<1> SUFFICES ASSUME IInv, Next PROVE FillInv'
  OBVIOUS
<1> USE DEF SameDoc, SameRes, SameWindow, SameHash, SameBt, SamePtr, SameLz, SameData
<1>1. TypeInv /\ StreamInv /\ HashCount /\ BtCount
  BY HashFacts
<1>2. /\ d.at \in Nat /\ d.n \in Nat /\ d.avail \in Nat /\ d.words \in Nat /\ d.words <= BtBlock
      /\ BtBlock \in Nat /\ Limit \in Nat /\ Limit > 2
      /\ hashLeft \in Nat /\ hashAvail \in Nat /\ btPos \in Nat
      /\ Filling =>
           /\ d.avail = d.n + hashAvail /\ d.n <= d.words
           /\ d.n > 0 => d.at = BtNext - d.n
           /\ BtRuns /\ BtNext \in Int
           /\ pc["bt"] # "end" => d.at = btPos - d.n /\ (d.n > 0 => BtNext = btPos)
           /\ d.words = 2 \/ d.n > 0 \/ pc["bt"] = "end"
           /\ pc["bt"] = "wait" => d.words < Limit
           /\ pc["bt"] = "end" => BtNext = size /\ hashAvail = 0 /\ streamEnd
  BY FillIs
<1>3. ASSUME BtNext' = BtNext, hashAvail' = hashAvail, btPos' = btPos, Filling, d' = d,
             pc'["bt"] = pc["bt"], size' = size, streamEnd => streamEnd'
      PROVE  FillInv'
  BY <1>2, <1>3 DEF FillInv, BtFrom, Filling
<1>4. ASSUME ~Filling', d' = d PROVE FillInv'
  BY <1>2, <1>4 DEF FillInv
<1>5. CASE BtLock
  <2>1. /\ pc'["bt"] = "fill" /\ d'.at = btPos /\ d'.n = 0 /\ d'.avail = hashAvail /\ d'.words = 2
        /\ hashAvail' = hashAvail /\ btPos' = btPos
    BY <1>1, <1>5, BtLockDoes
  <2>2. 2 <= BtBlock /\ hashAvail = 0 + hashAvail /\ btPos = btPos - 0 /\ 0 <= 2
    BY <1>2, SizesAre
  <2> QED BY <2>1, <2>2 DEF FillInv
<1>6. CASE HashQuietStep /\ ~BtLock
  <2>1. CASE Filling'
    <3>1. d' = d /\ pc'["bt"] = pc["bt"] /\ size' = size /\ streamEnd' = streamEnd
      BY <1>6, <2>1 DEF HashQuietStep
    <3>2. Filling /\ BtRuns'
      BY <2>1, <3>1 DEF Filling, BtRuns
    <3> QED BY <1>3, <1>6, <3>1, <3>2, BtNextKept
  <2>2. CASE ~Filling'
    BY <1>4, <1>6, <2>2 DEF HashQuietStep
  <2> QED BY <2>1, <2>2
<1>7. CASE EncodeAlone
  <2>1. pc'["bt"] = "none" /\ d' = d
    BY <1>1, <1>7, HashFacts, EncodeAloneDoes DEF CtrlInv, LzInv
  <2> QED BY <1>4, <2>1 DEF Filling
<1>8. CASE BtStart
  <2>1. pc'["bt"] \in {"gone", "free"} /\ d' = d
    BY <1>8, BtStartsFresh
  <2> QED BY <1>4, <2>1 DEF Filling
<1>9. CASE BtAsk
  <2>1. pc["bt"] = "fill" /\ pc'["bt"] = "wait" /\ d' = d /\ size' = size /\ streamEnd' = streamEnd
        /\ d.words < Limit
    BY <1>1, <1>9, BtAskDoes
  <2>2. BtNext' = BtNext /\ hashAvail' = hashAvail /\ btPos' = btPos /\ Filling
    BY <1>9, <2>1, BtNextKept DEF Filling, BtRuns
  <2> QED BY <1>2, <2>1, <2>2 DEF FillInv, BtFrom, Filling
<1>10. CASE BtTake
  <2>1. /\ pc["bt"] = "wait" /\ SameDoc /\ SameWindow /\ SamePtr /\ d'.at = d.at
        /\ d'.avail = d.n + hashBuf[hashBi].avail
        /\ \/ /\ hashBuf[hashBi].avail >= NumHash /\ pc'["bt"] = "fill"
              /\ hashAvail' = hashBuf[hashBi].avail /\ d'.n = d.n /\ d'.words = d.words
           \/ /\ hashBuf[hashBi].avail < NumHash /\ pc'["bt"] = "end" /\ hashAvail' = 0
              /\ d'.n = d.n + hashBuf[hashBi].avail /\ d'.words = d.words + hashBuf[hashBi].avail
    BY <1>1, <1>10, BtTakeDoes
  <2>2. Filling /\ d.words < Limit
    BY <1>2, <2>1 DEF Filling
  <2>3. CASE /\ hashBuf[hashBi].avail >= NumHash /\ pc'["bt"] = "fill"
             /\ hashAvail' = hashBuf[hashBi].avail /\ d'.n = d.n /\ d'.words = d.words
    <3>1. BtNext' = BtNext
      BY <1>10, <2>3, BtTakeIs
    <3> QED BY <1>2, <2>1, <2>2, <2>3, <3>1 DEF FillInv, BtFrom, Filling
  <2>4. CASE /\ hashBuf[hashBi].avail < NumHash /\ pc'["bt"] = "end" /\ hashAvail' = 0
             /\ d'.n = d.n + hashBuf[hashBi].avail /\ d'.words = d.words + hashBuf[hashBi].avail
    <3> DEFINE a == hashBuf[hashBi].avail
    <3>1. /\ BtNext' = BtNext + a /\ BtNext' = size /\ streamEnd /\ a \in Nat /\ BtNext \in Nat
          /\ a = 0 \/ BtNext = btPos
      BY <1>10, <2>4, BtTakeIs
    <3>2. a < NumHash /\ d'.n = d.n + a /\ d'.words = d.words + a /\ d'.avail = d.n + a
      BY <2>1, <2>4
    <3> HIDE DEF a
    <3>3. d.words + a <= BtBlock
      <4>1. NumHash \in Nat /\ MatchMax \in Nat /\ NumHash <= MatchMax /\ Limit = BtBlock - 2 * MatchMax
        BY SizesAre
      <4> QED BY <1>2, <2>2, <3>1, <3>2, <4>1
    <3>4. /\ d.n + a = d.n + a + 0 /\ d.n + a <= d.words + a
          /\ d.n + a > 0 => d.at = (BtNext + a) - (d.n + a)
      BY <1>2, <2>1, <2>2, <3>1
    <3> QED BY <2>1, <2>4, <3>1, <3>2, <3>3, <3>4 DEF FillInv, BtFrom, Filling
  <2> QED BY <2>1, <2>3, <2>4
<1>11. CASE BtMatch
  <2>1. BtRuns /\ Filling /\ pc["bt"] = "fill" /\ hashLeft > 0
    BY <1>11 DEF BtMatch, BtRuns, Filling
  <2>2. hashLeft <= hashAvail /\ BtNext = btPos
    BY <1>1, <1>2, <2>1 DEF IInv, BtPlace
  <2>3. /\ SameDoc /\ SameWindow /\ SameHash /\ hashBi' = hashBi /\ sync' = sync /\ pc' = pc
        /\ \E k \in 1 .. hashLeft, w \in Nat :
             /\ k <= w /\ d.words + w <= BtBlock
             /\ d'.at = d.at /\ d'.avail = d.avail /\ d'.n = d.n + k /\ d'.words = d.words + w
             /\ hashLeft' = hashLeft - k /\ hashAvail' = hashAvail - k /\ btPos' = btPos + k
    BY <1>1, <1>11, <2>2, BtMatchDoes
  <2>4. PICK k \in 1 .. hashLeft, w \in Nat :
             /\ k <= w /\ d.words + w <= BtBlock
             /\ d'.at = d.at /\ d'.avail = d.avail /\ d'.n = d.n + k /\ d'.words = d.words + w
             /\ hashLeft' = hashLeft - k /\ hashAvail' = hashAvail - k /\ btPos' = btPos + k
    BY <2>3
  <2>5. BtNext = HashAt(HashHeld) - hashLeft /\ HashAt(HashHeld) \in Nat
    BY <2>1, BtNextType DEF BtNext
  <2>6. BtNext' = HashAt(HashHeld) - hashLeft'
    BY <2>3 DEF BtNext, HashAt, HashItem, HashReady, HashHeld, HashAsked
  <2>7. HashAt(HashHeld) - (hashLeft - k) = btPos + k
    BY <1>2, <2>2, <2>4, <2>5
  <2>8. /\ d.avail = (d.n + k) + (hashAvail - k) /\ d.n + k <= d.words + w
        /\ d.at = (btPos + k) - (d.n + k) /\ d.n + k > 0
    BY <1>2, <2>1, <2>2, <2>4
  <2>9. BtNext' = btPos'
    BY <2>4, <2>6, <2>7
  <2> QED BY <2>1, <2>3, <2>4, <2>6, <2>7, <2>8, <2>9 DEF FillInv, BtFrom, Filling
<1>12. CASE HashFree
  <2>1. pc'["bt"] = pc["bt"] /\ d' = d /\ size' = size /\ streamEnd' = streamEnd
    BY <1>1, <1>12, HashFreeDoes
  <2>2. CASE Filling'
    <3>1. Filling /\ BtRuns'
      BY <2>1, <2>2 DEF Filling, BtRuns
    <3> QED BY <1>3, <1>12, <2>1, <3>1, BtNextKept
  <2> QED BY <1>4, <2>1, <2>2
<1>13. CASE HashRead
  <2>1. nthread = 2 /\ HashAsked
    BY <1>13, HashFacts DEF HashRead
  <2>2. pc'["bt"] = pc["bt"] /\ d' = d /\ size' = size /\ (streamEnd => streamEnd')
    BY <1>1, <1>13, <2>1, HashReadDoes
  <2>3. CASE Filling'
    <3>1. Filling /\ BtRuns'
      BY <2>2, <2>3 DEF Filling, BtRuns
    <3> QED BY <1>3, <1>13, <2>2, <3>1, BtNextKept
  <2> QED BY <1>4, <2>2, <2>3
<1> QED BY HashQuiet, <1>5, <1>6, <1>7, <1>8, <1>9, <1>10, <1>11, <1>12, <1>13



-----------------------------------------------------------------------------
(* The ring of blocks of matches *)

LEMMA BtFacts ==
  ASSUME IInv
  PROVE  /\ pc["lz"] \in {"header", "alone", "create"} => ~BtAsked
         /\ pc["lz"] \in {"wait", "encode"} => BtAsked
         /\ pc["lz"] = "ask" /\ ~BtAsked => BtFresh /\ HashFresh
         /\ LzRuns => /\ BtAsked /\ pc["lz"] \in {"ask", "wait", "encode"} /\ nthread = 2
                      /\ BtRuns \/ (pc["bt"] = "start" /\ pc["lz"] = "wait" /\ HashFresh
                                    /\ sync["bt"].filled = 0 /\ lzPos = 0)
<1>1. TypeInv /\ LzInv /\ BtInv
  BY DEF IInv, CtrlInv
<1>2. /\ pc["lz"] \in {"header", "alone", "create"} => ~BtAsked
      /\ pc["lz"] \in {"wait", "encode"} => BtAsked
      /\ pc["lz"] = "ask" /\ ~BtAsked => BtFresh /\ HashFresh
  BY <1>1, FreshIs DEF LzInv, BtInv, BtAsked
<1>3. ASSUME LzRuns
      PROVE  /\ BtAsked /\ pc["lz"] \in {"ask", "wait", "encode"} /\ nthread = 2
             /\ BtRuns \/ (pc["bt"] = "start" /\ pc["lz"] = "wait" /\ HashFresh
                           /\ sync["bt"].filled = 0 /\ lzPos = 0)
  <2>1. BtAsked /\ pc["lz"] \in {"ask", "wait", "encode"}
    BY <1>2, <1>3 DEF LzRuns
  <2>2. nthread = 2 /\ pc["bt"] \notin {"none", "gone"}
    BY <1>1, <2>1 DEF LzInv
  <2>3. pc["bt"] \notin {"stop", "stopping", "stopped"}
    BY <1>1, <2>1 DEF BtInv
  <2>4. pc["bt"] = "start" => sync["bt"].canStart
    BY <1>1, <2>1 DEF BtInv
  <2>5. BtRuns \/ pc["bt"] = "start"
    BY <1>1, <2>2, <2>3 DEF TypeInv, BtLabels, BtRuns
  <2> QED BY <1>1, <2>1, <2>2, <2>4, <2>5 DEF BtInv
<1> QED BY <1>2, <1>3

\* A step that leaves the blocks of matches alone
BtQuietStep ==
  LzRuns' =>
    /\ LzRuns /\ btBuf' = btBuf /\ BtHead' = BtHead /\ BtReady' = BtReady /\ lzPos' = lzPos
    /\ size' = size /\ streamPos' \in Nat /\ streamPos <= streamPos'
    /\ streamEnd => streamEnd' /\ streamPos' = streamPos

LEMMA BtQuiet ==
  ASSUME IInv, Next
  PROVE  BtQuietStep \/ (Ask /\ ~BtAsked) \/ Encode \/ BtLock \/ BtEnd
<1> USE DEF SameDoc, SameRes, SameWindow, SameHash, SameBt, SamePtr, SameLz, SameData, SameFlags
<1>1. /\ TypeInv /\ CtrlInv /\ StreamInv /\ HashCount /\ BtCount /\ streamPos \in Nat
      /\ pc["lz"] \in {"header", "alone", "create"} => ~BtAsked
      /\ pc["bt"] = "fill" => hashLeft <= hashAvail
  BY HashFacts, BtFacts DEF IInv, TypeInv, BtPlace, BtRuns
<1>2. CASE Header
  BY <1>1, <1>2, HeaderDoes, TwoSyncs DEF BtQuietStep, BtReady, BtHead, BtAsked, LzRuns
<1>3. CASE EncodeAlone
  BY <1>1, <1>3, EncodeAloneDoes, TwoSyncs DEF BtQuietStep, BtReady, BtHead, BtAsked, LzRuns
<1>4. CASE Create
  BY <1>1, <1>4, CreateDoes, TwoSyncs DEF BtQuietStep, BtReady, BtHead, BtAsked, LzRuns
<1>5. CASE Ask /\ BtAsked
  <2>1. /\ SameDoc /\ SameData /\ lzPos' = lzPos /\ pc["lz"] = "ask" /\ pc'["lz"] = "wait"
        /\ btBi' = Place(btBi, 1, BtBlocks) /\ sync'["bt"].filled = sync["bt"].filled
    BY <1>1, <1>5, AskDoes
  <2> QED BY <1>1, <1>5, <2>1 DEF BtQuietStep, BtReady, BtHead, BtAsked, LzRuns
<1>6. CASE Take
  <2>1. /\ SameDoc /\ SameData /\ SameLz /\ pc["lz"] = "wait" /\ pc'["lz"] = "encode"
        /\ sync["bt"].filled > 0 /\ sync'["bt"].filled = sync["bt"].filled - 1
    BY <1>1, <1>6, TakeDoes
  <2> QED BY <1>1, <2>1, BtTypes DEF BtQuietStep, BtReady, BtHead, BtAsked, LzRuns
<1>7. CASE Flush
  BY <1>1, <1>7, FlushDoes, TwoSyncs DEF BtQuietStep, BtReady, BtHead, BtAsked, LzRuns
<1>8. CASE Stop
  BY <1>1, <1>8, StopDoes, TwoSyncs DEF BtQuietStep, BtReady, BtHead, BtAsked, LzRuns
<1>9. CASE StopEnds
  BY <1>1, <1>9, StopEndsDoes, TwoSyncs DEF BtQuietStep, BtReady, BtHead, BtAsked, LzRuns
<1>10. CASE Footer
  BY <1>1, <1>10, FooterDoes, TwoSyncs DEF BtQuietStep, BtReady, BtHead, BtAsked, LzRuns
<1>11. CASE Exit
  BY <1>1, <1>11, ExitDoes, TwoSyncs DEF BtQuietStep, BtReady, BtHead, BtAsked, LzRuns
<1>12. CASE Join
  BY <1>1, <1>12, JoinDoes, TwoSyncs DEF BtQuietStep, BtReady, BtHead, BtAsked, LzRuns
<1>13. CASE BtStart
  BY <1>1, <1>13, BtStartDoes, TwoSyncs DEF BtQuietStep, BtReady, BtHead, BtAsked, LzRuns
<1>14. CASE BtFree
  BY <1>1, <1>14, BtFreeDoes, TwoSyncs DEF BtQuietStep, BtReady, BtHead, BtAsked, LzRuns
<1>15. CASE BtAsk
  BY <1>1, <1>15, BtAskDoes, TwoSyncs DEF BtQuietStep, BtReady, BtHead, BtAsked, LzRuns
<1>16. CASE BtTake
  BY <1>1, <1>16, BtTakeDoes, TwoSyncs DEF BtQuietStep, BtReady, BtHead, BtAsked, LzRuns
<1>17. CASE BtMatch
  <2>1. SameDoc /\ SameWindow /\ btBuf' = btBuf /\ SameLz /\ pc' = pc /\ sync' = sync
    BY <1>17 DEF BtMatch, docVars, windowVars, lzVars
  <2> QED BY <1>1, <2>1 DEF BtQuietStep, BtReady, BtHead, BtAsked, LzRuns
<1>18. CASE BtStop
  BY <1>1, <1>18, BtStopDoes, TwoSyncs DEF BtQuietStep, BtReady, BtHead, BtAsked, LzRuns
<1>19. CASE BtStopEnds
  BY <1>1, <1>19, BtStopEndsDoes, TwoSyncs DEF BtQuietStep, BtReady, BtHead, BtAsked, LzRuns
<1>20. CASE BtStopped
  BY <1>1, <1>20, BtStoppedDoes, TwoSyncs DEF BtQuietStep, BtReady, BtHead, BtAsked, LzRuns
<1>21. CASE HashStart
  BY <1>1, <1>21, HashStartDoes, TwoSyncs DEF BtQuietStep, BtReady, BtHead, BtAsked, LzRuns
<1>22. CASE HashEnter
  BY <1>1, <1>22, HashEnterDoes, TwoSyncs DEF BtQuietStep, BtReady, BtHead, BtAsked, LzRuns
<1>23. CASE HashMove
  BY <1>1, <1>23, HashMoveDoes, TwoSyncs DEF BtQuietStep, BtReady, BtHead, BtAsked, LzRuns
<1>24. CASE HashFree
  BY <1>1, <1>24, HashFreeDoes, TwoSyncs DEF BtQuietStep, BtReady, BtHead, BtAsked, LzRuns
<1>25. CASE HashRead
  <2>1. nthread = 2
    BY <1>25, HashFacts DEF HashRead
  <2>2. /\ SameDoc /\ btBuf' = btBuf /\ btBi' = btBi /\ lzPos' = lzPos /\ pc'["lz"] = pc["lz"]
        /\ sync'["bt"] = sync["bt"] /\ streamPos' \in Nat /\ streamPos <= streamPos'
        /\ streamEnd => streamEnd' /\ streamPos' = streamPos
    BY <1>1, <1>25, <2>1, HashReadDoes DEF TypeInv
  <2> QED BY <2>2 DEF BtQuietStep, BtReady, BtHead, BtAsked, LzRuns
<1>26. CASE HashStopped
  BY <1>1, <1>26, HashStoppedDoes, TwoSyncs DEF BtQuietStep, BtReady, BtHead, BtAsked, LzRuns
<1>27. CASE UNCHANGED vars
  BY <1>1, <1>27 DEF BtQuietStep, BtReady, BtHead, BtAsked, LzRuns, vars, docVars, windowVars, hashVars, btVars, ptrVars, lzVars
<1> QED BY NextSplit, <1>2, <1>3, <1>4, <1>5, <1>6, <1>7, <1>8, <1>9, <1>10, <1>11, <1>12, <1>13, <1>14, <1>15, <1>16, <1>17, <1>18, <1>19, <1>20, <1>21, <1>22, <1>23, <1>24, <1>25, <1>26, <1>27


LEMMA TypeStep == IInv /\ Next => TypeInv'
<1> SUFFICES ASSUME IInv, Next PROVE TypeInv'
  OBVIOUS
<1>1. TypeInv /\ StreamInv /\ HashCount /\ BtCount /\ (pc["bt"] = "fill" => hashLeft <= hashAvail)
  BY DEF IInv, BtPlace, BtRuns
<1>2. CASE Header
  BY <1>1, <1>2, HeaderDoes
<1>3. CASE EncodeAlone
  BY <1>1, <1>3, EncodeAloneDoes
<1>4. CASE Create
  BY <1>1, <1>4, CreateDoes
<1>5. CASE Ask
  BY <1>1, <1>5, AskDoes
<1>6. CASE Take
  BY <1>1, <1>6, TakeDoes
<1>7. CASE Encode
  BY <1>1, <1>7, EncodeDoes
<1>8. CASE Flush
  BY <1>1, <1>8, FlushDoes
<1>9. CASE Stop
  BY <1>1, <1>9, StopDoes
<1>10. CASE StopEnds
  BY <1>1, <1>10, StopEndsDoes
<1>11. CASE Footer
  BY <1>1, <1>11, FooterDoes
<1>12. CASE Exit
  BY <1>1, <1>12, ExitDoes
<1>13. CASE Join
  BY <1>1, <1>13, JoinDoes
<1>14. CASE BtStart
  BY <1>1, <1>14, BtStartDoes
<1>15. CASE BtFree
  BY <1>1, <1>15, BtFreeDoes
<1>16. CASE BtLock
  BY <1>1, <1>16, BtLockDoes
<1>17. CASE BtAsk
  BY <1>1, <1>17, BtAskDoes
<1>18. CASE BtTake
  BY <1>1, <1>18, BtTakeDoes
<1>19. CASE BtMatch
  <2>1. hashLeft <= hashAvail
    BY <1>1, <1>19 DEF BtMatch
  <2> QED BY <1>1, <1>19, <2>1, BtMatchDoes
<1>20. CASE BtEnd
  BY <1>1, <1>20, BtEndDoes
<1>21. CASE BtStop
  BY <1>1, <1>21, BtStopDoes
<1>22. CASE BtStopEnds
  BY <1>1, <1>22, BtStopEndsDoes
<1>23. CASE BtStopped
  BY <1>1, <1>23, BtStoppedDoes
<1>24. CASE HashStart
  BY <1>1, <1>24, HashStartDoes
<1>25. CASE HashEnter
  BY <1>1, <1>25, HashEnterDoes
<1>26. CASE HashMove
  BY <1>1, <1>26, HashMoveDoes
<1>27. CASE HashFree
  BY <1>1, <1>27, HashFreeDoes
<1>28. CASE HashRead
  <2>1. nthread = 2
    BY <1>28, HashFacts DEF HashRead
  <2> QED BY <1>1, <1>28, <2>1, HashReadDoes
<1>29. CASE HashStopped
  BY <1>1, <1>29, HashStoppedDoes
<1>30. CASE UNCHANGED vars
  BY <1>1, <1>30 DEF TypeInv, SyncType, vars, docVars, windowVars, hashVars, btVars, ptrVars, lzVars
<1> QED BY NextSplit, <1>2, <1>3, <1>4, <1>5, <1>6, <1>7, <1>8, <1>9, <1>10, <1>11, <1>12, <1>13, <1>14, <1>15, <1>16, <1>17, <1>18, <1>19, <1>20, <1>21, <1>22, <1>23, <1>24, <1>25, <1>26, <1>27, <1>28, <1>29, <1>30


\* Where the last of the blocks ends is moved by the bt thread alone, when it ends one more.
LEMMA FromFresh ==
  /\ HashFresh /\ pc["bt"] = "start" => BtFrom = 0
  /\ HashFresh' /\ pc'["bt"] = "start" => BtFrom' = 0
<1>1. HashFresh => HashReady = 0 /\ HashHeld = 0 /\ pos = 0 /\ hashLeft = 0
  BY FreshIs DEF HashReady, HashHeld, HashAsked, HashFresh
<1>2. HashFresh' => HashReady' = 0 /\ HashHeld' = 0 /\ pos' = 0 /\ hashLeft' = 0
  BY DEF HashReady, HashHeld, HashAsked, HashFresh, Fresh
<1> QED BY <1>1, <1>2 DEF BtFrom, BtNext, HashAt, Filling

LEMMA FromKept ==
  ASSUME IInv, Next, LzRuns, LzRuns', ~BtEnd
  PROVE  BtFrom' = BtFrom
<1> USE DEF SameDoc, SameRes, SameWindow, SameHash, SameBt, SamePtr, SameLz, SameData
<1>1. /\ TypeInv /\ StreamInv /\ HashCount /\ BtCount /\ d.n \in Nat /\ hashLeft \in Nat /\ nthread = 2
  BY HashFacts, BtFacts DEF TypeInv
<1>2. BtRuns \/ (pc["bt"] = "start" /\ HashFresh)
  BY BtFacts
<1>3. BtRuns' \/ (pc'["bt"] = "start" /\ HashFresh')
  <2>1. LzInv' /\ BtInv' /\ TypeInv'
    BY CtrlStep, TypeStep DEF CtrlInv
  <2>2. pc'["lz"] \in {"ask", "wait", "encode"} /\ (pc'["lz"] = "ask" => BtAsked')
    BY DEF LzRuns
  <2>3. pc'["bt"] \notin {"none", "gone"}
    BY <2>1, <2>2 DEF LzInv
  <2>4. pc'["bt"] \notin {"stop", "stopping", "stopped"}
    BY <2>1, <2>2 DEF BtInv
  <2>5. BtAsked' /\ (pc'["bt"] = "start" => sync'["bt"].canStart)
    BY <2>1, <2>2 DEF BtInv
  <2>6. pc'["bt"] = "start" => HashFresh'
    BY <2>1, <2>2, <2>5 DEF BtInv
  <2>7. BtRuns' \/ pc'["bt"] = "start"
    BY <2>1, <2>3, <2>4 DEF TypeInv, BtLabels, BtRuns
  <2> QED BY <2>6, <2>7
<1>4. CASE HashQuietStep
  <2>1. CASE BtRuns'
    <3>1. BtNext' = BtNext
      BY <1>4, <2>1, BtNextKept
    <3>2. CASE BtLock
      <4>1. pc["bt"] = "lock" /\ d'.n = 0
        BY <1>1, <3>2, BtLockDoes
      <4>2. BtNext \in Int
        BY <4>1, BtNextType DEF BtRuns
      <4> QED BY <3>1, <4>1, <4>2 DEF BtFrom, Filling
    <3>3. CASE ~BtLock
      <4>1. d' = d /\ (Filling' => pc'["bt"] = pc["bt"]) /\ (pc'["bt"] = "wait" => pc["bt"] = "wait")
        BY <1>4, <2>1, <3>3 DEF HashQuietStep
      <4>2. Filling => Filling'
        BY <1>4, <2>1 DEF HashQuietStep
      <4> QED BY <3>1, <4>1, <4>2 DEF BtFrom, Filling
    <3> QED BY <3>2, <3>3
  <2>2. CASE ~BtRuns'
    <3>1. pc'["bt"] = "start" /\ ~BtRuns
      BY <1>3, <1>4, <2>2 DEF HashQuietStep
    <3> QED BY <1>2, <1>3, <2>2, <3>1, FromFresh
  <2> QED BY <2>1, <2>2
<1>5. CASE EncodeAlone
  BY <1>1, <1>5, EncodeAloneDoes DEF LzRuns
<1>6. CASE BtStart
  <2>1. /\ SameData /\ pc["bt"] = "start" /\ HashFresh /\ HashReady' = 0 /\ HashHeld' = 0 /\ pc'["bt"] = "free"
    BY <1>3, <1>6, BtStartsFresh DEF BtRuns
  <2>2. pos = 0 /\ hashLeft = 0 /\ BtFrom = 0
    BY <2>1, FromFresh DEF HashFresh
  <2>3. BtFrom' = 0
    BY <2>1, <2>2 DEF BtFrom, BtNext, HashAt, Filling
  <2> QED BY <2>2, <2>3
<1>7. CASE BtAsk
  <2>1. pc["bt"] = "fill" /\ pc'["bt"] = "wait" /\ d' = d
    BY <1>1, <1>7, BtAskDoes
  <2>2. BtNext' = BtNext
    BY <1>7, <2>1, BtNextKept DEF BtRuns
  <2> QED BY <2>1, <2>2 DEF BtFrom, Filling
<1>8. CASE BtTake
  <2>1. /\ pc["bt"] = "wait" /\ pc'["bt"] \in {"fill", "end"}
        /\ \/ hashBuf[hashBi].avail >= NumHash /\ d'.n = d.n
           \/ hashBuf[hashBi].avail < NumHash /\ d'.n = d.n + hashBuf[hashBi].avail
    BY <1>1, <1>8, BtTakeDoes
  <2>2. BtFrom = BtNext - d.n /\ BtFrom' = BtNext' - d'.n
    BY <2>1 DEF BtFrom, Filling
  <2>3. CASE hashBuf[hashBi].avail >= NumHash /\ d'.n = d.n
    BY <1>8, <2>2, <2>3, BtTakeIs
  <2>4. CASE hashBuf[hashBi].avail < NumHash /\ d'.n = d.n + hashBuf[hashBi].avail
    <3>1. BtNext' = BtNext + hashBuf[hashBi].avail /\ BtNext \in Nat /\ hashBuf[hashBi].avail \in Nat
      BY <1>8, <2>4, BtTakeIs
    <3>2. (BtNext + hashBuf[hashBi].avail) - (d.n + hashBuf[hashBi].avail) = BtNext - d.n
      BY <1>1, <3>1
    <3> QED BY <2>2, <2>4, <3>1, <3>2
  <2> QED BY <2>1, <2>3, <2>4
<1>9. CASE BtMatch
  <2>1. BtRuns /\ pc["bt"] = "fill" /\ hashLeft > 0
    BY <1>9 DEF BtMatch, BtRuns
  <2>2. hashLeft <= hashAvail
    BY <2>1 DEF IInv, BtPlace
  <2>3. /\ SameHash /\ hashBi' = hashBi /\ sync' = sync /\ pc' = pc
        /\ \E k \in 1 .. hashLeft : d'.n = d.n + k /\ hashLeft' = hashLeft - k
    BY <1>1, <1>9, <2>2, BtMatchDoes
  <2>4. PICK k \in 1 .. hashLeft : d'.n = d.n + k /\ hashLeft' = hashLeft - k
    BY <2>3
  <2>5. BtFrom = (HashAt(HashHeld) - hashLeft) - d.n /\ HashAt(HashHeld) \in Nat
    BY <2>1, BtNextType DEF BtNext, BtFrom, Filling
  <2>6. BtFrom' = (HashAt(HashHeld) - hashLeft') - d'.n
    BY <2>1, <2>3 DEF BtFrom, Filling, BtNext, HashAt, HashItem, HashReady, HashHeld, HashAsked
  <2>7. (HashAt(HashHeld) - (hashLeft - k)) - (d.n + k) = (HashAt(HashHeld) - hashLeft) - d.n
    BY <1>1, <2>4, <2>5
  <2> QED BY <2>4, <2>5, <2>6, <2>7
<1>10. CASE HashFree \/ HashRead
  <2>1. pc'["bt"] = pc["bt"] /\ d' = d
    BY <1>1, <1>10, HashFreeDoes, HashReadDoes
  <2>2. CASE BtRuns'
    BY <1>10, <2>1, <2>2, BtNextKept DEF BtFrom, Filling
  <2>3. CASE ~BtRuns'
    BY <1>2, <1>3, <2>1, <2>3, FromFresh DEF BtRuns
  <2> QED BY <2>2, <2>3
<1> QED BY HashQuiet, <1>4, <1>5, <1>6, <1>7, <1>8, <1>9, <1>10


LEMMA BtIndices ==
  ASSUME TypeInv, BtCount, LzRuns, BtAsked
  PROVE  /\ BtReady \in 0 .. BtBlocks /\ BtHead \in 0 .. BtBlocks - 1 /\ BtBlocks \in Nat \ {0}
         /\ BtFilling = 1 => BtReady < BtBlocks
         /\ btIndex = Place(BtHead, BtReady, BtBlocks)
         /\ \A j \in 0 .. BtBlocks : Place(BtHead, j, BtBlocks) \in 0 .. BtBlocks - 1
         /\ \A j, m \in 0 .. BtBlocks - 1 :
              Place(BtHead, j, BtBlocks) = Place(BtHead, m, BtBlocks) => j = m
         /\ \A j \in 0 .. BtBlocks - 1 :
              Place(Place(BtHead, 1, BtBlocks), j, BtBlocks) = Place(BtHead, j + 1, BtBlocks)
         /\ \A j \in 0 .. BtReady - 1 : BtItem(j) \in BlockType
<1>1. BtReady <= BtHeld + sync["bt"].filled
  BY BtTypes DEF BtReady, BtHeld
<1>2. sync["bt"].free + sync["bt"].filled + BtHeld + BtFilling <= BtBlocks
  BY DEF BtCount, LzRuns
<1>3. BtReady \in 0 .. BtBlocks /\ (BtFilling = 1 => BtReady < BtBlocks)
  BY <1>1, <1>2, BtTypes, RingsAre
<1>4. BtHead \in 0 .. BtBlocks - 1
  BY BtTypes
<1>5. \A j \in 0 .. BtBlocks : Place(BtHead, j, BtBlocks) \in 0 .. BtBlocks - 1
  BY <1>4, RingsAre, PlaceIs
<1>6. /\ \A j, m \in 0 .. BtBlocks - 1 :
           Place(BtHead, j, BtBlocks) = Place(BtHead, m, BtBlocks) => j = m
      /\ \A j \in 0 .. BtBlocks - 1 :
           Place(Place(BtHead, 1, BtBlocks), j, BtBlocks) = Place(BtHead, j + 1, BtBlocks)
  BY <1>4, RingsAre, PlaceIs
<1>7. btIndex = Place(BtHead, BtReady, BtBlocks)
  BY DEF BtCount
<1>8. ASSUME NEW j \in 0 .. BtReady - 1 PROVE BtItem(j) \in BlockType
  <2>1. j \in 0 .. BtBlocks
    BY <1>3, RingsAre
  <2>2. Place(BtHead, j, BtBlocks) \in 0 .. BtBlocks - 1
    BY <1>5, <2>1
  <2> QED BY <2>2 DEF BtItem, TypeInv
<1> QED BY <1>3, <1>4, <1>5, <1>6, <1>7, <1>8, RingsAre

\* What the ring says of the blocks, where they are
LEMMA RingSays ==
  ASSUME IInv, LzRuns
  PROVE  /\ TypeInv /\ BtCount /\ BtAsked /\ BtReady \in 0 .. BtBlocks /\ BtBlock \in Nat
         /\ lzPos \in Nat /\ streamPos \in Nat /\ size \in Nat
         /\ Goes(BtReady) => Due(BtReady) = BtFrom
         /\ ~streamEnd => BtFrom - lzPos <= BtReady * BtBlock
         /\ \A j \in 0 .. BtReady - 1 :
              /\ BtLink(j) /\ BtItem(j).at \in Nat /\ BtItem(j).n \in Nat /\ BtItem(j).avail \in Nat
<1>1. TypeInv /\ BtCount /\ BtAsked /\ BtReady \in 0 .. BtBlocks /\ BtBlock \in Nat
  BY HashFacts, BtFacts, BtIndices, SizesAre
<1>2. ASSUME NEW j \in 0 .. BtReady - 1
      PROVE  BtLink(j) /\ BtItem(j).at \in Nat /\ BtItem(j).n \in Nat /\ BtItem(j).avail \in Nat
  <2>1. BtLink(j)
    BY DEF IInv, BtRing
  <2>2. BtItem(j) \in BlockType
    BY <1>1, BtIndices
  <2> QED BY <2>1, <2>2 DEF BtLink, BlockType
<1>3. lzPos \in Nat /\ streamPos \in Nat /\ size \in Nat
  BY <1>1, SizesAre DEF TypeInv
<1> QED BY <1>1, <1>2, <1>3 DEF IInv, BtRing

\* The ring holds while its blocks are the same and the last ends where it did.
LEMMA BtRingKept ==
  ASSUME IInv, LzRuns, BtFrom' = BtFrom, BtReady' = BtReady, lzPos' = lzPos, size' = size,
         streamPos' \in Nat, streamPos <= streamPos', streamEnd => streamEnd' /\ streamPos' = streamPos,
         \A j \in 0 .. BtReady - 1 : BtItem(j)' = BtItem(j)
  PROVE  BtRing'
<1>1. BtReady \in Nat
  BY RingSays, RingsAre
<1>2. ASSUME NEW j \in 0 .. BtReady PROVE Due(j)' = Due(j) /\ (Goes(j)' <=> Goes(j))
  <2>1. CASE j = 0
    BY <2>1 DEF Due, Goes
  <2>2. CASE j # 0
    <3>1. j - 1 \in 0 .. BtReady - 1
      BY <1>1, <2>2
    <3> QED BY <2>2, <3>1 DEF Due, Goes
  <2> QED BY <2>1, <2>2
<1>3. Goes(BtReady)' => Due(BtReady)' = BtFrom'
  <2>1. BtReady \in 0 .. BtReady
    BY <1>1
  <2>2. \A j \in 0 .. BtReady : j = BtReady' => (Goes(BtReady)' <=> Goes(j)') /\ Due(BtReady)' = Due(j)'
    BY DEF Goes, Due, BtItem
  <2>3. \A j \in 0 .. BtReady : j = BtReady => (Goes(BtReady) <=> Goes(j)) /\ Due(BtReady) = Due(j)
    BY DEF Goes, Due, BtItem
  <2> QED BY <1>2, <2>1, <2>2, <2>3, RingSays
<1>4. ~streamEnd' => BtFrom' - lzPos' <= BtReady' * BtBlock
  BY RingSays
<1>5. ASSUME NEW j \in 0 .. BtReady - 1 PROVE BtLink(j)'
  <2>1. BtLink(j) /\ BtItem(j)' = BtItem(j) /\ BtItem(j).at \in Nat /\ BtItem(j).avail \in Nat /\ streamPos \in Nat
    BY RingSays
  <2>2. Due(j)' = Due(j) /\ (Goes(j)' <=> Goes(j))
    BY <1>1, <1>2
  <2>3. \A q \in Nat : streamPos <= q /\ BtItem(j).at + BtItem(j).avail <= streamPos
          => BtItem(j).at + BtItem(j).avail <= q
    BY <2>1
  <2>4. Goes(j) => IF BtItem(j).avail = 0 THEN Due(j) = size
                   ELSE BtItem(j).at = Due(j) /\ BtItem(j).at + BtItem(j).avail <= streamPos'
    BY <2>1, <2>3 DEF BtLink
  <2> QED BY <2>1, <2>2, <2>4 DEF BtLink
<1> QED BY <1>3, <1>4, <1>5 DEF BtRing


\* A block that is encoded leaves the ring, and the next begins where it ends.
LEMMA BtRingEncode ==
  ASSUME IInv, Next, LzRuns', Encode
  PROVE  BtRing'
<1> USE DEF SameDoc, SameWindow, SameBt
<1>1. /\ pc["lz"] = "encode" /\ btBuf[btBi].avail > 0 /\ lzPos' = lzPos + btBuf[btBi].n
      /\ pc'["lz"] \in {"ask", "stop"} /\ sync' = sync /\ btBi' = btBi /\ SameWindow /\ btBuf' = btBuf
      /\ size' = size
  BY HashFacts, EncodeDoes
<1>2. LzRuns /\ pc'["lz"] = "ask" /\ BtAsked
  BY <1>1, BtFacts DEF LzRuns
<1>3. /\ TypeInv /\ BtCount /\ BtReady \in 0 .. BtBlocks /\ BtBlock \in Nat /\ lzPos \in Nat /\ streamPos \in Nat
      /\ BtBlocks \in Nat
      /\ Goes(BtReady) => Due(BtReady) = BtFrom
      /\ \A j \in 0 .. BtReady - 1 :
           /\ BtLink(j) /\ BtItem(j).at \in Nat /\ BtItem(j).n \in Nat /\ BtItem(j).avail \in Nat
  BY <1>2, RingSays, RingsAre
<1>4. BtHead = btBi /\ BtHead' = Place(btBi, 1, BtBlocks) /\ BtReady = 1 + sync["bt"].filled
      /\ BtReady' = sync["bt"].filled
  BY <1>1, <1>2, <1>3, BtTypes DEF BtHead, BtReady, BtAsked
<1>5. BtReady >= 1 /\ BtReady' = BtReady - 1 /\ 0 \in 0 .. BtReady - 1 /\ BtReady' \in Nat
  BY <1>3, <1>4, BtTypes
<1>6. BtItem(0) = btBuf[btBi]
  BY <1>3, <1>4, BtTypes, RingsAre, PlaceIs DEF BtItem
<1>7. BtItem(0).at = lzPos /\ BtItem(0).avail > 0 /\ lzPos' = BtItem(0).at + BtItem(0).n
  <2>1. Goes(0) /\ Due(0) = lzPos
    BY DEF Goes, Due
  <2> QED BY <1>1, <1>3, <1>5, <1>6, <2>1 DEF BtLink
<1>8. ASSUME NEW j \in 0 .. BtReady - 2 PROVE BtItem(j)' = BtItem(j + 1)
  <2>1. j \in 0 .. BtBlocks - 1
    BY <1>3
  <2>2. Place(Place(BtHead, 1, BtBlocks), j, BtBlocks) = Place(BtHead, j + 1, BtBlocks)
    BY <1>2, <1>3, <2>1, BtIndices
  <2> QED BY <1>1, <1>4, <2>2 DEF BtItem
<1>9. ASSUME NEW j \in 0 .. BtReady - 1 PROVE Due(j)' = Due(j + 1) /\ (Goes(j)' <=> Goes(j + 1))
  <2>1. CASE j = 0
    <3>1. Due(1) = BtItem(0).at + BtItem(0).n /\ Goes(1)
      BY <1>7 DEF Due, Goes
    <3> QED BY <1>7, <2>1, <3>1 DEF Due, Goes
  <2>2. CASE j # 0
    <3>1. j - 1 \in 0 .. BtReady - 2 /\ (j - 1) + 1 = j /\ (j + 1) - 1 = j /\ j + 1 # 0
      BY <1>3, <2>2
    <3>2. BtItem(j - 1)' = BtItem(j)
      BY <1>8, <3>1
    <3> QED BY <2>2, <3>1, <3>2 DEF Due, Goes
  <2> QED BY <2>1, <2>2
<1>10. BtFrom' = BtFrom
  <2>1. ~BtEnd
    BY <1>1, HashFacts, BtEndDoes
  <2> QED BY <1>2, <2>1, FromKept
<1>11. Goes(BtReady)' => Due(BtReady)' = BtFrom'
  <2>1. BtReady - 1 \in 0 .. BtReady - 1 /\ (BtReady - 1) + 1 = BtReady
    BY <1>3, <1>5
  <2>2. \A j \in Nat : j = BtReady' => (Goes(BtReady)' <=> Goes(j)') /\ Due(BtReady)' = Due(j)'
    BY DEF Goes, Due, BtItem
  <2>3. \A j \in Nat : j = BtReady => (Goes(BtReady) <=> Goes(j)) /\ Due(BtReady) = Due(j)
    BY DEF Goes, Due, BtItem
  <2>4. PICK j \in 0 .. BtReady - 1 : j = BtReady'
    BY <1>5, <2>1
  <2>5. j + 1 = BtReady /\ j \in Nat /\ j + 1 \in Nat
    BY <1>3, <1>5, <2>4
  <2> QED BY <1>3, <1>9, <1>10, <2>2, <2>3, <2>4, <2>5
<1>12. ~streamEnd' => BtFrom' - lzPos' <= BtReady' * BtBlock
  <2> SUFFICES ASSUME ~streamEnd PROVE BtFrom' - lzPos' <= BtReady' * BtBlock
    BY <1>1
  <2>1. Due(1) = lzPos' /\ Goes(1)
    BY <1>7 DEF Due, Goes
  <2>2. CASE BtReady = 1
    <3>1. BtFrom = lzPos'
      BY <1>3, <2>1, <2>2
    <3>2. lzPos' \in Nat /\ lzPos' - lzPos' <= 0 * BtBlock
      <4>1. \A q \in Nat : q - q <= 0 * BtBlock
        BY <1>3
      <4>2. lzPos' \in Nat
        BY <1>3, <1>5, <1>7
      <4> QED BY <4>1, <4>2
    <3>3. BtReady' = 0
      BY <1>5, <2>2
    <3> QED BY <1>10, <3>1, <3>2, <3>3
  <2>3. CASE BtReady # 1
    <3>1. 1 \in 0 .. BtReady - 1
      BY <1>3, <1>5, <2>3
    <3>2. BtItem(1).avail # 0 /\ BtItem(1).at = Due(1) /\ BtFrom - BtItem(1).at <= (BtReady - 1) * BtBlock
      BY <1>3, <2>1, <3>1 DEF BtLink
    <3> QED BY <1>5, <1>10, <2>1, <3>2
  <2> QED BY <2>2, <2>3
<1>13. ASSUME NEW j \in 0 .. BtReady' - 1 PROVE BtLink(j)'
  <2>1. j \in 0 .. BtReady - 2 /\ j \in 0 .. BtReady - 1 /\ j + 1 \in 0 .. BtReady - 1
        /\ BtReady' - j = BtReady - (j + 1)
    BY <1>3, <1>5
  <2>2. BtLink(j + 1) /\ BtItem(j)' = BtItem(j + 1) /\ Due(j)' = Due(j + 1) /\ (Goes(j)' <=> Goes(j + 1))
    BY <1>3, <1>8, <1>9, <2>1
  <2> QED BY <1>1, <1>10, <2>1, <2>2 DEF BtLink
<1> QED BY <1>11, <1>12, <1>13 DEF BtRing


\* A block that is filled joins the ring, and begins where the last one ends.
LEMMA BtRingEnd ==
  ASSUME IInv, Next, LzRuns', BtEnd
  PROVE  BtRing'
<1> USE DEF SameDoc, SameWindow, SameBt, SameLz, SameFlags
<1>1. /\ TypeInv /\ StreamInv /\ BtCount
      /\ SameDoc /\ SameWindow /\ SameHash /\ SameLz /\ SameFlags("bt")
      /\ hashLeft' = hashLeft /\ hashAvail' = hashAvail /\ hashBi' = hashBi /\ d' = d
      /\ pc["bt"] = "end" \/ (pc["bt"] = "fill" /\ d.words >= Limit)
      /\ pc'["bt"] = "free" /\ pc'["lz"] = pc["lz"] /\ sync'["hash"] = sync["hash"]
      /\ sync'["bt"].filled = sync["bt"].filled + 1
      /\ btBuf'[btIndex].at = d.at /\ btBuf'[btIndex].n = d.n /\ btBuf'[btIndex].avail = d.avail
      /\ \A i \in 0 .. BtBlocks - 1 : i # btIndex => btBuf'[i] = btBuf[i]
  BY HashFacts, BtEndDoes
<1>2. LzRuns /\ BtFilling = 1 /\ Filling /\ BtRuns'
  BY <1>1 DEF LzRuns, BtAsked, BtFilling, Filling, BtRuns
<1>3. /\ BtReady \in 0 .. BtBlocks - 1 /\ BtBlock \in Nat /\ lzPos \in Nat /\ streamPos \in Nat /\ BtBlocks \in Nat
      /\ Goes(BtReady) => Due(BtReady) = BtFrom
      /\ ~streamEnd => BtFrom - lzPos <= BtReady * BtBlock
      /\ \A j \in 0 .. BtReady - 1 :
           /\ BtLink(j) /\ BtItem(j).at \in Nat /\ BtItem(j).n \in Nat /\ BtItem(j).avail \in Nat
  <2>1. BtReady < BtBlocks
    BY <1>1, <1>2, RingSays, BtIndices
  <2> QED BY <1>2, <2>1, RingSays, RingsAre
<1>4. BtReady' = BtReady + 1 /\ BtHead' = BtHead
  BY <1>1, BtTypes DEF BtReady, BtHead, BtAsked
<1>5. \A j \in 0 .. BtReady - 1 : BtItem(j)' = BtItem(j)
  <2> SUFFICES ASSUME NEW j \in 0 .. BtReady - 1 PROVE BtItem(j)' = BtItem(j)
    OBVIOUS
  <2>1. j \in 0 .. BtBlocks /\ j \in 0 .. BtBlocks - 1 /\ j # BtReady
    BY <1>3
  <2>2. Place(BtHead, j, BtBlocks) # btIndex /\ Place(BtHead, j, BtBlocks) \in 0 .. BtBlocks - 1
    BY <1>1, <1>2, <1>3, <2>1, BtFacts, BtIndices
  <2> QED BY <1>1, <1>4, <2>2 DEF BtItem
<1>6. \A j \in 0 .. BtReady : j = BtReady => BtItem(j)' = btBuf'[btIndex]
  BY <1>1, <1>2, <1>4, BtFacts, BtIndices DEF BtItem
<1>7. ASSUME NEW j \in 0 .. BtReady PROVE Due(j)' = Due(j) /\ (Goes(j)' <=> Goes(j))
  <2>1. CASE j = 0
    BY <1>1, <2>1 DEF Due, Goes
  <2>2. CASE j # 0
    <3>1. j - 1 \in 0 .. BtReady - 1
      BY <1>3, <2>2
    <3> QED BY <1>5, <2>2, <3>1 DEF Due, Goes
  <2> QED BY <2>1, <2>2
\* what is handed on
<1>8. /\ d.at \in Nat /\ d.n \in Nat /\ d.avail \in Nat /\ d.n <= BtBlock /\ d.n <= d.avail
      /\ BtFrom \in Int /\ BtFrom = BtNext - d.n /\ BtNext \in Int
      /\ d.avail = d.n + hashAvail /\ hashAvail \in Nat
      /\ d.n > 0 => d.at = BtFrom
      /\ d.avail = 0 => streamEnd /\ streamPos = size /\ BtFrom = size
      /\ d.avail # 0 => d.n > 0 /\ d.at + d.avail <= streamPos
      /\ d.n = 0 => streamEnd
  <2>1. /\ d.at \in Nat /\ d.n \in Nat /\ d.avail \in Nat /\ d.words \in Nat /\ d.words <= BtBlock
        /\ Limit \in Nat /\ Limit > 2 /\ hashAvail \in Nat /\ btPos \in Nat
        /\ d.avail = d.n + hashAvail /\ d.n <= d.words
        /\ d.n > 0 => d.at = BtNext - d.n
        /\ BtRuns /\ BtNext \in Int /\ BtFrom = BtNext - d.n
        /\ pc["bt"] # "end" => d.at = btPos - d.n /\ (d.n > 0 => BtNext = btPos)
        /\ d.words = 2 \/ d.n > 0 \/ pc["bt"] = "end"
        /\ pc["bt"] = "end" => BtNext = size /\ hashAvail = 0 /\ streamEnd
    BY <1>2, FillIs
  <2>2. btPos + hashAvail <= streamPos /\ (streamEnd => streamPos = size) /\ size \in Nat
    BY <1>1, <2>1, SizesAre DEF IInv, BtPlace, StreamInv, TypeInv
  <2>3. CASE pc["bt"] = "end"
    BY <1>3, <2>1, <2>2, <2>3
  <2>4. CASE pc["bt"] = "fill" /\ d.words >= Limit
    <3>1. d.n > 0
      BY <2>1, <2>4
    <3> QED BY <1>3, <2>1, <2>2, <2>4, <3>1
  <2> QED BY <1>1, <2>3, <2>4
<1>9. BtFrom' = BtFrom + d.n
  <2>1. BtNext' = BtNext
    BY <1>1, <1>2 DEF BtNext, HashAt, HashItem, HashReady, HashHeld, HashAsked, SameHash, BtRuns, Filling
  <2>2. BtFrom' = BtNext
    <3>1. BtNext - 0 = BtNext
      BY <1>8
    <3> QED BY <1>1, <2>1, <3>1 DEF BtFrom, Filling
  <2>3. BtNext = (BtNext - d.n) + d.n
    BY <1>8
  <2> QED BY <1>8, <2>2, <2>3
<1>10. Goes(BtReady)' => Due(BtReady)' = BtFrom'
  <2>1. \A j \in Nat : j = BtReady' => (Goes(BtReady)' <=> Goes(j)') /\ Due(BtReady)' = Due(j)'
    BY DEF Goes, Due, BtItem
  <2>2. PICK j \in 0 .. BtReady : j = BtReady
    BY <1>3
  <2>3. j + 1 = BtReady' /\ j + 1 \in Nat /\ j + 1 # 0 /\ (j + 1) - 1 = j
    BY <1>3, <1>4, <2>2
  <2>4. BtItem(j)' = btBuf'[btIndex]
    BY <1>6, <2>2
  <2>5. (Goes(j + 1)' <=> d.avail > 0) /\ Due(j + 1)' = d.at + d.n
    BY <1>1, <2>3, <2>4 DEF Goes, Due
  <2>6. d.avail > 0 => d.at + d.n = BtFrom + d.n
    BY <1>8
  <2> QED BY <1>9, <2>1, <2>3, <2>5, <2>6
<1>11. BtReady * BtBlock + BtBlock = (BtReady + 1) * BtBlock /\ BtReady * BtBlock \in Nat
  BY <1>3, LagGrows
<1>12. ~streamEnd' => BtFrom' - lzPos' <= BtReady' * BtBlock
  <2> DEFINE lag == BtReady * BtBlock
  <2>1. lag \in Nat /\ lag + BtBlock = BtReady' * BtBlock
    BY <1>4, <1>11
  <2>2. ~streamEnd => BtFrom - lzPos <= lag
    BY <1>3
  <2> HIDE DEF lag
  <2>3. ~streamEnd => (BtFrom + d.n) - lzPos <= lag + BtBlock
    BY <1>3, <1>8, <2>1, <2>2
  <2> QED BY <1>1, <1>9, <2>1, <2>3
<1>13. ASSUME NEW j \in 0 .. BtReady' - 1 PROVE BtLink(j)'
  <2>1. j \in 0 .. BtReady
    BY <1>3, <1>4
  <2>2. Due(j)' = Due(j) /\ (Goes(j)' <=> Goes(j))
    BY <1>7, <2>1
  <2>3. CASE j = BtReady
    <3>1. BtItem(j)' = btBuf'[btIndex]
      BY <1>6, <2>1, <2>3
    <3>2. Goes(j) => Due(j) = BtFrom
      <4>1. (Goes(BtReady) <=> Goes(j)) /\ Due(BtReady) = Due(j)
        BY <2>3 DEF Goes, Due, BtItem
      <4> QED BY <1>3, <4>1
    <3>3. ~streamEnd => (BtFrom + d.n) - d.at <= (BtReady' - j) * BtBlock
      <4>1. (BtReady' - j) * BtBlock = BtBlock
        BY <1>3, <1>4, <2>3
      <4>2. ~streamEnd => (BtFrom + d.n) - d.at <= BtBlock
        BY <1>3, <1>8
      <4> QED BY <4>1, <4>2
    <3>4. d.at # None
      BY <1>8 DEF None
    <3>5. /\ BtItem(j)'.at = d.at /\ BtItem(j)'.n = d.n /\ BtItem(j)'.avail = d.avail
      BY <1>1, <3>1
    <3>6. Goes(j) => IF d.avail = 0 THEN Due(j) = size ELSE d.at = Due(j) /\ d.at + d.avail <= streamPos
      BY <1>8, <3>2
    <3> QED BY <1>1, <1>8, <1>9, <2>2, <3>3, <3>4, <3>5, <3>6 DEF BtLink
  <2>4. CASE j # BtReady
    <3>1. j \in 0 .. BtReady - 1 /\ BtReady - j \in Nat /\ BtReady' - j = (BtReady - j) + 1
      BY <1>3, <1>4, <2>1, <2>4
    <3>2. BtItem(j)' = BtItem(j) /\ BtLink(j) /\ BtItem(j).at \in Nat
      BY <1>3, <1>5, <3>1
    <3>3. ~streamEnd => (BtFrom + d.n) - BtItem(j).at <= (BtReady' - j) * BtBlock
      <4> DEFINE lag == (BtReady - j) * BtBlock
      <4>1. lag \in Nat /\ lag + BtBlock = ((BtReady - j) + 1) * BtBlock
        BY <1>3, <3>1, LagGrows
      <4>2. ~streamEnd => BtFrom - BtItem(j).at <= lag
        BY <3>2 DEF BtLink
      <4> HIDE DEF lag
      <4>3. ~streamEnd => (BtFrom + d.n) - BtItem(j).at <= lag + BtBlock
        BY <1>3, <1>8, <3>2, <4>1, <4>2
      <4> QED BY <3>1, <4>1, <4>3
    <3> QED BY <1>1, <1>9, <2>2, <3>2, <3>3 DEF BtLink
  <2> QED BY <2>3, <2>4
<1> QED BY <1>10, <1>12, <1>13 DEF BtRing

LEMMA BtRingStep == IInv /\ Next => BtRing'
<1> SUFFICES ASSUME IInv, Next, LzRuns' PROVE BtRing'
  BY DEF BtRing
<1>1. TypeInv /\ StreamInv /\ BtCount
  BY HashFacts
<1>2. CASE BtEnd
  BY <1>2, BtRingEnd
<1>3. CASE Encode
  BY <1>3, BtRingEncode
<1>4. CASE BtQuietStep /\ ~BtEnd
  <2>1. /\ LzRuns /\ btBuf' = btBuf /\ BtHead' = BtHead /\ BtReady' = BtReady /\ lzPos' = lzPos
        /\ size' = size /\ streamPos' \in Nat /\ streamPos <= streamPos'
        /\ streamEnd => streamEnd' /\ streamPos' = streamPos
    BY <1>4 DEF BtQuietStep
  <2>2. \A j \in 0 .. BtReady - 1 : BtItem(j)' = BtItem(j)
    BY <2>1 DEF BtItem
  <2>3. BtFrom' = BtFrom
    BY <1>4, <2>1, FromKept
  <2> QED BY <2>1, <2>2, <2>3, BtRingKept
<1>5. CASE BtLock /\ ~BtEnd
  <2>1. /\ SameDoc /\ SameWindow /\ SameLz /\ sync' = sync /\ pc["bt"] = "lock" /\ pc'["lz"] = pc["lz"]
        /\ \A i \in 0 .. BtBlocks - 1 : i # btIndex => btBuf'[i] = btBuf[i]
    BY <1>1, <1>5, BtLockDoes
  <2>2. LzRuns /\ BtReady' = BtReady /\ BtHead' = BtHead /\ BtFilling = 1
    BY <2>1 DEF LzRuns, BtReady, BtHead, BtAsked, BtFilling, SameLz
  <2>3. BtAsked /\ BtReady \in 0 .. BtBlocks - 1 /\ BtBlocks \in Nat
    <3>1. BtAsked
      BY <2>2, BtFacts
    <3>2. BtReady < BtBlocks /\ BtReady \in 0 .. BtBlocks
      BY <1>1, <2>2, <3>1, BtIndices
    <3> QED BY <3>1, <3>2, RingsAre
  <2>4. \A j \in 0 .. BtReady - 1 : BtItem(j)' = BtItem(j)
    <3> SUFFICES ASSUME NEW j \in 0 .. BtReady - 1 PROVE BtItem(j)' = BtItem(j)
      OBVIOUS
    <3>1. j \in 0 .. BtBlocks /\ j \in 0 .. BtBlocks - 1 /\ j # BtReady
      BY <2>3
    <3>2. Place(BtHead, j, BtBlocks) # btIndex /\ Place(BtHead, j, BtBlocks) \in 0 .. BtBlocks - 1
      BY <1>1, <2>2, <2>3, <3>1, BtIndices
    <3> QED BY <2>1, <2>2, <3>2 DEF BtItem
  <2>5. BtFrom' = BtFrom
    BY <1>5, <2>2, FromKept
  <2>6. streamPos' \in Nat /\ streamPos <= streamPos'
    BY <1>1, <2>1 DEF TypeInv, SameWindow
  <2> QED BY <2>1, <2>2, <2>4, <2>5, <2>6, BtRingKept DEF SameDoc, SameWindow, SameLz
<1>6. CASE Ask /\ ~BtAsked
  <2>1. /\ pc["lz"] = "ask" /\ pc'["lz"] = "wait" /\ SameData /\ lzPos' = lzPos
        /\ pc'["bt"] = pc["bt"] /\ pc'["hash"] = pc["hash"] /\ sync'["hash"] = sync["hash"]
        /\ sync'["bt"].filled = sync["bt"].filled
    BY <1>1, <1>6, AskDoes
  <2>2. BtFresh /\ HashFresh
    BY <1>6, <2>1, BtFacts
  <2>3. sync["bt"].filled = 0 /\ lzPos = 0 /\ pc["bt"] \in {"none", "start"}
    BY <2>2, FreshIs
  <2>4. BtReady' = 0 /\ lzPos' = 0
    BY <2>1, <2>3 DEF BtReady
  <2>5. HashReady = 0 /\ HashHeld = 0 /\ pos = 0 /\ hashLeft = 0
    BY <2>2, FreshIs DEF HashReady, HashHeld, HashAsked, HashFresh
  <2>6. BtFrom' = 0
    <3>1. HashReady' = 0 /\ HashHeld' = 0 /\ pos' = 0 /\ hashLeft' = 0
      BY <2>1, <2>5 DEF HashReady, HashHeld, HashAsked, SameData, SameHash, SameBt
    <3>2. ~Filling'
      BY <2>1, <2>3 DEF Filling
    <3> QED BY <3>1, <3>2 DEF BtFrom, BtNext, HashAt
  <2>7. Due(BtReady)' = 0
    BY <2>4 DEF Due
  <2>8. 0 - 0 <= 0 * BtBlock
    BY SizesAre
  <2> QED BY <2>4, <2>6, <2>7, <2>8 DEF BtRing
<1> QED BY BtQuiet, <1>2, <1>3, <1>4, <1>5, <1>6



-----------------------------------------------------------------------------
(* What the window keeps *)

LEMMA BaseKept ==
  ASSUME Next, ~HashMove
  PROVE  base' = base
<1>1. Lz => base' = base
  BY SMTT(30) DEF Lz, Header, EncodeAlone, Create, Ask, Take, Encode, Flush, Stop, StopEnds, Footer, Exit, Join,
         windowVars
<1>2. Bt => base' = base
  BY DEF Bt, BtStart, BtFree, BtLock, BtAsk, BtTake, BtMatch, BtEnd, BtStop, BtStopEnds, BtStopped,
         windowVars
<1>3. Hash => base' = base
  BY DEF Hash, HashStart, HashEnter, HashFree, HashRead, HashStopped, windowVars
<1>4. Done => base' = base
  BY DEF Done, vars, windowVars
<1> QED BY <1>1, <1>2, <1>3, <1>4 DEF Next

\* The bt thread is behind the hash thread by no more than the hash ring holds ...
LEMMA BehindHash ==
  ASSUME IInv, BtRuns, ~streamEnd
  PROVE  pos - btPos <= HashBlock * HashBlocks
<1>1. /\ TypeInv /\ HashCount /\ HashReady \in 0 .. HashBlocks /\ HashBlocks \in Nat /\ HashBlock \in Nat
      /\ hashLeft \in Nat /\ btPos \in Nat /\ pos \in Nat /\ HashHeld \in 0 .. 1 /\ sync["hash"].filled \in Nat
      /\ HashReady = HashHeld + sync["hash"].filled
  BY HashFacts, HashIndices, HashTypes, BtNextType, SizesAre
<1>2. /\ BtNext = btPos /\ hashLeft <= HashBlock /\ (pc["bt"] = "wait" => hashLeft = 0)
      /\ HashAt(HashHeld) \in Nat /\ BtNext = HashAt(HashHeld) - hashLeft
  BY BtNextType DEF IInv, BtPlace, BtNext
<1>3. ~HashAsked => hashLeft = 0
  BY FreshIs DEF IInv, CtrlInv, HashInv, BtRuns
<1>4. HashHeld = 0 => hashLeft = 0
  BY <1>2, <1>3 DEF HashHeld
<1>5. pos - HashAt(HashHeld) <= sync["hash"].filled * HashBlock
  <2>1. CASE sync["hash"].filled > 0
    <3>1. HashHeld \in 0 .. HashReady - 1 /\ HashHeld < HashReady
          /\ HashReady - HashHeld = sync["hash"].filled
      BY <1>1, <2>1
    <3>2. HashLink(HashHeld) /\ HashAt(HashHeld) = HashItem(HashHeld).at
      BY <3>1 DEF IInv, HashRing, HashAt
    <3> QED BY <3>1, <3>2 DEF HashLink
  <2>2. CASE sync["hash"].filled = 0
    <3>1. ~(HashHeld < HashReady)
      BY <1>1, <2>2
    <3>2. HashAt(HashHeld) = pos
      BY <3>1 DEF HashAt
    <3>3. pos - pos <= 0 * HashBlock
      BY <1>1
    <3> QED BY <2>2, <3>2, <3>3
  <2> QED BY <1>1, <2>1, <2>2
<1>6. hashLeft <= HashHeld * HashBlock
  <2>1. CASE HashHeld = 0
    <3>1. 0 <= 0 * HashBlock
      BY <1>1
    <3> QED BY <1>4, <2>1, <3>1
  <2>2. CASE HashHeld = 1
    <3>1. 1 * HashBlock = HashBlock
      BY <1>1
    <3> QED BY <1>2, <2>2, <3>1
  <2> QED BY <1>1, <2>1, <2>2
<1>7. \A a, b, c, k \in Nat : a + b <= k => b * c + a * c <= c * k /\ b * c \in Nat /\ a * c \in Nat
  <2> SUFFICES ASSUME NEW a \in Nat, NEW b \in Nat, NEW c \in Nat, NEW k \in Nat, a + b <= k
               PROVE  b * c + a * c <= c * k /\ b * c \in Nat /\ a * c \in Nat
    OBVIOUS
  <2>1. b * c + a * c = c * (a + b)
    OBVIOUS
  <2>2. c * (a + b) <= c * k
    OBVIOUS
  <2> QED BY <2>1, <2>2
<1> DEFINE ahead == sync["hash"].filled * HashBlock
           held == HashHeld * HashBlock
           span == HashBlock * HashBlocks
<1>8. ahead + held <= span /\ ahead \in Nat /\ held \in Nat /\ span \in Nat
  <2>1. HashHeld \in Nat /\ HashHeld + sync["hash"].filled <= HashBlocks
    BY <1>1
  <2> QED BY <1>1, <1>7, <2>1
<1>9. pos - HashAt(HashHeld) <= ahead /\ hashLeft <= held
  BY <1>5, <1>6
<1> HIDE DEF ahead, held, span
<1>10. pos - btPos <= span
  BY <1>1, <1>2, <1>8, <1>9
<1> QED BY <1>10 DEF span

\* ... and the encoder behind the bt thread by no more than the other ring does.
LEMMA BehindBt ==
  ASSUME IInv, BtRuns, LzRuns, ~streamEnd
  PROVE  btPos - lzPos <= BtBlock * BtBlocks
<1>1. /\ TypeInv /\ BtCount /\ BtAsked /\ BtReady \in 0 .. BtBlocks /\ BtBlock \in Nat
      /\ lzPos \in Nat /\ BtFrom - lzPos <= BtReady * BtBlock
      /\ BtFilling = 1 => BtReady < BtBlocks
  BY RingSays, BtIndices
<1>2. BtNext = btPos /\ btPos \in Nat /\ BtBlocks \in Nat
  BY <1>1, RingsAre DEF IInv, BtPlace, TypeInv
<1>3. \A b, c, k \in Nat : b <= k => b * c <= c * k /\ b * c \in Nat /\ c * k \in Nat
  OBVIOUS
<1>4. CASE ~Filling
  <2>1. btPos - 0 = btPos
    BY <1>2
  <2>2. BtFrom = btPos
    BY <1>2, <1>4, <2>1 DEF BtFrom
  <2> DEFINE span == BtBlock * BtBlocks
             lag == BtReady * BtBlock
  <2>3. lag <= span /\ lag \in Nat /\ span \in Nat
    BY <1>1, <1>2, <1>3
  <2>4. btPos - lzPos <= lag
    BY <1>1, <2>2
  <2> HIDE DEF span, lag
  <2>5. btPos - lzPos <= span
    BY <1>1, <1>2, <2>3, <2>4
  <2> QED BY <2>5 DEF span
<1>5. CASE Filling
  <2>1. BtFrom = BtNext - d.n /\ d.n \in Nat /\ d.n <= BtBlock
    <3>1. d.n <= d.words /\ d.words <= BtBlock /\ d.n \in Nat /\ d.words \in Nat /\ BtFrom = BtNext - d.n
      BY <1>5, FillIs
    <3> QED BY <1>1, <3>1
  <2>2. BtReady + 1 <= BtBlocks /\ BtReady + 1 \in Nat
    <3>1. BtFilling = 1
      BY <1>5 DEF BtFilling, Filling
    <3> QED BY <1>1, <1>2, <3>1
  <2> DEFINE span == BtBlock * BtBlocks
             lag == BtReady * BtBlock
  <2>3. lag + BtBlock = (BtReady + 1) * BtBlock /\ lag \in Nat
    BY <1>1, LagGrows
  <2>4. (BtReady + 1) * BtBlock <= span /\ span \in Nat
    BY <1>1, <1>2, <1>3, <2>2
  <2>5. BtFrom - lzPos <= lag
    BY <1>1
  <2>6. lag + BtBlock <= span
    BY <2>3, <2>4
  <2> HIDE DEF span, lag
  <2>7. btPos - lzPos <= span
    BY <1>1, <1>2, <2>1, <2>3, <2>4, <2>5, <2>6
  <2> QED BY <2>7 DEF span
<1> QED BY <1>4, <1>5

LEMMA BehindStep == IInv /\ Next => BehindInv'
<1> SUFFICES ASSUME IInv, Next PROVE BehindInv'
  OBVIOUS
<1> USE DEF SameDoc, SameRes, SameWindow, SameHash, SameBt, SamePtr, SameLz, SameData
<1>1. /\ TypeInv /\ StreamInv /\ HashCount /\ BtCount /\ base \in Nat /\ btPos \in Nat /\ lzPos \in Nat
      /\ History \in Nat /\ Opts \in Nat
  BY HashFacts, SizesAre DEF TypeInv
<1>2. /\ LzRuns => base = 0 \/ base + History + Opts <= lzPos
      /\ BtRuns => base = 0 \/ base + History <= btPos
  BY DEF IInv, BehindInv
<1>3. CASE HashMove
  <2>1. /\ SameLz /\ sync' = sync /\ btPos' = btPos /\ pc["hash"] = "move" /\ pc'["lz"] = pc["lz"]
        /\ pc'["bt"] = pc["bt"] /\ ~streamEnd /\ base' + KeepBefore <= pos /\ TypeInv'
    BY <1>1, <1>3, HashMoveDoes
  <2>2. (LzRuns' <=> LzRuns) /\ (BtRuns' <=> BtRuns) /\ HashAsked
    BY <2>1, HashFacts DEF LzRuns, BtRuns, BtAsked
  <2>3. LzRuns => BtRuns
    BY <2>2, BtFacts, FreshIs DEF HashAsked
  <2> DEFINE hashSpan == HashBlock * HashBlocks
             btSpan == BtBlock * BtBlocks
  <2>4. hashSpan \in Nat /\ btSpan \in Nat
    <3>1. HashBlock \in Nat /\ HashBlocks \in Nat /\ BtBlock \in Nat /\ BtBlocks \in Nat
      BY SizesAre
    <3> QED BY <3>1
  <2>5. KeepBefore = History + Opts + hashSpan + btSpan + 1
    BY DEF KeepBefore
  <2>6. BtRuns => pos - btPos <= hashSpan
    BY <2>1, BehindHash
  <2>7. LzRuns => btPos - lzPos <= btSpan
    BY <2>1, <2>3, BehindBt
  <2>8. pos \in Nat /\ base' \in Nat
    BY <1>1, <2>1 DEF TypeInv
  <2> HIDE DEF hashSpan, btSpan
  <2>9. \A b \in Nat : b + KeepBefore <= pos =>
          /\ BtRuns => b + History <= btPos
          /\ LzRuns => b + History + Opts <= lzPos
    BY <1>1, <2>3, <2>4, <2>5, <2>6, <2>7, <2>8
  <2>10. /\ BtRuns => base' + History <= btPos
         /\ LzRuns => base' + History + Opts <= lzPos
    BY <2>1, <2>8, <2>9
  <2> QED BY <2>1, <2>2, <2>10 DEF BehindInv
<1>4. CASE ~HashMove
  <2>1. base' = base
    BY <1>4, BaseKept
  <2>2. LzRuns' => base = 0 \/ base + History + Opts <= lzPos'
    <3> SUFFICES ASSUME LzRuns' PROVE base = 0 \/ base + History + Opts <= lzPos'
      OBVIOUS
    <3>1. CASE BtQuietStep
      BY <1>2, <3>1 DEF BtQuietStep
    <3>2. CASE Ask /\ ~BtAsked
      <4>1. HashFresh
        BY <3>2, BtFacts DEF Ask
      <4> QED BY <4>1 DEF HashFresh
    <3>3. CASE Encode
      <4>1. pc["lz"] = "encode" /\ lzPos' = lzPos + btBuf[btBi].n
        BY <1>1, <3>3, EncodeDoes
      <4>2. btBuf[btBi].n \in Nat
        BY <1>1, BtTypes DEF TypeInv, BlockType
      <4>3. \A n \in Nat : base + History + Opts <= lzPos => base + History + Opts <= lzPos + n
        BY <1>1
      <4> QED BY <1>2, <4>1, <4>2, <4>3 DEF LzRuns
    <3>4. CASE BtLock \/ BtEnd
      <4>1. lzPos' = lzPos /\ pc'["lz"] = pc["lz"] /\ sync'["bt"].needStart = sync["bt"].needStart
        BY <1>1, <3>4, BtLockDoes, BtEndDoes DEF SameFlags
      <4> QED BY <1>2, <4>1 DEF LzRuns, BtAsked
    <3> QED BY BtQuiet, <3>1, <3>2, <3>3, <3>4
  <2>3. BtRuns' => base = 0 \/ base + History <= btPos'
    <3> SUFFICES ASSUME BtRuns' PROVE base = 0 \/ base + History <= btPos'
      OBVIOUS
    <3>1. CASE HashQuietStep
      BY <1>2, <3>1 DEF HashQuietStep
    <3>2. CASE EncodeAlone
      BY <1>1, <3>2, HashFacts, EncodeAloneDoes DEF CtrlInv, LzInv, BtRuns
    <3>3. CASE BtStart
      <4>1. HashFresh
        BY <3>3, BtStartsFresh DEF BtRuns
      <4> QED BY <4>1 DEF HashFresh
    <3>4. CASE BtMatch
      <4>1. BtRuns /\ hashLeft > 0
        BY <3>4 DEF BtMatch, BtRuns
      <4>2. hashLeft <= hashAvail /\ hashLeft \in Nat
        BY <1>1, <4>1 DEF IInv, BtPlace, TypeInv
      <4>3. \E k \in 1 .. hashLeft : btPos' = btPos + k
        BY <1>1, <3>4, <4>2, BtMatchDoes
      <4>4. \A k \in 1 .. hashLeft : base + History <= btPos => base + History <= btPos + k
        BY <1>1, <4>2
      <4> QED BY <1>2, <4>1, <4>3, <4>4
    <3>5. CASE BtAsk \/ BtTake
      <4>1. btPos' = btPos /\ BtRuns
        BY <1>1, <3>5, BtAskDoes, BtTakeDoes DEF BtRuns
      <4> QED BY <1>2, <4>1
    <3>6. CASE HashFree \/ HashRead
      <4>1. nthread = 2
        BY <3>6, HashFacts DEF HashFree, HashRead
      <4>2. btPos' = btPos /\ pc'["bt"] = pc["bt"]
        BY <1>1, <3>6, <4>1, HashFreeDoes, HashReadDoes
      <4> QED BY <1>2, <4>2 DEF BtRuns
    <3> QED BY HashQuiet, <3>1, <3>2, <3>3, <3>4, <3>5, <3>6
  <2> QED BY <2>1, <2>2, <2>3 DEF BehindInv
<1> QED BY <1>3, <1>4



-----------------------------------------------------------------------------
(* The answer *)

\* The block that is encoded is the first of the ring.
LEMMA EncodedIs ==
  ASSUME IInv, pc["lz"] = "encode"
  PROVE  /\ LzRuns /\ BtItem(0) = btBuf[btBi] /\ BtLink(0)
         /\ btBuf[btBi].n \in Nat /\ btBuf[btBi].avail \in Nat
<1>1. LzRuns /\ BtHead = btBi /\ BtReady = 1 + sync["bt"].filled /\ TypeInv
  BY HashFacts DEF LzRuns, BtHead, BtReady
<1>2. 0 \in 0 .. BtReady - 1
  BY <1>1, BtTypes
<1>3. BtItem(0) = btBuf[btBi]
  BY <1>1, BtTypes, RingsAre, PlaceIs DEF BtItem
<1> QED BY <1>1, <1>2, <1>3, RingSays

LEMMA AnswerStep == IInv /\ Next => AnswerInv'
<1> SUFFICES ASSUME IInv, Next PROVE AnswerInv'
  OBVIOUS
<1> USE DEF SameDoc, SameRes, SameWindow, SameHash, SameBt, SamePtr, SameLz, SameData
<1>1. /\ TypeInv /\ StreamInv /\ HashCount /\ BtCount /\ AnswerInv
      /\ pc["bt"] = "fill" => hashLeft <= hashAvail
      /\ pc["lz"] \in {"alone", "footer", "exit"} /\ res = "ok" => pc["lz"] = "alone" \/ (lzPos = size /\ streamPos = size)
  BY DEF IInv, BtPlace, BtRuns, AnswerInv
\* The steps of the other threads leave the caller's side alone, but for what is read.
<1>2. ASSUME SameDoc, SameRes, lzPos' = lzPos, footed' = footed, pc'["lz"] = pc["lz"],
             streamPos = size => streamPos' = streamPos
      PROVE  AnswerInv'
  BY <1>1, <1>2 DEF AnswerInv
<1>3. CASE Header
  BY <1>1, <1>3, HeaderDoes DEF AnswerInv
<1>4. CASE EncodeAlone
  BY <1>1, <1>4, EncodeAloneDoes DEF AnswerInv
<1>5. CASE Create
  BY <1>1, <1>5, CreateDoes DEF AnswerInv
<1>6. CASE Ask
  BY <1>1, <1>6, AskDoes DEF AnswerInv
<1>7. CASE Take
  BY <1>1, <1>7, TakeDoes DEF AnswerInv
<1>8. CASE Encode
  BY <1>1, <1>8, EncodeDoes DEF AnswerInv
<1>9. CASE Flush
  <2>1. /\ SameDoc /\ SameData /\ SameLz /\ pc["lz"] = "encode" /\ btBuf[btBi].avail = 0 /\ pc'["lz"] = "stop"
        /\ (res = "ok" <=> faults = 0) => (res' = "ok" <=> faults' = 0)
    BY <1>1, <1>9, FlushDoes DEF Flush
  <2>2. BtItem(0) = btBuf[btBi] /\ BtLink(0)
    BY <2>1, EncodedIs
  <2>3. streamPos = size /\ Due(0) = size
    BY <2>1, <2>2 DEF BtLink, Goes
  <2>4. lzPos = size
    BY <2>3 DEF Due
  <2> QED BY <1>1, <2>1, <2>3, <2>4 DEF AnswerInv
<1>10. CASE Stop
  BY <1>1, <1>10, StopDoes DEF AnswerInv
<1>11. CASE StopEnds
  BY <1>1, <1>11, StopEndsDoes DEF AnswerInv
<1>12. CASE Footer
  BY <1>1, <1>12, FooterDoes DEF AnswerInv
<1>13. CASE Exit
  <2>1. SameDoc /\ SameRes /\ SameData /\ SameLz /\ pc["lz"] \in {"exit", "join"} /\ pc'["lz"] \in {"exit", "join", "done"}
    BY <1>1, <1>13, ExitDoes
  <2> QED BY <1>1, <2>1 DEF AnswerInv
<1>14. CASE Join
  <2>1. SameDoc /\ SameRes /\ SameData /\ SameLz /\ pc["lz"] \in {"exit", "join"} /\ pc'["lz"] \in {"exit", "join", "done"}
    BY <1>1, <1>14, JoinDoes
  <2> QED BY <1>1, <2>1 DEF AnswerInv
<1>15. CASE BtStart
  BY <1>1, <1>2, <1>15, BtStartDoes
<1>16. CASE BtFree
  BY <1>1, <1>2, <1>16, BtFreeDoes
<1>17. CASE BtLock
  BY <1>1, <1>2, <1>17, BtLockDoes
<1>18. CASE BtAsk
  BY <1>1, <1>2, <1>18, BtAskDoes
<1>19. CASE BtTake
  BY <1>1, <1>2, <1>19, BtTakeDoes
<1>20. CASE BtMatch
  <2>1. SameDoc /\ SameRes /\ SameWindow /\ SameLz /\ pc' = pc
    BY <1>20 DEF BtMatch, docVars, windowVars, lzVars
  <2> QED BY <1>2, <2>1
<1>21. CASE BtEnd
  BY <1>1, <1>2, <1>21, BtEndDoes
<1>22. CASE BtStop
  BY <1>1, <1>2, <1>22, BtStopDoes
<1>23. CASE BtStopEnds
  BY <1>1, <1>2, <1>23, BtStopEndsDoes
<1>24. CASE BtStopped
  BY <1>1, <1>2, <1>24, BtStoppedDoes
<1>25. CASE HashStart
  BY <1>1, <1>2, <1>25, HashStartDoes
<1>26. CASE HashEnter
  BY <1>1, <1>2, <1>26, HashEnterDoes
<1>27. CASE HashMove
  BY <1>1, <1>2, <1>27, HashMoveDoes
<1>28. CASE HashFree
  BY <1>1, <1>2, <1>28, HashFreeDoes
<1>29. CASE HashRead
  <2>1. nthread = 2
    BY <1>29, HashFacts DEF HashRead
  <2>2. SameDoc /\ SameRes /\ SameLz /\ pc'["lz"] = pc["lz"] /\ streamPos <= streamPos' /\ streamPos' <= size /\ TypeInv'
    BY <1>1, <1>29, <2>1, HashReadDoes
  <2>3. streamPos \in Nat /\ size \in Nat /\ streamPos' \in Nat
    BY <1>1, <2>2, SizesAre DEF TypeInv
  <2>4. \A q \in Nat : streamPos <= q /\ q <= size /\ streamPos = size => q = size
    BY <2>3
  <2> QED BY <1>2, <2>2, <2>3, <2>4
<1>30. CASE HashStopped
  BY <1>1, <1>2, <1>30, HashStoppedDoes
<1>31. CASE UNCHANGED vars
  BY <1>2, <1>31 DEF vars, docVars, windowVars, lzVars
<1> QED BY NextSplit, <1>3, <1>4, <1>5, <1>6, <1>7, <1>8, <1>9, <1>10, <1>11, <1>12, <1>13, <1>14, <1>15, <1>16, <1>17, <1>18, <1>19, <1>20, <1>21, <1>22, <1>23, <1>24, <1>25, <1>26, <1>27, <1>28, <1>29, <1>30, <1>31


-----------------------------------------------------------------------------
(* The theorems *)

\* In every state the threads, the rings, the window and the answer fit together.
THEOREM Invariance == Spec => []IInv
<1>1. Init => IInv
  BY InitInv
<1>2. IInv /\ [Next]_vars => IInv'
  <2> SUFFICES ASSUME IInv, [Next]_vars PROVE IInv'
    OBVIOUS
  <2>1. CASE Next
    <3>1. TypeInv' /\ CtrlInv' /\ StreamInv'
      BY <2>1, TypeStep, CtrlStep, StreamStep
    <3>2. HashCount' /\ HashRing' /\ BtPlace' /\ LeftInv' /\ FillInv'
      BY <2>1, HashCountStep, HashRingStep, BtPlaceStep, LeftStep, FillStep
    <3>3. BtCount' /\ BtRing' /\ BehindInv' /\ AnswerInv'
      BY <2>1, BtCountStep, BtRingStep, BehindStep, AnswerStep
    <3> QED BY <3>1, <3>2, <3>3 DEF IInv
  <2>2. CASE UNCHANGED vars
    <3> USE <2>2 DEF vars, docVars, windowVars, hashVars, btVars, ptrVars, lzVars
    <3>1. TypeInv' /\ CtrlInv'
      BY TypeStep, CtrlStep, SMTT(30) DEF IInv, TypeInv, CtrlInv, LzInv, BtInv, HashInv, BtFresh, HashFresh, Leaving,
         BtAsked, HashAsked, BtRuns
    <3>2. StreamInv' /\ AnswerInv' /\ BehindInv'
      BY SMTT(30) DEF IInv, StreamInv, NeedMove, AnswerInv, BehindInv, BtAsked, LzRuns, BtRuns
    <3>3. HashCount' /\ HashRing' /\ BtPlace' /\ LeftInv'
      BY SMTT(30) DEF IInv, HashCount, HashRing, HashLink, BtPlace, BtNext, LeftInv, Adv, Heads, HashReady, HashHeld, HashFilling, HashItem, HashAt, HashAsked, BtAsked, BtRuns
    <3>4. FillInv' /\ BtCount'
      BY SMTT(30) DEF IInv, FillInv, Filling, BtFrom, BtNext, BtCount, BtHeld, BtFilling, BtHead, BtReady, LzRuns, HashReady, HashHeld, HashFilling, HashItem, HashAt, HashAsked, BtAsked, BtRuns
    <3>5. BtRing'
      BY SMTT(30) DEF IInv, BtRing, BtLink, Due, Goes, BtItem, BtHead, BtReady, BtFrom, BtNext, Filling, LzRuns, HashReady, HashHeld, HashFilling, HashItem, HashAt, HashAsked, BtAsked, BtRuns
    <3> QED BY <3>1, <3>2, <3>3, <3>4, <3>5 DEF IInv
  <2> QED BY <2>1, <2>2
<1> QED BY <1>1, <1>2, PTL DEF Spec


\* Whatever the three threads' order, the caller encodes the document from where it stands,
\* with matches found for that very place, and no block of matches outgrows its place.
THEOREM InOrderHolds == Spec => []InOrder
<1>1. IInv => InOrder
  <2> SUFFICES ASSUME IInv PROVE InOrder
    OBVIOUS
  <2>1. pc["lz"] = "encode" => /\ btBuf[btBi].at # None
                               /\ btBuf[btBi].n > 0 => btBuf[btBi].at = lzPos
    <3> SUFFICES ASSUME pc["lz"] = "encode"
                 PROVE  btBuf[btBi].at # None /\ (btBuf[btBi].n > 0 => btBuf[btBi].at = lzPos)
      OBVIOUS
    <3>1. BtItem(0) = btBuf[btBi] /\ BtLink(0) /\ btBuf[btBi].n \in Nat /\ btBuf[btBi].avail \in Nat
      BY EncodedIs
    <3>2. Goes(0) /\ Due(0) = lzPos
      BY DEF Goes, Due
    <3> QED BY <3>1, <3>2 DEF BtLink
  <2>2. hashLeft > 0 => hashBuf[hashBi].at + hashBuf[hashBi].n - hashLeft = btPos
                        /\ hashBuf[hashBi].at # None
    BY DEF IInv, LeftInv
  <2>3. d.words <= BtBlock
    BY DEF IInv, FillInv
  <2> QED BY <2>1, <2>2, <2>3 DEF InOrder
<1> QED BY <1>1, Invariance, PTL

\* While the window moves on, what the encoder and the bt thread work on stays in it: the
\* bytes ahead of them and the dictionary behind.
THEOREM WindowHoldsAlways == Spec => []WindowHolds
<1>1. IInv => WindowHolds
  <2> SUFFICES ASSUME IInv PROVE WindowHolds
    OBVIOUS
  <2>1. /\ TypeInv /\ StreamInv /\ base \in Nat /\ btPos \in Nat /\ lzPos \in Nat /\ streamPos \in Nat
        /\ History \in Nat /\ Opts \in Nat
    BY HashFacts, SizesAre DEF TypeInv
  <2>2. ASSUME pc["lz"] = "encode"
        PROVE  /\ lzPtr = lzPos - base
               /\ base <= Before(lzPos, History + Opts)
               /\ lzPos + btBuf[btBi].avail <= streamPos
    <3>1. LzRuns /\ nthread = 2
      BY <2>2, BtFacts DEF LzRuns
    <3>2. base = 0 \/ base + History + Opts <= lzPos
      BY <3>1 DEF IInv, BehindInv
    <3>3. base <= Before(lzPos, History + Opts)
      BY <2>1, <3>2 DEF Before
    <3>4. BtItem(0) = btBuf[btBi] /\ BtLink(0) /\ btBuf[btBi].n \in Nat /\ btBuf[btBi].avail \in Nat
      BY <2>2, EncodedIs
    <3>5. Goes(0) /\ Due(0) = lzPos
      BY DEF Goes, Due
    <3>6. lzPos + btBuf[btBi].avail <= streamPos
      <4>1. size \in Nat /\ (btBuf[btBi].avail = 0 => streamPos = size /\ lzPos = size)
        BY <2>1, <3>4, <3>5, SizesAre DEF BtLink, TypeInv
      <4>2. btBuf[btBi].avail # 0 => lzPos + btBuf[btBi].avail <= streamPos
        BY <3>4, <3>5 DEF BtLink
      <4> QED BY <2>1, <4>1, <4>2
    <3> QED BY <2>1, <3>1, <3>3, <3>6 DEF StreamInv
  <2>3. ASSUME pc["bt"] = "fill"
        PROVE  /\ btPtr = btPos - base
               /\ base <= Before(btPos, History)
               /\ btPos + hashAvail <= streamPos
    <3>1. BtRuns /\ nthread = 2
      BY <2>1, <2>3, HashFacts DEF BtRuns, TypeInv
    <3>2. base = 0 \/ base + History <= btPos
      BY <3>1 DEF IInv, BehindInv
    <3>3. base <= Before(btPos, History)
      BY <2>1, <3>2 DEF Before
    <3>4. btPos + hashAvail <= streamPos
      BY <3>1 DEF IInv, BtPlace
    <3> QED BY <2>1, <3>1, <3>3, <3>4 DEF StreamInv
  <2> QED BY <2>2, <2>3 DEF WindowHolds
<1> QED BY <1>1, Invariance, PTL

\* An answer of success has read and encoded the whole document, and is given exactly when
\* nothing failed, with the threads gone.
THEOREM WholeOrErrorHolds == Spec => []WholeOrError
<1>1. IInv => WholeOrError
  <2> SUFFICES ASSUME IInv PROVE WholeOrError
    OBVIOUS
  <2>1. TypeInv /\ LzInv /\ AnswerInv /\ nthread \in {1, 2}
    BY DEF IInv, CtrlInv, TypeInv
  <2>2. pc["lz"] = "footer" => pc["bt"] \in {"none", "start"} /\ pc["hash"] \in {"none", "start"}
    BY <2>1 DEF LzInv
  <2>3. pc["lz"] = "done" =>
          /\ res = "ok" <=> faults = 0
          /\ res = "ok" => lzPos = size /\ footed = size
          /\ pc["bt"] = "none" /\ pc["hash"] = "none"
    BY <2>1 DEF LzInv, AnswerInv
  <2> QED BY <2>2, <2>3 DEF WholeOrError
<1> QED BY <1>1, Invariance, PTL
=============================================================================
