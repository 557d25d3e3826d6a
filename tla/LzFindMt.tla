------------------------------ MODULE LzFindMt ------------------------------
(***************************************************************************)
(* The writer of an lzip stream: simpleCompress, elzma_compress_run and,    *)
(* with more than one thread, the match finder under LzmaEnc_Encode.  The   *)
(* writer of an lzma stream is the same without a footer.                   *)
(*                                                                          *)
(* Three threads work one behind the other on the same window of the input. *)
(* The hash thread reads the input into the window, moves the window on,    *)
(* and hands blocks of positions to the bt thread (hashSync); that one      *)
(* finds the matches of each position and hands them, in blocks of another  *)
(* size, to the lz thread (btSync), which is the caller and encodes.  Each  *)
(* hand-over is a ring of blocks with a count of free and of filled ones,   *)
(* and a critical section the receiver holds while it looks at its block:   *)
(* the hash thread takes both sections to move the window.                  *)
(*                                                                          *)
(* A position stands for its byte; how many matches a position has is a     *)
(* choice, so is a failure of memory, of a thread or of the output.         *)
(***************************************************************************)
EXTENDS Integers

CONSTANTS Sizes,       \* sizes of the documents
          History,     \* the size of the dictionary
          Opts,        \* kNumOpts: how far the encoder is behind the matches it reads
          MatchMax,    \* matchMaxLen
          NumHash,     \* numHashBytes
          HashBlock,   \* kMtHashBlockSize
          HashBlocks,  \* kMtHashNumBlocks
          BtBlock,     \* kMtBtBlockSize
          BtBlocks,    \* kMtBtNumBlocks
          After,       \* LZMA_MATCH_LEN_MAX + 1
          Reserve,     \* the window beyond what is kept
          Align,       \* kBlockMoveAlign
          Faults       \* bound on the failures of one call

ASSUME LzFindMtAssumption ==
  /\ Sizes \subseteq Nat \ {0} /\ {History, Opts, After, Faults} \subseteq Nat
  /\ {MatchMax, NumHash, HashBlocks, BtBlocks, Reserve, Align} \subseteq Nat \ {0}
  /\ NumHash <= MatchMax /\ HashBlock \in Nat /\ HashBlock > 2
  /\ BtBlock \in Nat /\ BtBlock > 4 * MatchMax

VARIABLES
  size, nthread,
  res,         \* the answer so far
  faults,      \* failures so far
  pc,          \* where each thread is; "none" is one that does not exist
  sync,        \* the two CMtSync
  cs,          \* who is in the critical section of each
  base,        \* the position at bufBase
  streamPos, streamEnd,       \* read so far; streamEndWasReached
  pos,                        \* mf->pos, the hash thread's position
  hashBuf, hashIndex,         \* the hash ring and the hash thread's blockIndex
  btPos, btPtr,               \* p->pos and p->buffer of the bt thread
  hashLeft, hashAvail,        \* hashBufPosLimit - hashBufPos, hashNumAvail
  hashBi,                     \* the hash block it looks at
  d,                          \* the block it fills
  btBuf, btIndex,             \* the bt ring and the bt thread's blockIndex
  lzPos, lzPtr,               \* lzPos and pointerToCurPos
  btBi,                       \* the bt block the lz thread looks at
  footed                      \* what the footer says was read, or None

Threads == {"lz", "bt", "hash"}
Syncs == {"bt", "hash"}

docVars == <<size, nthread>>
windowVars == <<base, streamPos, streamEnd>>
hashVars == <<pos, hashBuf, hashIndex>>
btVars == <<hashLeft, hashAvail, hashBi, d, btBuf, btIndex>>
ptrVars == <<btPos, btPtr, lzPtr>>
lzVars == <<lzPos, btBi, footed>>
vars == <<docVars, res, faults, pc, sync, cs, windowVars, hashVars, btVars, ptrVars, lzVars>>

None == -1

-----------------------------------------------------------------------------
(* Sizes *)

\* A faulty window: what waits in the bt ring is not kept.
KeepBeforeHash == History + Opts + HashBlock * HashBlocks + 1

\* keepSizeBefore and keepSizeAfter
KeepBefore == History + Opts + HashBlock * HashBlocks + BtBlock * BtBlocks + 1
KeepAfter == MatchMax + After + HashBlock
Window == KeepBefore + KeepAfter + Reserve

\* kMtBtNumBlocks, kMtHashNumBlocks
Blocks(s) == IF s = "bt" THEN BtBlocks ELSE HashBlocks

\* A faulty limit: the last position may have more matches than there is room for.
LimitLoose == BtBlock

\* BtGetMatches: limit.  A position takes a word, and two for each match.
Limit == BtBlock - 2 * MatchMax
Costs == {1, 1 + 2 * (MatchMax - NumHash + 1)}

MayFail == faults < Faults
Fails == MayFail /\ faults' = faults + 1
Works == UNCHANGED faults

Goto(t, label) == pc' = [pc EXCEPT ![t] = label]

-----------------------------------------------------------------------------
(* CMtSync *)

Fresh(n) == [needStart |-> TRUE, stopWriting |-> FALSE, exit |-> TRUE, canStart |-> FALSE,
             wasStopped |-> FALSE, free |-> n, filled |-> 0, numProcessed |-> 0]

\* Semaphore_Release1, which refuses to go beyond the count it was created with.
Released(n, s) == IF n = Blocks(s) THEN n ELSE n + 1

\* MtSync_GetNextBlock up to its wait: the other thread is started, or the block the
\* client t has looked at is freed outside of its critical section ...
AskNext(t, s, label) ==
  /\ LET p == sync[s]
     IN  sync' = [sync EXCEPT ![s] =
           IF p.needStart
             THEN [p EXCEPT !.needStart = FALSE, !.stopWriting = FALSE, !.exit = FALSE,
                            !.wasStopped = FALSE, !.canStart = TRUE, !.numProcessed = 1 % Blocks(s)]
             ELSE [p EXCEPT !.free = Released(p.free, s),
                            !.numProcessed = (p.numProcessed + 1) % Blocks(s)]]
  /\ cs' = IF sync[s].needStart THEN cs ELSE [cs EXCEPT ![s] = "none"]
  /\ Goto(t, label)

Given(s) == IF sync[s].needStart THEN 0 ELSE sync[s].numProcessed

\* ... and a filled one waited for, and the section entered.
TakeNext(t, s, label) ==
  /\ sync[s].filled > 0 /\ cs[s] = "none"
  /\ sync' = [sync EXCEPT ![s].filled = @ - 1]
  /\ cs' = [cs EXCEPT ![s] = t]
  /\ Goto(t, label)

\* A faulty stop: the other thread may wait for a free block for ever.
AskStopOnly(t, s, label) ==
  /\ sync' = [sync EXCEPT ![s].stopWriting = TRUE]
  /\ cs' = [cs EXCEPT ![s] = IF @ = t THEN "none" ELSE @]
  /\ Goto(t, label)

\* MtSync_StopWriting: the section is left, the thread told and given one more free
\* block, so that it looks ...
AskStop(t, s, label) ==
  /\ sync' = [sync EXCEPT ![s].stopWriting = TRUE, ![s].free = Released(@, s)]
  /\ cs' = [cs EXCEPT ![s] = IF @ = t THEN "none" ELSE @]
  /\ Goto(t, label)

\* A faulty stop: the other thread may still be in its block.
StoppedAtOnce(t, s, label) ==
  /\ sync' = [sync EXCEPT ![s].wasStopped = FALSE, ![s].needStart = TRUE]
  /\ Goto(t, label)
  /\ UNCHANGED cs

\* ... and waited for.
Stopped(t, s, label) ==
  /\ sync[s].wasStopped
  /\ sync' = [sync EXCEPT ![s].wasStopped = FALSE, ![s].needStart = TRUE]
  /\ Goto(t, label)
  /\ UNCHANGED cs

\* Event_Wait(&p->canStart) of the thread behind s.
Started(s, label) ==
  /\ sync[s].canStart
  /\ sync' = [sync EXCEPT ![s].canStart = FALSE]
  /\ Goto(s, IF sync[s].exit THEN "gone" ELSE label)
  /\ UNCHANGED cs

\* Semaphore_Wait(&p->freeSemaphore)
TakeFree(s) == sync[s].free > 0 /\ sync' = [sync EXCEPT ![s].free = @ - 1]

-----------------------------------------------------------------------------
Init ==
  /\ size \in Sizes /\ nthread \in {1, 2}
  /\ res = "ok" /\ faults = 0
  /\ pc = [t \in Threads |-> IF t = "lz" THEN "header" ELSE "none"]
  /\ sync = [s \in Syncs |-> Fresh(Blocks(s))] /\ cs = [s \in Syncs |-> "none"]
  /\ base = 0 /\ streamPos = 0 /\ streamEnd = FALSE
  /\ pos = 0 /\ hashIndex = 0
  /\ hashBuf = [i \in 0 .. (HashBlocks - 1) |-> [at |-> None, n |-> 0, avail |-> 0]]
  /\ btPos = 0 /\ btPtr = 0 /\ hashLeft = 0 /\ hashAvail = 0 /\ hashBi = 0
  /\ d = [at |-> 0, n |-> 0, avail |-> 0, words |-> 2] /\ btIndex = 0
  /\ btBuf = [i \in 0 .. (BtBlocks - 1) |-> [at |-> None, n |-> 0, avail |-> 0]]
  /\ lzPos = 0 /\ lzPtr = 0 /\ btBi = 0 /\ footed = None

(* The lz thread: simpleCompress *)

\* The handle, the encoder and the header.
Header ==
  /\ pc["lz"] = "header"
  /\ \/ Works /\ Goto("lz", IF nthread > 1 THEN "create" ELSE "alone") /\ UNCHANGED res
     \/ Fails /\ res' = "error" /\ Goto("lz", "done")
  /\ UNCHANGED <<docVars, sync, cs, windowVars, hashVars, btVars, ptrVars, lzVars>>

\* LzmaEnc_Encode with one thread.
EncodeAlone ==
  /\ pc["lz"] = "alone"
  /\ Goto("lz", "footer")
  /\ \/ Works /\ streamPos' = size /\ streamEnd' = TRUE /\ lzPos' = size /\ UNCHANGED res
     \/ Fails /\ res' = "error" /\ UNCHANGED <<streamPos, streamEnd, lzPos>>
  /\ UNCHANGED <<docVars, sync, cs, base, hashVars, btVars, ptrVars, btBi, footed>>

\* MatchFinderMt_Create: the buffers, the hash thread and the bt thread.
Create ==
  /\ pc["lz"] = "create"
  /\ \/ /\ Works
        /\ pc' = [t \in Threads |-> IF t = "lz" THEN "ask" ELSE "start"]
        /\ UNCHANGED res
     \/ /\ Fails /\ res' = "error"
        /\ pc' \in {[pc EXCEPT !["lz"] = "exit"],
                    [pc EXCEPT !["lz"] = "exit", !["hash"] = "start"]}
  /\ UNCHANGED <<docVars, sync, cs, windowVars, hashVars, btVars, ptrVars, lzVars>>

\* MatchFinderMt_GetNextBlock_Bt
Ask ==
  /\ pc["lz"] = "ask"
  /\ AskNext("lz", "bt", "wait")
  /\ btBi' = Given("bt")
  /\ UNCHANGED <<docVars, res, faults, windowVars, hashVars, btVars, ptrVars, lzPos, footed>>

Take ==
  /\ pc["lz"] = "wait"
  /\ TakeNext("lz", "bt", "encode")
  /\ UNCHANGED <<docVars, res, faults, windowVars, hashVars, btVars, ptrVars, lzVars>>

\* LzmaEnc_CodeOneBlock: the positions of the block are encoded.  A failed write is
\* noticed now and then, and at the end.
Encode ==
  /\ pc["lz"] = "encode" /\ btBuf[btBi].avail > 0
  /\ lzPos' = lzPos + btBuf[btBi].n /\ lzPtr' = lzPtr + btBuf[btBi].n
  /\ \/ Works /\ UNCHANGED res
     \/ Fails /\ res' = "error"
  /\ pc' \in {[pc EXCEPT !["lz"] = "ask"]} \cup
             (IF res' = "ok" THEN {} ELSE {[pc EXCEPT !["lz"] = "stop"]})
  /\ UNCHANGED <<docVars, sync, cs, windowVars, hashVars, btVars, btPos, btPtr, btBi, footed>>

\* No bytes are available: Flush.
Flush ==
  /\ pc["lz"] = "encode" /\ btBuf[btBi].avail = 0
  /\ Goto("lz", "stop")
  /\ \/ Works /\ UNCHANGED res
     \/ Fails /\ res' = "error"
  /\ UNCHANGED <<docVars, sync, cs, windowVars, hashVars, btVars, ptrVars, lzVars>>

\* LzmaEnc_Finish: MatchFinderMt_ReleaseStream
Stop ==
  /\ pc["lz"] = "stop"
  /\ AskStop("lz", "bt", "stopping")
  /\ UNCHANGED <<docVars, res, faults, windowVars, hashVars, btVars, ptrVars, lzVars>>

StopEnds ==
  /\ pc["lz"] = "stopping"
  /\ Stopped("lz", "bt", "footer")
  /\ UNCHANGED <<docVars, res, faults, windowVars, hashVars, btVars, ptrVars, lzVars>>

\* elzma_compress_run: the footer, with the checksum of what was read.
Footer ==
  /\ pc["lz"] = "footer"
  /\ \/ res = "ok" /\ Works /\ footed' = streamPos /\ UNCHANGED res
     \/ res = "ok" /\ Fails /\ res' = "error" /\ UNCHANGED footed
     \/ res = "error" /\ Works /\ UNCHANGED <<res, footed>>
  /\ Goto("lz", IF nthread > 1 THEN "exit" ELSE "done")
  /\ UNCHANGED <<docVars, sync, cs, windowVars, hashVars, btVars, ptrVars, lzPos, btBi>>

\* MtSync_Destruct of btSync and then of hashSync: the thread is sent off ...
Leaving == IF pc["bt"] = "none" THEN "hash" ELSE "bt"

Exit ==
  /\ pc["lz"] = "exit"
  /\ IF pc[Leaving] = "none" THEN Goto("lz", "done") /\ UNCHANGED sync
     ELSE /\ sync' = [sync EXCEPT ![Leaving].exit = TRUE, ![Leaving].canStart = TRUE]
          /\ Goto("lz", "join")
  /\ UNCHANGED <<docVars, res, faults, cs, windowVars, hashVars, btVars, ptrVars, lzVars>>

\* ... and joined.
Join ==
  /\ pc["lz"] = "join" /\ pc[Leaving] = "gone"
  /\ pc' = [pc EXCEPT !["lz"] = "exit", ![Leaving] = "none"]
  /\ UNCHANGED <<docVars, res, faults, sync, cs, windowVars, hashVars, btVars, ptrVars, lzVars>>

-----------------------------------------------------------------------------
(* The bt thread: BtThreadFunc *)

BtStart ==
  /\ pc["bt"] = "start"
  /\ Started("bt", "free")
  /\ UNCHANGED <<docVars, res, faults, windowVars, hashVars, btVars, ptrVars, lzVars>>

\* A free block, or the word to stop.
BtFree ==
  /\ pc["bt"] = "free"
  /\ TakeFree("bt")
  /\ Goto("bt", IF sync["bt"].stopWriting THEN "stop" ELSE "lock")
  /\ UNCHANGED <<docVars, res, faults, cs, windowVars, hashVars, btVars, ptrVars, lzVars>>

\* BtFillBlock: unless the hash thread was never asked, its section is entered.
BtLock ==
  /\ pc["bt"] = "lock"
  /\ IF sync["hash"].needStart THEN UNCHANGED cs
     ELSE cs["hash"] = "none" /\ cs' = [cs EXCEPT !["hash"] = "bt"]
  /\ d' = [at |-> btPos, n |-> 0, avail |-> hashAvail, words |-> 2]
  /\ btBuf' = [btBuf EXCEPT ![btIndex].at = None]
  /\ Goto("bt", "fill")
  /\ UNCHANGED <<docVars, res, faults, sync, windowVars, hashVars, hashLeft, hashAvail, hashBi,
                 btIndex, ptrVars, lzVars>>

\* BtGetMatches: the heads of the hash block are used up, the next one is asked for ...
BtAsk ==
  /\ pc["bt"] = "fill" /\ d.words < Limit /\ hashLeft = 0
  /\ AskNext("bt", "hash", "wait")
  /\ hashBi' = Given("hash")
  /\ UNCHANGED <<docVars, res, faults, windowVars, hashVars, hashLeft, hashAvail, d, btBuf, btIndex,
                 ptrVars, lzVars>>

\* ... and looked at; the last bytes of the document have no heads.
BtTake ==
  /\ pc["bt"] = "wait"
  /\ LET h == hashBuf[hashBi]
         some == h.avail >= NumHash
     IN  /\ TakeNext("bt", "hash", IF some THEN "fill" ELSE "end")
         /\ hashLeft' = h.n
         /\ hashAvail' = IF some THEN h.avail ELSE 0
         /\ d' = IF some THEN [d EXCEPT !.avail = d.n + h.avail]
                 ELSE [d EXCEPT !.avail = d.n + h.avail, !.n = @ + h.avail, !.words = @ + h.avail]
  /\ UNCHANGED <<docVars, res, faults, windowVars, hashVars, hashBi, btBuf, btIndex, ptrVars, lzVars>>

\* The matches of some positions, as many as there are heads and room for.
BtMatch ==
  /\ pc["bt"] = "fill" /\ d.words < Limit /\ hashLeft > 0
  /\ \E cost \in Costs :
       LET room == (Limit - d.words + cost - 1) \div cost
           k == IF room < hashLeft THEN room ELSE hashLeft
       IN  /\ d' = [d EXCEPT !.n = @ + k, !.words = @ + k * cost]
           /\ hashLeft' = hashLeft - k /\ hashAvail' = hashAvail - k
           /\ btPos' = btPos + k /\ btPtr' = btPtr + k
  /\ UNCHANGED <<docVars, res, faults, pc, sync, cs, windowVars, hashVars, hashBi, btBuf, btIndex,
                 lzPtr, lzVars>>

\* The block is full: the section is left and the block handed on.
BtEnd ==
  /\ pc["bt"] = "end" \/ (pc["bt"] = "fill" /\ d.words >= Limit)
  /\ btBuf' = [btBuf EXCEPT ![btIndex] = [at |-> d.at, n |-> d.n, avail |-> d.avail]]
  /\ btIndex' = (btIndex + 1) % BtBlocks
  /\ cs' = [cs EXCEPT !["hash"] = "none"]
  /\ sync' = [sync EXCEPT !["bt"].filled = Released(@, "bt")]
  /\ Goto("bt", "free")
  /\ UNCHANGED <<docVars, res, faults, windowVars, hashVars, hashLeft, hashAvail, hashBi, d,
                 ptrVars, lzVars>>

\* MtSync_StopWriting(&mt->hashSync), if the hash thread was ever asked
BtStop ==
  /\ pc["bt"] = "stop"
  /\ IF sync["hash"].needStart THEN Goto("bt", "stopped") /\ UNCHANGED <<sync, cs>>
     ELSE AskStop("bt", "hash", "stopping")
  /\ UNCHANGED <<docVars, res, faults, windowVars, hashVars, btVars, ptrVars, lzVars>>

BtStopEnds ==
  /\ pc["bt"] = "stopping"
  /\ Stopped("bt", "hash", "stopped")
  /\ UNCHANGED <<docVars, res, faults, windowVars, hashVars, btVars, ptrVars, lzVars>>

BtStopped ==
  /\ pc["bt"] = "stopped"
  /\ sync' = [sync EXCEPT !["bt"].wasStopped = TRUE]
  /\ Goto("bt", "start")
  /\ UNCHANGED <<docVars, res, faults, cs, windowVars, hashVars, btVars, ptrVars, lzVars>>

-----------------------------------------------------------------------------
(* The hash thread: HashThreadFunc *)

\* MatchFinder_NeedMove
NeedMove == ~streamEnd /\ base + Window - pos <= KeepAfter

HashStart ==
  /\ pc["hash"] = "start"
  /\ Started("hash", "loop")
  /\ UNCHANGED <<docVars, res, faults, windowVars, hashVars, btVars, ptrVars, lzVars>>

\* Both sections are entered, the one of the lz thread first ...
HashEnter ==
  /\ pc["hash"] = "loop" /\ NeedMove
  /\ cs["bt"] = "none" /\ cs' = [cs EXCEPT !["bt"] = "hash"]
  /\ Goto("hash", "move")
  /\ UNCHANGED <<docVars, res, faults, sync, windowVars, hashVars, btVars, ptrVars, lzVars>>

\* ... and the window moved, and with it the pointers of the others.
HashMove ==
  /\ pc["hash"] = "move" /\ cs["hash"] = "none"
  /\ LET offset == pos - base - KeepBefore
         shift == offset - (offset % Align)
     IN  base' = base + shift /\ lzPtr' = lzPtr - shift /\ btPtr' = btPtr - shift
  /\ cs' = [cs EXCEPT !["bt"] = "none"]
  /\ Goto("hash", "loop")
  /\ UNCHANGED <<docVars, res, faults, sync, streamPos, streamEnd, hashVars, btVars, btPos, lzVars>>

\* A free block, or the word to stop.
HashFree ==
  /\ pc["hash"] = "loop" /\ ~NeedMove
  /\ TakeFree("hash")
  /\ IF sync["hash"].stopWriting THEN Goto("hash", "stopped") /\ UNCHANGED hashBuf
     ELSE /\ Goto("hash", "read")
          /\ hashBuf' = [hashBuf EXCEPT ![hashIndex].at = None]
  /\ UNCHANGED <<docVars, res, faults, cs, windowVars, pos, hashIndex, btVars, ptrVars, lzVars>>

\* MatchFinder_ReadIfRequired.  The end is only noticed by a read that gives nothing.
Read ==
  IF streamEnd \/ streamPos - pos > KeepAfter THEN UNCHANGED <<streamPos, streamEnd>>
  ELSE LET room == base + Window - streamPos
           more == IF room < size - streamPos THEN room ELSE size - streamPos
       IN  /\ streamPos' = streamPos + more
           /\ streamEnd' = (room > 0 /\ streamPos' - pos <= KeepAfter)

\* How many of num positions have a head
Heads(num) == IF num < NumHash THEN 0
              ELSE IF num - NumHash + 1 > HashBlock - 2 THEN HashBlock - 2 ELSE num - NumHash + 1

\* The heads of the next positions are handed on.
HashRead ==
  /\ pc["hash"] = "read"
  /\ Read
  /\ LET num == streamPos' - pos
     IN  /\ hashBuf' = [hashBuf EXCEPT ![hashIndex] = [at |-> pos, n |-> Heads(num), avail |-> num]]
         /\ pos' = pos + (IF num < NumHash THEN num ELSE Heads(num))
  /\ hashIndex' = (hashIndex + 1) % HashBlocks
  /\ sync' = [sync EXCEPT !["hash"].filled = Released(@, "hash")]
  /\ Goto("hash", "loop")
  /\ UNCHANGED <<docVars, res, faults, cs, base, btVars, ptrVars, lzVars>>

HashStopped ==
  /\ pc["hash"] = "stopped"
  /\ sync' = [sync EXCEPT !["hash"].wasStopped = TRUE]
  /\ Goto("hash", "start")
  /\ UNCHANGED <<docVars, res, faults, cs, windowVars, hashVars, btVars, ptrVars, lzVars>>

-----------------------------------------------------------------------------
Lz == Header \/ EncodeAlone \/ Create \/ Ask \/ Take \/ Encode \/ Flush \/ Stop \/ StopEnds
      \/ Footer \/ Exit \/ Join
Bt == BtStart \/ BtFree \/ BtLock \/ BtAsk \/ BtTake \/ BtMatch \/ BtEnd \/ BtStop \/ BtStopEnds
      \/ BtStopped
Hash == HashStart \/ HashEnter \/ HashMove \/ HashFree \/ HashRead \/ HashStopped

Done == pc["lz"] = "done" /\ UNCHANGED vars

Next == Lz \/ Bt \/ Hash \/ Done

Spec == Init /\ [][Next]_vars /\ WF_vars(Lz) /\ WF_vars(Bt) /\ WF_vars(Hash)

-----------------------------------------------------------------------------
(* Properties *)

Before(p, back) == IF p < back THEN 0 ELSE p - back

\* LzFindMt.c: a block is looked at whole and in turn.  What the lz thread encodes begins
\* where it stands and was not taken up again by the bt thread, the heads the bt thread has
\* left are those of the position it stands at, and no block of matches is longer than its
\* place in the buffer, where the next block begins.
InOrder ==
  /\ pc["lz"] = "encode" =>
       /\ btBuf[btBi].at # None
       /\ btBuf[btBi].n > 0 => btBuf[btBi].at = lzPos
  /\ hashLeft > 0 => hashBuf[hashBi].at + hashBuf[hashBi].n - hashLeft = btPos
                     /\ hashBuf[hashBi].at # None
  /\ d.words <= BtBlock

\* LzFindMt.c, LzFind.c: while the hash thread moves the window, the others find in it what
\* they work on: the bytes ahead, the dictionary behind, and for the encoder the kNumOpts
\* positions it lags behind; and their pointers are where their positions are.
WindowHolds ==
  /\ pc["lz"] = "encode" =>
       /\ lzPtr = lzPos - base
       /\ base <= Before(lzPos, History + Opts)
       /\ lzPos + btBuf[btBi].avail <= streamPos
  /\ pc["bt"] = "fill" =>
       /\ btPtr = btPos - base
       /\ base <= Before(btPos, History)
       /\ btPos + hashAvail <= streamPos

\* compress.c, zmatlib.c: an answer of success has encoded the whole document, and its
\* footer the checksum of it all, taken while nobody reads; it is given exactly when nothing
\* failed, and with the threads gone.
WholeOrError ==
  /\ pc["lz"] = "footer" => pc["bt"] \in {"none", "start"} /\ pc["hash"] \in {"none", "start"}
  /\ pc["lz"] = "done" =>
       /\ res = "ok" <=> faults = 0
       /\ res = "ok" => lzPos = size /\ footed = size
       /\ pc["bt"] = "none" /\ pc["hash"] = "none"

\* LzFindMt.c: whenever the encoder stops, at the end or at a failed write, the two threads
\* that run ahead of it are found, stopped and joined.
Termination == <>(pc["lz"] = "done")
=============================================================================
