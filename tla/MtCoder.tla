------------------------------ MODULE MtCoder ------------------------------
(***************************************************************************)
(* The writer of an xz stream: xzCompress, XzEnc_Encode and, with more than *)
(* one thread, MtCoder_Code under it.                                       *)
(*                                                                          *)
(* The coder threads take turns at reading (readEvent): the one whose turn  *)
(* it is reads a block, takes a place in a ring of blocks, creates the next *)
(* thread and hands the turn on; then it codes its block into an output     *)
(* buffer.  Whoever finishes the block that is next in the stream writes it *)
(* and all finished ones after it.  The last thread to finish wakes the     *)
(* caller, which then stops and joins them all.                             *)
(*                                                                          *)
(* A block is the place and the length of its input; that the LZMA2 encoder *)
(* fails is a choice.  Events, semaphores and critical sections do not      *)
(* fail; memory, threads, the encoder and the output callback do.           *)
(***************************************************************************)
EXTENDS Integers, Sequences, FiniteSets, FiniteSetsExt

CONSTANTS MaxThreads,  \* the largest nthread
          Sizes,       \* sizes of the documents
          MinBlock,    \* 1 << 20
          Widths,      \* 1 << 22, 1 << 24, 1 << 26
          Faults       \* bound on the failures of one call

ASSUME MtCoderAssumption ==
  /\ {MaxThreads, MinBlock} \subseteq Nat \ {0} /\ Faults \in Nat
  /\ Sizes \subseteq Nat \ {0} /\ IsFiniteSet(Widths) /\ Widths \subseteq Nat

Threads == 1 .. MaxThreads

VARIABLES
  inputsize, nthread,
  main,        \* where the caller is
  tid,         \* the thread it is joining
  rc,          \* its answer: "ok" or "error"
  pc,          \* where a thread is; "none" is a thread that does not exist
  my,          \* its locals: res, finished, src, bi, bufIndex, wi, isReady, numFinished
  start,       \* t->startEvent
  stop,        \* t->stop
  turn,        \* mtc->readEvent
  stopReading, readProcessed, blockIndex, numStarted, numFinished,
  sem,         \* blocksSemaphore
  freeList,    \* freeBlockList from its head, as many as there are places
  writeIndex, ready, blocks,
  enc,         \* EncBlocks and outBufs: what each output buffer holds
  progress,    \* mtProgress.res
  readRes, writeRes,
  finishedEvent,
  out,         \* the blocks in the output
  index,       \* the blocks in xzIndex
  ended,       \* the index and the footer are written
  faults       \* failures so far

turnVars == <<stopReading, readProcessed, blockIndex, numStarted, readRes>>
csVars == <<freeList, writeIndex, ready>>
streamVars == <<out, index>>
endVars == <<numFinished, finishedEvent>>
threadVars == <<start, stop>>
mainVars == <<main, tid, rc, ended>>
constVars == <<inputsize, nthread>>
vars == <<constVars, mainVars, pc, my, threadVars, turn, turnVars, sem, csVars, blocks, enc,
          progress, writeRes, endVars, streamVars, faults>>

None == -1
Empty == [at |-> 0, len |-> 0]

-----------------------------------------------------------------------------
(* The blocks of the document *)

\* A faulty split: rounded down.
BlockSizeDown == Max({inputsize \div nthread, MinBlock})

BlockSize == Max({(inputsize + nthread - 1) \div nthread, MinBlock})

\* numBlocksMax: the places in the ring.
NumBlocks == nthread + nthread \div 8 + 1 + Cardinality({w \in Widths : BlockSize < w})
Ring == 0 .. (NumBlocks - 1)
After(i) == (i + 1) % NumBlocks

\* SeqInStream_ReadMax: what the next read gives.
Read == [at |-> readProcessed, len |-> Min({BlockSize, inputsize - readProcessed})]

\* The blocks a stream of the whole document has.
Whole ==
  LET n == (inputsize + BlockSize - 1) \div BlockSize
  IN  [k \in 1 .. n |-> [at |-> (k - 1) * BlockSize,
                         len |-> Min({BlockSize, inputsize - (k - 1) * BlockSize})]]

MayFail == faults < Faults
Fails == MayFail /\ faults' = faults + 1
Works == UNCHANGED faults

Goto(t, label) == pc' = [pc EXCEPT ![t] = label]

Fresh == [res |-> "ok", finished |-> FALSE, src |-> Empty, bi |-> 0, bufIndex |-> None,
          wi |-> 0, isReady |-> FALSE, numFinished |-> 0]

Init ==
  /\ inputsize \in Sizes /\ nthread \in Threads
  /\ main = "create" /\ tid = 1 /\ rc = "none"
  /\ pc = [t \in Threads |-> "none"] /\ my = [t \in Threads |-> Fresh]
  /\ start = [t \in Threads |-> FALSE] /\ stop = [t \in Threads |-> FALSE]
  /\ turn = FALSE /\ stopReading = FALSE /\ readProcessed = 0 /\ blockIndex = 0
  /\ numStarted = 0 /\ numFinished = 0
  /\ sem = NumBlocks
  /\ freeList = [i \in 1 .. NumBlocks |-> i - 1]
  /\ writeIndex = 0 /\ ready = {}
  /\ blocks = [i \in Ring |-> [res |-> "ok", bufIndex |-> None, finished |-> FALSE]]
  /\ enc = [i \in Ring |-> Empty]
  /\ progress = "ok" /\ readRes = "ok" /\ writeRes = "ok" /\ finishedEvent = FALSE
  /\ out = <<>> /\ index = <<>> /\ ended = FALSE /\ faults = 0

-----------------------------------------------------------------------------
(* The caller *)

\* xzCompress up to XzEnc_Encode's choice: the encoder, the index and the header.
Open ==
  /\ main = "create"
  /\ \/ Works /\ main' = (IF nthread > 1 THEN "first" ELSE "serial") /\ UNCHANGED rc
     \/ Fails /\ main' = "stop" /\ rc' = "error"
  /\ UNCHANGED <<constVars, tid, ended, pc, my, threadVars, turn, turnVars, sem, csVars, blocks,
                 enc, progress, writeRes, endVars, streamVars>>

\* XzEnc_Encode with one thread: block after block until a read gives nothing.  A
\* block that the limit ends is followed by another, of no bytes if need be.
Serial ==
  /\ main = "serial"
  /\ \/ /\ Works
        /\ LET padded == IF inputsize % BlockSize = 0
                           THEN Append(Whole, [at |-> inputsize, len |-> 0]) ELSE Whole
           IN  out' = padded /\ index' = padded
        /\ main' = "footer" /\ UNCHANGED rc
     \/ Fails /\ main' = "stop" /\ rc' = "error" /\ UNCHANGED streamVars
  /\ UNCHANGED <<constVars, tid, ended, pc, my, threadVars, turn, turnVars, sem, csVars, blocks,
                 enc, progress, writeRes, endVars>>

\* MtCoderThread_CreateAndStart
Starts(t) == Goto(t, "start") /\ start' = [start EXCEPT ![t] = TRUE]

\* MtCoder_Code: one thread is created, and it may read.
First ==
  /\ main = "first"
  /\ numStarted' = 1
  /\ \/ Works /\ Starts(1) /\ turn' = TRUE /\ main' = "wait" /\ UNCHANGED rc
     \/ Fails /\ main' = "stop" /\ rc' = "error" /\ UNCHANGED <<pc, start, turn>>
  /\ UNCHANGED <<constVars, tid, ended, my, stop, stopReading, readProcessed, blockIndex, readRes,
                 sem, csVars, blocks, enc, progress, writeRes, endVars, streamVars>>

\* A faulty end: the caller looks only at what the writer says.
WaitWriteOnly ==
  /\ main = "wait" /\ finishedEvent
  /\ finishedEvent' = FALSE
  /\ IF writeRes = "ok" THEN main' = "footer" /\ UNCHANGED rc
     ELSE main' = "stop" /\ rc' = "error"
  /\ UNCHANGED <<constVars, tid, ended, pc, my, threadVars, turn, turnVars, sem, csVars, blocks,
                 enc, progress, writeRes, numFinished, streamVars, faults>>

\* ... waits for finishedEvent and collects the results.
Wait ==
  /\ main = "wait" /\ finishedEvent
  /\ finishedEvent' = FALSE
  /\ IF readRes = "ok" /\ progress = "ok" /\ writeRes = "ok" THEN main' = "footer" /\ UNCHANGED rc
     ELSE main' = "stop" /\ rc' = "error"
  /\ UNCHANGED <<constVars, tid, ended, pc, my, threadVars, turn, turnVars, sem, csVars, blocks,
                 enc, progress, writeRes, numFinished, streamVars, faults>>

\* XzEncIndex_WriteFooter
WriteFooter ==
  /\ main = "footer" /\ main' = "stop"
  /\ \/ Works /\ ended' = TRUE /\ rc' = "ok"
     \/ Fails /\ rc' = "error" /\ UNCHANGED ended
  /\ UNCHANGED <<constVars, tid, pc, my, threadVars, turn, turnVars, sem, csVars, blocks, enc,
                 progress, writeRes, endVars, streamVars>>

\* MtCoder_Free (or MtCoder_Destruct): each thread there is is told to stop ...
Stop ==
  /\ main = "stop" /\ tid <= MaxThreads
  /\ IF pc[tid] = "none" THEN tid' = tid + 1 /\ UNCHANGED <<main, threadVars>>
     ELSE /\ stop' = [stop EXCEPT ![tid] = TRUE] /\ start' = [start EXCEPT ![tid] = TRUE]
          /\ main' = "join" /\ UNCHANGED tid
  /\ UNCHANGED <<constVars, rc, ended, pc, my, turn, turnVars, sem, csVars, blocks, enc, progress,
                 writeRes, endVars, streamVars, faults>>

\* ... and joined.
Join ==
  /\ main = "join" /\ pc[tid] = "gone"
  /\ main' = "stop" /\ tid' = tid + 1
  /\ UNCHANGED <<constVars, rc, ended, pc, my, threadVars, turn, turnVars, sem, csVars, blocks,
                 enc, progress, writeRes, endVars, streamVars, faults>>

\* XzEnc_Destroy frees the buffers and xzCompress, on an error, the output.
Return ==
  /\ main = "stop" /\ tid > MaxThreads
  /\ main' = "done"
  /\ UNCHANGED <<constVars, tid, rc, ended, pc, my, threadVars, turn, turnVars, sem, csVars,
                 blocks, enc, progress, writeRes, endVars, streamVars, faults>>

-----------------------------------------------------------------------------
(* ThreadFunc2: reading, in turn *)

SetMy(t, r) == my' = [my EXCEPT ![t] = r]

Begin(t) ==
  /\ pc[t] = "start" /\ start[t]
  /\ start' = [start EXCEPT ![t] = FALSE]
  /\ Goto(t, IF stop[t] THEN "gone" ELSE "turn")
  /\ UNCHANGED <<constVars, mainVars, my, stop, turn, turnVars, sem, csVars, blocks, enc,
                 progress, writeRes, endVars, streamVars, faults>>

\* Its turn, but there is nothing left to read: the next one is to see that too.
TurnOver(t) ==
  /\ pc[t] = "turn" /\ turn /\ stopReading
  /\ Goto(t, "finish")
  /\ UNCHANGED <<constVars, mainVars, my, threadVars, turn, turnVars, sem, csVars, blocks, enc,
                 progress, writeRes, endVars, streamVars, faults>>

\* A block is read into the thread's buffer, unless another has failed already or
\* there is no memory for the buffer.
ReadBlock(t) ==
  /\ pc[t] = "turn" /\ turn /\ ~stopReading
  /\ turn' = FALSE
  /\ Goto(t, "reserve")
  /\ \/ /\ progress = "ok" /\ Works
        /\ readProcessed' = readProcessed + Read.len
        /\ SetMy(t, [Fresh EXCEPT !.src = Read, !.finished = Read.len # BlockSize])
        /\ UNCHANGED <<readRes, progress>>
     \/ /\ progress = "ok" /\ Fails
        /\ readRes' = "error" /\ progress' = "error"
        /\ SetMy(t, [Fresh EXCEPT !.res = "error", !.finished = TRUE])
        /\ UNCHANGED readProcessed
     \/ /\ progress # "ok" /\ Works
        /\ SetMy(t, [Fresh EXCEPT !.res = "error", !.finished = TRUE])
        /\ UNCHANGED <<readProcessed, readRes, progress>>
  /\ UNCHANGED <<constVars, mainVars, threadVars, stopReading, blockIndex, numStarted, sem, csVars,
                 blocks, enc, writeRes, endVars, streamVars>>

NeedsThread(r) == ~r.finished /\ numStarted < nthread /\ readProcessed # inputsize

\* A place in the ring is waited for while the turn is held; then the progress is
\* asked again, the next thread created, and the turn handed on.
HandOn(t) ==
  /\ pc[t] = "reserve" /\ sem > 0
  /\ sem' = sem - 1
  /\ blockIndex' = After(blockIndex)
  /\ turn' = TRUE
  /\ LET bad == [my[t] EXCEPT !.bi = blockIndex, !.res = "error", !.finished = TRUE]
         good == [my[t] EXCEPT !.bi = blockIndex]
         r == IF progress = "ok" THEN good ELSE bad
     IN  \/ /\ ~NeedsThread(r) /\ Works
            /\ SetMy(t, r) /\ stopReading' = r.finished
            /\ Goto(t, IF r.res = "ok" THEN "take" ELSE "publish")
            /\ UNCHANGED <<start, numStarted, progress>>
         \/ /\ NeedsThread(r) /\ Works
            /\ SetMy(t, r) /\ stopReading' = r.finished
            /\ pc' = [pc EXCEPT ![t] = "take", ![numStarted + 1] = "start"]
            /\ start' = [start EXCEPT ![numStarted + 1] = TRUE]
            /\ numStarted' = numStarted + 1
            /\ UNCHANGED progress
         \/ /\ NeedsThread(r) /\ Fails
            /\ SetMy(t, bad) /\ stopReading' = TRUE
            /\ progress' = "error"
            /\ Goto(t, "publish")
            /\ UNCHANGED <<start, numStarted>>
  /\ UNCHANGED <<constVars, mainVars, stop, readProcessed, readRes, csVars, blocks, enc, writeRes,
                 endVars, streamVars>>

-----------------------------------------------------------------------------
(* ThreadFunc2: coding *)

\* A faulty list: the head is read and not moved.
TakeBufferTwice(t) ==
  /\ pc[t] = "take"
  /\ SetMy(t, [my[t] EXCEPT !.bufIndex = Head(freeList)])
  /\ Goto(t, "code")
  /\ UNCHANGED <<constVars, mainVars, threadVars, turn, turnVars, sem, csVars, blocks, enc,
                 progress, writeRes, endVars, streamVars, faults>>

TakeBuffer(t) ==
  /\ pc[t] = "take"
  /\ SetMy(t, [my[t] EXCEPT !.bufIndex = Head(freeList)])
  /\ freeList' = Tail(freeList)
  /\ Goto(t, "code")
  /\ UNCHANGED <<constVars, mainVars, threadVars, turn, turnVars, sem, writeIndex, ready, blocks,
                 enc, progress, writeRes, endVars, streamVars, faults>>

\* XzEnc_MtCallback_Code: an empty block is left out.
Code(t) ==
  /\ pc[t] = "code"
  /\ Goto(t, "publish")
  /\ \/ /\ Works
        /\ enc' = [enc EXCEPT ![my[t].bufIndex] = my[t].src]
        /\ UNCHANGED <<my, progress>>
     \/ /\ my[t].src.len > 0 /\ Fails
        /\ enc' = [enc EXCEPT ![my[t].bufIndex] = Empty]
        /\ SetMy(t, [my[t] EXCEPT !.res = "error"]) /\ progress' = "error"
  /\ UNCHANGED <<constVars, mainVars, threadVars, turn, turnVars, sem, csVars, blocks, writeRes,
                 endVars, streamVars>>

\* Where a thread goes with the block it has done.
OnWith(r) == IF r.finished \/ r.res # "ok" THEN "finish" ELSE "turn"

\* A faulty turn of the writers: every block is written by the thread that coded it.
PublishAtOnce(t) ==
  /\ pc[t] = "publish"
  /\ blocks' = [blocks EXCEPT ![my[t].bi] =
                  [res |-> my[t].res, bufIndex |-> my[t].bufIndex, finished |-> my[t].finished]]
  /\ writeIndex' = None
  /\ SetMy(t, [my[t] EXCEPT !.wi = my[t].bi])
  /\ Goto(t, "write")
  /\ UNCHANGED <<constVars, mainVars, threadVars, turn, turnVars, sem, freeList, ready, enc,
                 progress, writeRes, endVars, streamVars, faults>>

\* The record of the block, and then in the critical section: the thread writes if its
\* block is the next in the stream, or leaves it to whoever writes the one before.
Publish(t) ==
  /\ pc[t] = "publish"
  /\ blocks' = [blocks EXCEPT ![my[t].bi] =
                  [res |-> my[t].res, bufIndex |-> my[t].bufIndex, finished |-> my[t].finished]]
  /\ IF writeIndex = my[t].bi
       THEN /\ writeIndex' = None /\ UNCHANGED ready
            /\ SetMy(t, [my[t] EXCEPT !.wi = my[t].bi,
                                      !.res = IF writeRes # "ok" THEN writeRes ELSE @])
            /\ Goto(t, "write")
       ELSE /\ ready' = ready \cup {my[t].bi}
            /\ Goto(t, OnWith(my[t])) /\ SetMy(t, Fresh)
            /\ UNCHANGED writeIndex
  /\ UNCHANGED <<constVars, mainVars, threadVars, turn, turnVars, sem, freeList, enc, progress,
                 writeRes, endVars, streamVars, faults>>

-----------------------------------------------------------------------------
(* ThreadFunc2: writing, one thread at a time *)

\* XzEnc_MtCallback_Write: the block and its record in the index; either may fail.
Write(t) ==
  /\ pc[t] = "write"
  /\ Goto(t, "next")
  /\ LET r == my[t]
         block == enc[r.bufIndex]
         writes == r.res = "ok" /\ r.bufIndex # None /\ block.len > 0
     IN  \/ /\ ~writes /\ Works
            /\ UNCHANGED <<my, progress, writeRes, streamVars>>
         \/ /\ writes /\ Works
            /\ out' = Append(out, block) /\ index' = Append(index, block)
            /\ UNCHANGED <<my, progress, writeRes>>
         \/ /\ writes /\ Fails
            /\ out' \in {out, Append(out, block)} /\ UNCHANGED index
            /\ SetMy(t, [r EXCEPT !.res = "error"])
            /\ progress' = "error" /\ writeRes' = "error"
  /\ UNCHANGED <<constVars, mainVars, threadVars, turn, turnVars, sem, csVars, blocks, enc,
                 endVars>>

\* In the critical section: the buffer is free again, and the next block is this
\* thread's too if it is ready.
NextBlock(t) ==
  /\ pc[t] = "next"
  /\ LET r == my[t]
         wi == After(r.wi)
     IN  /\ freeList' = IF r.bufIndex = None THEN freeList ELSE <<r.bufIndex>> \o freeList
         /\ ready' = ready \ {wi}
         /\ writeIndex' = IF wi \in ready THEN writeIndex ELSE wi
         /\ SetMy(t, [r EXCEPT !.wi = wi, !.isReady = wi \in ready])
  /\ Goto(t, "release")
  /\ UNCHANGED <<constVars, mainVars, threadVars, turn, turnVars, sem, blocks, enc, progress,
                 writeRes, endVars, streamVars, faults>>

\* The place in the ring is given back, and the next block adopted with its result.
Release(t) ==
  /\ pc[t] = "release"
  /\ sem' = sem + 1
  /\ LET r == my[t]
         b == blocks[r.wi]
     IN  IF r.isReady
           THEN /\ SetMy(t, [r EXCEPT !.res = IF @ = "ok" THEN b.res ELSE @,
                                      !.bufIndex = b.bufIndex, !.finished = b.finished])
                /\ Goto(t, "write")
           ELSE Goto(t, OnWith(r)) /\ SetMy(t, Fresh)
  /\ UNCHANGED <<constVars, mainVars, threadVars, turn, turnVars, csVars, blocks, enc, progress,
                 writeRes, endVars, streamVars, faults>>

-----------------------------------------------------------------------------
(* ThreadFunc: the last one wakes the caller *)

Finish(t) ==
  /\ pc[t] = "finish"
  /\ numFinished' = numFinished + 1
  /\ SetMy(t, [my[t] EXCEPT !.numFinished = numFinished + 1])
  /\ Goto(t, "compare")
  /\ UNCHANGED <<constVars, mainVars, threadVars, turn, turnVars, sem, csVars, blocks, enc,
                 progress, writeRes, finishedEvent, streamVars, faults>>

\* A faulty count: every thread there may be is waited for.
CompareAll(t) ==
  /\ pc[t] = "compare"
  /\ finishedEvent' = (finishedEvent \/ my[t].numFinished = nthread)
  /\ Goto(t, "start") /\ SetMy(t, Fresh)
  /\ UNCHANGED <<constVars, mainVars, threadVars, turn, turnVars, sem, csVars, blocks, enc,
                 progress, writeRes, numFinished, streamVars, faults>>

\* A faulty test: the event is set when there is nothing left to read.
CompareEarly(t) ==
  /\ pc[t] = "compare"
  /\ finishedEvent' = (finishedEvent \/ stopReading)
  /\ Goto(t, "start") /\ SetMy(t, Fresh)
  /\ UNCHANGED <<constVars, mainVars, threadVars, turn, turnVars, sem, csVars, blocks, enc,
                 progress, writeRes, numFinished, streamVars, faults>>

Compare(t) ==
  /\ pc[t] = "compare"
  /\ finishedEvent' = (finishedEvent \/ my[t].numFinished = numStarted)
  /\ Goto(t, "start") /\ SetMy(t, Fresh)
  /\ UNCHANGED <<constVars, mainVars, threadVars, turn, turnVars, sem, csVars, blocks, enc,
                 progress, writeRes, numFinished, streamVars, faults>>

-----------------------------------------------------------------------------
Caller == Open \/ Serial \/ First \/ Wait \/ WriteFooter \/ Stop \/ Join \/ Return

Thread(t) ==
  \/ Begin(t) \/ TurnOver(t) \/ ReadBlock(t) \/ HandOn(t)
  \/ TakeBuffer(t) \/ Code(t) \/ Publish(t)
  \/ Write(t) \/ NextBlock(t) \/ Release(t)
  \/ Finish(t) \/ Compare(t)

Done == main = "done" /\ UNCHANGED vars

Next == Caller \/ (\E t \in Threads : Thread(t)) \/ Done

\* The scheduler lets the caller and every thread run on.
Spec == Init /\ [][Next]_vars /\ WF_vars(Caller) /\ \A t \in Threads : WF_vars(Thread(t))

-----------------------------------------------------------------------------
(* Properties *)

\* xzCompress answers 0 exactly when nothing failed, and then the stream has every
\* block of the document once and in order, its index says the same, and the index
\* and the footer are there, whoever wrote what when.  Only the loop of one thread
\* may add a block, an empty one.
WholeOrError ==
  main = "done" =>
    IF faults > 0 THEN rc = "error"
    ELSE /\ rc = "ok" /\ ended /\ index = out
         /\ \/ out = Whole
            \/ nthread = 1 /\ out = Append(Whole, [at |-> inputsize, len |-> 0])

\* The buffers a thread codes into or writes from.
HeldBy(t) == IF pc[t] \in {"code", "publish", "write", "next"}
               THEN {my[t].bufIndex} \ {None} ELSE {}
\* The blocks done and not yet adopted.
Waiting == ready \cup {my[t].wi : t \in {u \in Threads : pc[u] = "release" /\ my[u].isReady}}

\* An output buffer is free, or one thread's, or one finished block's, and none is
\* lost: no two threads code into the same one, none is coded into while it is being
\* written, and the list is never empty when one is taken.  One thread at a time
\* writes.
BuffersApart ==
  main = "wait" =>
    LET free == {freeList[i] : i \in 1 .. Len(freeList)}
        stored == {blocks[b].bufIndex : b \in Waiting} \ {None}
        held == UNION {HeldBy(t) : t \in Threads}
    IN  /\ \A t, u \in Threads : t # u => HeldBy(t) \cap HeldBy(u) = {}
        /\ free \cap held = {} /\ free \cap stored = {} /\ held \cap stored = {}
        /\ free \cup held \cup stored = Ring
        /\ \A t \in Threads : pc[t] = "take" => freeList # <<>>
        /\ \A t, u \in Threads :
             pc[t] \in {"write", "next"} /\ pc[u] \in {"write", "next"} => t = u

\* Once MtCoder_Code has passed its wait no thread touches the stream, the index or a
\* buffer, although some may still be on their way back to their start event: the
\* caller appends the footer to the output then, and frees it all.
QuietAtEnd ==
  main \in {"footer", "stop", "join", "done"} =>
    \A t \in Threads : pc[t] \in {"none", "start", "compare", "gone"}

\* A read never waits for a place in the ring: xzCompress splits the input so that
\* there are no more blocks than threads, and with the empty read after the last
\* whole block the places suffice.
TurnNeverWaits == \A t \in Threads : pc[t] = "reserve" => sem > 0

\* xzCompress returns, with every thread it created joined, whatever fails.
Termination == <>(main = "done" /\ \A t \in Threads : pc[t] \in {"none", "gone"})
=============================================================================
