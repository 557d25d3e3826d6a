------------------------------ MODULE BloscPool ------------------------------
(***************************************************************************)
(* The threads behind the blosc2 methods.  zmat_run calls blosc2's global    *)
(* interface: blosc2_set_nthreads and blosc1_compress on compression,        *)
(* blosc1_decompress on decompression.  The pool belongs to the process and  *)
(* outlives the call; a compression that asks for another number of threads *)
(* replaces it, a decompression takes the one it finds.                     *)
(*                                                                          *)
(* The caller (process 0) and the workers meet at two barriers around every *)
(* job, posix barriers where the platform has them and a counter with a     *)
(* condition variable where it does not.  Between them the workers share    *)
(* thread_nblock, output_bytes and thread_giveup_code.                      *)
(*                                                                          *)
(* What a block compresses to is external.  Every thread asked for is       *)
(* created, and a condition variable wakes only when signalled.             *)
(***************************************************************************)
EXTENDS Integers, Sequences, FiniteSets, FiniteSetsExt

CONSTANTS MaxThreads,  \* the largest nthread
          Sizes,       \* sizes of the documents
          BlockSize,   \* context->blocksize
          Results,     \* what the blocks of a document give, one after another: what
                       \* each compresses to, 0 if it does not, below 0 an error
          Header,      \* BLOSC2_MAX_OVERHEAD, also the length of the header
          MinBuffer,   \* BLOSC_MIN_BUFFERSIZE
          Calls        \* bound on the calls of one process

ASSUME BloscAssumption ==
  /\ {MaxThreads, BlockSize, Header, Calls} \subseteq Nat \ {0}
  /\ Sizes \subseteq Nat \ {0} /\ MinBuffer \in Nat
  /\ Results \subseteq Seq(Int)

Caller == 0
Workers == 1 .. MaxThreads
Procs == {Caller} \cup Workers
Barriers == {"init", "finish"}

VARIABLES
  posix,        \* BLOSC_POSIX_BARRIERS
  g_nthreads,   \* the count last asked for
  nthreads,     \* context->nthreads
  new_nthreads, \* context->new_nthreads
  started,      \* context->threads_started
  end_threads,  \* context->end_threads
  width,        \* what the posix barriers were initialised with
  arrived,      \* who has arrived at each posix barrier
  count,        \* context->count_threads
  asleep,       \* where a process waits, or "no"
  pc,           \* where a process is; "none" is a thread that does not exist
  onto,         \* where the caller goes after check_nthreads
  tid,          \* the caller's loop over the threads
  job,          \* the call being served
  memcpyed,     \* BLOSC_MEMCPYED
  ncalls,       \* calls made
  giveup,       \* context->thread_giveup_code
  next,         \* context->thread_nblock
  out,          \* context->output_bytes
  block,        \* nblock_ of each worker
  limit,        \* tblock of each worker
  took,         \* the block a worker is about to copy, and ntdest
  bstarts,      \* where each block begins in the stream, or Unset
  filled,       \* the places each block's bytes were written to
  ans           \* ntbytes, the answer in the end

poolVars == <<g_nthreads, nthreads, new_nthreads, started, end_threads, width>>
syncVars == <<arrived, count, asleep>>
jobVars == <<job, memcpyed, ncalls, ans>>
sharedVars == <<giveup, next, out, bstarts, filled>>
workerVars == <<block, limit, took>>
callerVars == <<onto, tid>>
vars == <<posix, poolVars, syncVars, jobVars, sharedVars, workerVars, callerVars, pc>>

Unset == -1
Pending == -99

-----------------------------------------------------------------------------
(* The job *)

NBlocks == Len(job.gives)
Blocks == 0 .. (NBlocks - 1)

\* zmat_run gives inputsize + BLOSC2_MAX_OVERHEAD bytes.
DestSize == job.size + Header

BSize(b) == IF b = NBlocks - 1 /\ job.size % BlockSize > 0 THEN job.size % BlockSize
            ELSE BlockSize

Compressing == job.op = "compress"

\* Where the first block goes: after the header and, unless the blocks are only
\* copied, the table of their starts.
Base(copying) == IF ~Compressing THEN 0 ELSE IF copying THEN Header ELSE Header + NBlocks

Gives(b) == job.gives[b + 1]

\* What memcpy, blosc_c or blosc_d answers for block b.
CBytes(b) ==
  IF (Compressing /\ memcpyed) \/ (~Compressing /\ Gives(b) > 0) THEN BSize(b)
  ELSE Gives(b)

\* The bytes of the blocks before b.
Before(b) == MapThenSumSet(CBytes, 0 .. (b - 1))

Count(size) == (size + BlockSize - 1) \div BlockSize
Jobs == {j \in [op : {"compress", "decompress"}, size : Sizes, gives : Results] :
           /\ Len(j.gives) = Count(j.size)
           /\ j.op = "decompress" => \A k \in DOMAIN j.gives : j.gives[k] # 0}

Goto(p, label) == pc' = [pc EXCEPT ![p] = label]
At(p, label) == pc[p] = label /\ asleep[p] = "no"

-----------------------------------------------------------------------------
(* WAIT_INIT and WAIT_FINISH *)

LastAt(barrier) ==
  IF posix THEN arrived[barrier] + 1 = width
  ELSE IF barrier = "init" THEN count >= nthreads ELSE count <= 0

\* A faulty broadcast: one waiter is signalled.
ArriveSignals(p, barrier, then) ==
  /\ Goto(p, then)
  /\ arrived' = IF posix THEN [arrived EXCEPT ![barrier] = (@ + 1) % width] ELSE arrived
  /\ count' = IF posix \/ LastAt(barrier) THEN count
              ELSE IF barrier = "init" THEN count + 1 ELSE count - 1
  /\ IF LastAt(barrier)
       THEN \E q \in Procs : asleep[q] = barrier /\ asleep' = [asleep EXCEPT ![q] = "no"]
       ELSE asleep' = [asleep EXCEPT ![p] = barrier]

\* The last process to arrive wakes the others; each goes on at its own label.
Arrive(p, barrier, then) ==
  /\ Goto(p, then)
  /\ arrived' = IF posix THEN [arrived EXCEPT ![barrier] = (@ + 1) % width] ELSE arrived
  /\ count' = IF posix \/ LastAt(barrier) THEN count
              ELSE IF barrier = "init" THEN count + 1 ELSE count - 1
  /\ asleep' = IF ~LastAt(barrier) THEN [asleep EXCEPT ![p] = barrier]
               ELSE [q \in Procs |-> IF posix /\ asleep[q] # barrier THEN asleep[q] ELSE "no"]

-----------------------------------------------------------------------------
Init ==
  /\ posix \in BOOLEAN
  /\ g_nthreads = 1 /\ nthreads = 1 /\ new_nthreads = 1
  /\ started = 0 /\ end_threads = FALSE /\ width = 1
  /\ arrived = [b \in Barriers |-> 0] /\ count = 0
  /\ asleep = [p \in Procs |-> "no"]
  /\ pc = [p \in Procs |-> IF p = Caller THEN "idle" ELSE "none"]
  /\ onto = "header" /\ tid = 1
  /\ job = [op |-> "none", size |-> 0, gives |-> <<>>] /\ memcpyed = FALSE /\ ncalls = 0
  /\ giveup = 1 /\ next = -1 /\ out = 0 /\ bstarts = <<>> /\ filled = <<>>
  /\ block = [w \in Workers |-> 0] /\ limit = [w \in Workers |-> 0]
  /\ took = [w \in Workers |-> <<0, 0>>]
  /\ ans = 0

(* The caller *)

\* zmat_run: blosc2_set_nthreads before a compression; the next call of the process.
Call ==
  /\ At(Caller, "idle") /\ ncalls < Calls
  /\ ncalls' = ncalls + 1 /\ ans' = Pending
  /\ job' \in Jobs /\ bstarts' = <<>> /\ filled' = <<>>
  /\ \/ /\ job'.op = "compress"
        /\ \E n \in 1 .. MaxThreads :
             IF n = g_nthreads
               THEN Goto(Caller, "header") /\ UNCHANGED <<g_nthreads, new_nthreads, onto>>
               ELSE /\ g_nthreads' = n /\ new_nthreads' = n
                    /\ Goto(Caller, "check") /\ onto' = "header"
     \/ job'.op = "decompress" /\ Goto(Caller, "header")
        /\ UNCHANGED <<g_nthreads, new_nthreads, onto>>
  /\ UNCHANGED <<posix, nthreads, started, end_threads, width, syncVars, memcpyed, giveup, next,
                 out, workerVars, tid>>

\* A faulty resize: the threads are kept.
CheckKeeps ==
  /\ At(Caller, "check")
  /\ nthreads' = new_nthreads
  /\ Goto(Caller, IF new_nthreads > 1 /\ started = 0 THEN "threads" ELSE onto)
  /\ UNCHANGED <<posix, g_nthreads, new_nthreads, started, end_threads, width, syncVars, jobVars,
                 sharedVars, workerVars, callerVars>>

\* check_nthreads: another number of threads than there are, or none yet.
Check ==
  /\ At(Caller, "check")
  /\ IF new_nthreads # nthreads /\ nthreads > 1 /\ started > 0
       THEN Goto(Caller, "release") /\ UNCHANGED nthreads
       ELSE /\ nthreads' = new_nthreads
            /\ Goto(Caller, IF new_nthreads > 1 /\ started = 0 THEN "threads" ELSE onto)
  /\ UNCHANGED <<posix, g_nthreads, new_nthreads, started, end_threads, width, syncVars, jobVars,
                 sharedVars, workerVars, callerVars>>

\* release_threadpool: the threads are told to end and let through the barrier ...
Release ==
  /\ At(Caller, "release")
  /\ end_threads' = TRUE /\ tid' = 1
  /\ Arrive(Caller, "init", "join")
  /\ UNCHANGED <<posix, g_nthreads, nthreads, new_nthreads, started, width, jobVars, sharedVars,
                 workerVars, onto>>

\* ... joined one by one ...
Join ==
  /\ At(Caller, "join") /\ tid <= started
  /\ pc[tid] = "gone"
  /\ Goto(tid, "none") /\ tid' = tid + 1
  /\ UNCHANGED <<posix, poolVars, syncVars, jobVars, sharedVars, workerVars, onto>>

\* ... and the barriers destroyed; check_nthreads goes on with no thread left.
Released ==
  /\ At(Caller, "join") /\ tid > started
  /\ end_threads' = FALSE /\ started' = 0 /\ count' = 0
  /\ Goto(Caller, "check")
  /\ UNCHANGED <<posix, g_nthreads, nthreads, new_nthreads, width, arrived, asleep, jobVars,
                 sharedVars, workerVars, callerVars>>

\* init_threadpool: the barriers are for the threads and the caller ...
InitThreads ==
  /\ At(Caller, "threads")
  /\ giveup' = 1 /\ next' = -1
  /\ width' = nthreads + 1 /\ arrived' = [b \in Barriers |-> 0] /\ count' = 0
  /\ tid' = 1 /\ Goto(Caller, "create")
  /\ UNCHANGED <<posix, g_nthreads, nthreads, new_nthreads, started, end_threads, asleep, jobVars,
                 out, bstarts, filled, workerVars, onto>>

\* ... which start while others are still to be created.
Create ==
  /\ At(Caller, "create") /\ tid <= nthreads
  /\ Goto(tid, "init") /\ tid' = tid + 1
  /\ UNCHANGED <<posix, poolVars, syncVars, jobVars, sharedVars, workerVars, onto>>

Created ==
  /\ At(Caller, "create") /\ tid > nthreads
  /\ started' = nthreads /\ new_nthreads' = nthreads
  /\ Goto(Caller, onto)
  /\ UNCHANGED <<posix, g_nthreads, nthreads, end_threads, width, syncVars, jobVars, sharedVars,
                 workerVars, callerVars>>

NewJob(copying) ==
  /\ memcpyed' = copying /\ out' = Base(copying)
  /\ bstarts' = [b \in Blocks |-> Unset] /\ filled' = [b \in Blocks |-> <<>>]
  /\ onto' = "run" /\ Goto(Caller, "check")

\* initialize_context_compression and write_compression_header, or
\* initialize_context_decompression; do_job then checks the threads again.
WriteHeader ==
  /\ At(Caller, "header")
  /\ NewJob(Compressing /\ job.size < MinBuffer)
  /\ end_threads' = FALSE
  /\ IF Compressing THEN nthreads' = g_nthreads /\ new_nthreads' = g_nthreads
     ELSE UNCHANGED <<nthreads, new_nthreads>>
  /\ UNCHANGED <<posix, g_nthreads, started, width, syncVars, job, ncalls, ans, giveup, next,
                 workerVars, tid>>

Serially == nthreads = 1 \/ job.size \div BlockSize <= 1

\* serial_blosc: the blocks in order, up to the first that fails or does not fit.
RunSerial ==
  /\ At(Caller, "run") /\ Serially
  /\ LET place(b) == Base(memcpyed) + Before(b)
         stops == {b \in Blocks : \/ CBytes(b) <= 0
                                  \/ Compressing /\ place(b) + CBytes(b) > DestSize}
         end == IF stops = {} THEN NBlocks ELSE Min(stops)
     IN  /\ ans' = IF stops = {} THEN place(NBlocks) ELSE IF CBytes(end) < 0 THEN CBytes(end) ELSE 0
         /\ bstarts' = [b \in Blocks |-> IF b <= end /\ Compressing /\ ~memcpyed THEN place(b)
                                         ELSE bstarts[b]]
         /\ filled' = [b \in Blocks |-> IF b < end THEN <<place(b)>> ELSE <<>>]
  /\ Goto(Caller, "answer")
  /\ UNCHANGED <<posix, poolVars, syncVars, job, memcpyed, ncalls, giveup, next, out, workerVars,
                 callerVars>>

\* parallel_blosc: the counters are set and the threads let in ...
StartParallel ==
  /\ At(Caller, "run") /\ ~Serially
  /\ giveup' = 1 /\ next' = -1
  /\ Goto(Caller, "start")
  /\ UNCHANGED <<posix, poolVars, syncVars, jobVars, out, bstarts, filled, workerVars, callerVars>>

AwaitInit ==
  /\ At(Caller, "start") /\ Arrive(Caller, "init", "finish")
  /\ UNCHANGED <<posix, poolVars, jobVars, sharedVars, workerVars, callerVars>>

\* A faulty end: the caller does not wait for the workers.
AwaitNobody ==
  /\ At(Caller, "finish") /\ Goto(Caller, "collect")
  /\ UNCHANGED <<posix, poolVars, syncVars, jobVars, sharedVars, workerVars, callerVars>>

\* ... and waited for.
AwaitFinish ==
  /\ At(Caller, "finish") /\ Arrive(Caller, "finish", "collect")
  /\ UNCHANGED <<posix, poolVars, jobVars, sharedVars, workerVars, callerVars>>

\* A faulty result: that a worker gave up is not looked at.
CollectBlindly ==
  /\ At(Caller, "collect")
  /\ ans' = out
  /\ Goto(Caller, "answer")
  /\ UNCHANGED <<posix, poolVars, syncVars, job, memcpyed, ncalls, sharedVars, workerVars,
                 callerVars>>

Collect ==
  /\ At(Caller, "collect")
  /\ ans' = IF giveup <= 0 THEN giveup ELSE out
  /\ Goto(Caller, "answer")
  /\ UNCHANGED <<posix, poolVars, syncVars, job, memcpyed, ncalls, sharedVars, workerVars,
                 callerVars>>

\* blosc_compress_context: what did not fit is copied instead, in a second job; the
\* output always has room for that.
Retry ==
  /\ At(Caller, "answer")
  /\ Compressing /\ ~memcpyed /\ ans = 0
  /\ NewJob(TRUE)
  /\ UNCHANGED <<posix, poolVars, syncVars, job, ncalls, ans, giveup, next, workerVars, tid>>

Answer ==
  /\ At(Caller, "answer")
  /\ Compressing => memcpyed \/ ans # 0
  /\ Goto(Caller, "idle")
  /\ UNCHANGED <<posix, poolVars, syncVars, jobVars, sharedVars, workerVars, callerVars>>

-----------------------------------------------------------------------------
(* t_blosc: a worker *)

WaitInit(w) ==
  /\ At(w, "init") /\ Arrive(w, "init", "woken")
  /\ UNCHANGED <<posix, poolVars, jobVars, sharedVars, workerVars, callerVars>>

Leave(w) ==
  /\ At(w, "woken") /\ end_threads
  /\ Goto(w, "gone")
  /\ UNCHANGED <<posix, poolVars, syncVars, jobVars, sharedVars, workerVars, callerVars>>

Static == ~Compressing \/ memcpyed

\* Faulty shares: rounded down.
ShareDown(w) == LET t == NBlocks \div nthreads IN <<(w - 1) * t, w * t>>

\* The blocks of thread w when they are handed out beforehand: first and limit.
Share(w) ==
  LET t == (NBlocks + nthreads - 1) \div nthreads
  IN  <<(w - 1) * t, Min({w * t, NBlocks})>>

TakeShare(w) ==
  /\ At(w, "woken") /\ ~end_threads /\ Static
  /\ block' = [block EXCEPT ![w] = Share(w)[1]]
  /\ limit' = [limit EXCEPT ![w] = Share(w)[2]]
  /\ Goto(w, "loop")
  /\ UNCHANGED <<posix, poolVars, syncVars, jobVars, sharedVars, took, callerVars>>

\* Otherwise they are a queue, and count_mutex is held to take the next.
TakeNext(w) ==
  /\ At(w, "woken") /\ ~end_threads /\ ~Static
  /\ next' = next + 1
  /\ block' = [block EXCEPT ![w] = next + 1]
  /\ limit' = [limit EXCEPT ![w] = NBlocks]
  /\ Goto(w, "loop")
  /\ UNCHANGED <<posix, poolVars, syncVars, jobVars, giveup, out, bstarts, filled, took,
                 callerVars>>

LoopEnd == IF Static THEN "end" ELSE "finish"

Loop(w) ==
  /\ At(w, "loop")
  /\ Goto(w, IF block[w] < limit[w] /\ giveup > 0 THEN "code" ELSE LoopEnd)
  /\ UNCHANGED <<posix, poolVars, syncVars, jobVars, sharedVars, workerVars, callerVars>>

\* memcpy and blosc_d write to the output, blosc_c to the thread's own buffer;
\* then another worker's failure is looked for.
Code(w) ==
  /\ At(w, "code")
  /\ filled' = IF Static /\ CBytes(block[w]) > 0
                 THEN [filled EXCEPT ![block[w]] =
                         Append(@, (IF Compressing THEN Header ELSE 0) + block[w] * BlockSize)]
                 ELSE filled
  /\ Goto(w, IF giveup <= 0 THEN LoopEnd
             ELSE IF CBytes(block[w]) < 0 THEN "fail"
             ELSE IF Static THEN "loop" ELSE "publish")
  /\ block' = IF Static /\ giveup > 0 /\ CBytes(block[w]) > 0 THEN [block EXCEPT ![w] = @ + 1]
              ELSE block
  /\ UNCHANGED <<posix, poolVars, syncVars, jobVars, giveup, next, out, bstarts, limit, took,
                 callerVars>>

Fail(w) ==
  /\ At(w, "fail")
  /\ giveup' = CBytes(block[w])
  /\ Goto(w, LoopEnd)
  /\ UNCHANGED <<posix, poolVars, syncVars, jobVars, next, out, bstarts, filled, workerVars,
                 callerVars>>

\* A faulty critical section: the table is written after output_bytes has moved on.
PublishLate(w) ==
  /\ At(w, "publish")
  /\ IF CBytes(block[w]) = 0 \/ out + CBytes(block[w]) > DestSize
       THEN /\ giveup' = 0 /\ Goto(w, LoopEnd)
            /\ UNCHANGED <<next, out, block, took>>
       ELSE /\ next' = next + 1 /\ out' = out + CBytes(block[w])
            /\ took' = [took EXCEPT ![w] = <<block[w], out>>]
            /\ block' = [block EXCEPT ![w] = next + 1]
            /\ Goto(w, "copy") /\ UNCHANGED giveup
  /\ bstarts' = [bstarts EXCEPT ![block[w]] = out']
  /\ UNCHANGED <<posix, poolVars, syncVars, jobVars, filled, limit, callerVars>>

\* Under count_mutex: the block's place is set and, when it fits, taken, and the
\* next block claimed.
Publish(w) ==
  /\ At(w, "publish")
  /\ bstarts' = [bstarts EXCEPT ![block[w]] = out]
  /\ IF CBytes(block[w]) = 0 \/ out + CBytes(block[w]) > DestSize
       THEN /\ giveup' = 0 /\ Goto(w, LoopEnd)
            /\ UNCHANGED <<next, out, block, took>>
       ELSE /\ next' = next + 1 /\ out' = out + CBytes(block[w])
            /\ took' = [took EXCEPT ![w] = <<block[w], out>>]
            /\ block' = [block EXCEPT ![w] = next + 1]
            /\ Goto(w, "copy") /\ UNCHANGED giveup
  /\ UNCHANGED <<posix, poolVars, syncVars, jobVars, filled, limit, callerVars>>

\* The compressed bytes are copied without the lock.
Copy(w) ==
  /\ At(w, "copy")
  /\ filled' = [filled EXCEPT ![took[w][1]] = Append(@, took[w][2])]
  /\ Goto(w, "loop")
  /\ UNCHANGED <<posix, poolVars, syncVars, jobVars, giveup, next, out, bstarts, workerVars,
                 callerVars>>

EndStatic(w) ==
  /\ At(w, "end")
  /\ out' = job.size + (IF Compressing THEN Header ELSE 0)
  /\ Goto(w, "finish")
  /\ UNCHANGED <<posix, poolVars, syncVars, jobVars, giveup, next, bstarts, filled, workerVars,
                 callerVars>>

\* The variables of t_blosc_do_job end with it.
WaitFinish(w) ==
  /\ At(w, "finish") /\ Arrive(w, "finish", "init")
  /\ block' = [block EXCEPT ![w] = 0] /\ limit' = [limit EXCEPT ![w] = 0]
  /\ took' = [took EXCEPT ![w] = <<0, 0>>]
  /\ UNCHANGED <<posix, poolVars, jobVars, sharedVars, callerVars>>

-----------------------------------------------------------------------------
CallerStep ==
  \/ Check \/ Release \/ Join \/ Released \/ InitThreads \/ Create \/ Created
  \/ WriteHeader \/ RunSerial \/ StartParallel \/ AwaitInit \/ AwaitFinish \/ Collect
  \/ Retry \/ Answer

WorkerStep(w) ==
  \/ WaitInit(w) \/ Leave(w) \/ TakeShare(w) \/ TakeNext(w) \/ Loop(w) \/ Code(w) \/ Fail(w)
  \/ Publish(w) \/ Copy(w) \/ EndStatic(w) \/ WaitFinish(w)

\* The bound on the calls is reached.
Quiet == At(Caller, "idle") /\ ncalls = Calls /\ UNCHANGED vars

Next == Call \/ CallerStep \/ (\E w \in Workers : WorkerStep(w)) \/ Quiet

\* The operating system runs every thread that can run; nobody has to call.
Spec == Init /\ [][Next]_vars /\ WF_vars(CallerStep) /\ \A w \in Workers : WF_vars(WorkerStep(w))

-----------------------------------------------------------------------------
(* Properties *)

InJob == {"loop", "code", "fail", "publish", "copy", "end", "finish"}

\* No worker is in a job, reading the context's fields, unless the caller waits for the
\* end of that job: the caller never writes them, frees the output or starts another
\* job under a worker, and no worker takes part in a job twice.  "Synchronization
\* point for all threads", whichever barrier the platform has.
JobSeparated ==
  \A w \in Workers : pc[w] \in InJob /\ asleep[w] = "no" =>
    \/ pc[Caller] = "finish" /\ asleep[Caller] = "no"
    \/ pc[Caller] = "collect" /\ asleep[Caller] = "finish"

Done == pc[Caller] = "idle" /\ ncalls > 0

\* However the blocks are handed out, no block's bytes are written twice in a job, and in
\* one that succeeds each is written; the table of block starts says where they are,
\* although it is filled in any order, and they fill the stream from the table to its
\* end with neither gap nor overlap.
OutputTiles ==
  /\ \A b \in DOMAIN filled : Len(filled[b]) <= 1 /\ (Done /\ ans > 0 => Len(filled[b]) = 1)
  /\ Done /\ Compressing /\ ~memcpyed /\ ans > 0 =>
       /\ \A b \in Blocks : filled[b] = <<bstarts[b]>>
       /\ \A x \in Base(FALSE) .. (ans - 1) :
            Cardinality({b \in Blocks : x \in bstarts[b] .. (bstarts[b] + CBytes(b) - 1)}) = 1

\* The answer is one that taking the blocks one after another, in some order, may
\* give: the whole length when every block is sound and fits, an error only when some
\* block has one, and a copy only when the compressed blocks do not all fit.
AnswerAsSerial ==
  Done =>
    LET sound == {b \in Blocks : Gives(b) > 0}
        total == MapThenSumSet(Gives, sound) + Header + NBlocks
        copied == /\ ans = job.size + Header
                  /\ \/ job.size < MinBuffer \/ total > DestSize
                     \/ \E b \in Blocks : Gives(b) = 0
    IN  IF ans < 0 THEN ~memcpyed /\ \E b \in Blocks : Gives(b) = ans
        ELSE IF memcpyed THEN copied
        ELSE sound = Blocks /\ ans = IF Compressing THEN total ELSE job.size

\* The threads a call leaves behind are those the next call counts on, although a
\* decompression does not say how many it wants: as many as the context says, all of
\* them alive, and barriers of their number.
PoolFits ==
  Done => /\ nthreads = g_nthreads /\ new_nthreads = g_nthreads
          /\ started = IF nthreads = 1 THEN 0 ELSE nthreads
          /\ {w \in Workers : pc[w] # "none"} = 1 .. started
          /\ started > 0 => width = started + 1

\* Every call returns: nobody waits at a barrier that does not fill.
Returns == pc[Caller] # "idle" ~> pc[Caller] = "idle"
=============================================================================
