------------------------------- MODULE ZmatPool -------------------------------
(***************************************************************************)
(* The worker pool of the block-parallel codec: zmat_pool_run, its workers *)
(* zmat_deflate_worker and zmat_inflate_worker, zmat_pool_next and          *)
(* zmat_pool_fail.                                                          *)
(*                                                                          *)
(* The caller spawns up to Want threads; they claim block numbers from a    *)
(* counter under one mutex until no block is left or some worker has failed.*)
(* A thread that cannot be created ends the spawn loop; if none can, the    *)
(* caller runs the worker itself.  The two workers have the same control;   *)
(* what the codec answers is left open, for each block is tried once.       *)
(* The read and the write of the shared counter are separate steps, so that *)
(* what the mutex is for can be seen.                                       *)
(***************************************************************************)
EXTENDS Integers

CONSTANTS NThread,   \* the nthread argument
          NBlock     \* pool->nblock

ASSUME PoolAssumption == NThread \in Nat /\ NBlock \in Nat

Blocks == 0 .. (NBlock - 1)

\* zmat_pool_run clamps the thread count to the blocks, and to at least one.
Want == LET w == IF NThread > NBlock THEN NBlock ELSE NThread
        IN  IF w < 1 THEN 1 ELSE w

Threads == 0 .. (Want - 1)     \* indices of tid[]
Caller == Want                 \* the calling thread, when it runs fn itself
Procs == 0 .. Want

NoOne == -1                    \* the mutex is free
Dead == -2                     \* the mutex is not initialised, or destroyed
Pending == 1                   \* zmat_pool_run has not returned
Failures == {"noinit", "nocodec"}

VARIABLES
  main,      \* where zmat_pool_run is
  i,         \* its loop variable
  spawned,   \* threads created
  rc,        \* its return value
  lock,      \* owner of pool->lock, NoOne or Dead
  next,      \* pool->next
  failed,    \* pool->failed
  pc,        \* where each process running fn is
  idx,       \* its local block number
  status     \* what became of each block

poolVars == <<lock, next, failed>>
mainVars == <<main, i, spawned, rc>>
vars == <<main, i, spawned, rc, lock, next, failed, pc, idx, status>>

Init ==
  /\ main = "init" /\ i = 0 /\ spawned = 0 /\ rc = Pending
  /\ lock = Dead /\ next = 0 /\ failed = FALSE
  /\ pc = [p \in Procs |-> "none"]
  /\ idx = [p \in Procs |-> 0]
  /\ status = [b \in Blocks |-> "none"]

Goto(p, l) == pc' = [pc EXCEPT ![p] = l]

-----------------------------------------------------------------------------
(* zmat_pool_next and zmat_pool_fail *)

\* A faulty lock: it does not wait for the owner to leave.
AcquireNoWait(p) == lock' = p

Acquire(p) == lock = NoOne /\ lock' = p

Release == lock' = NoOne

\* zmat_mutex_lock in zmat_pool_next
NextLock(p) ==
  /\ pc[p] = "next"
  /\ Acquire(p)
  /\ Goto(p, "test")
  /\ UNCHANGED <<mainVars, next, failed, idx, status>>

CanClaim == next < NBlock /\ ~failed

\* The condition; when it holds the counter is read ...
NextTest(p) ==
  /\ pc[p] = "test"
  /\ IF CanClaim
     THEN Goto(p, "take") /\ idx' = [idx EXCEPT ![p] = next]
     ELSE Goto(p, "leave") /\ UNCHANGED idx
  /\ UNCHANGED <<mainVars, poolVars, status>>

\* ... and written back one higher.
NextTake(p) ==
  /\ pc[p] = "take"
  /\ next' = idx[p] + 1
  /\ Goto(p, "claimed")
  /\ UNCHANGED <<mainVars, lock, failed, idx, status>>

\* zmat_mutex_unlock; the worker then works on the block, or returns.
NextUnlock(p) ==
  /\ pc[p] \in {"claimed", "leave"}
  /\ Release
  /\ Goto(p, IF pc[p] = "claimed" THEN "open" ELSE "done")
  /\ UNCHANGED <<mainVars, next, failed, idx, status>>

\* A faulty zmat_pool_fail: the flag is set without the lock being awaited.
FailLockNoWait(p) ==
  /\ pc[p] = "fail"
  /\ Goto(p, "set")
  /\ UNCHANGED <<mainVars, poolVars, idx, status>>

FailLock(p) ==
  /\ pc[p] = "fail"
  /\ Acquire(p)
  /\ Goto(p, "set")
  /\ UNCHANGED <<mainVars, next, failed, idx, status>>

FailSet(p) ==
  /\ pc[p] = "set"
  /\ failed' = TRUE
  /\ Goto(p, "drop")
  /\ UNCHANGED <<mainVars, lock, next, idx, status>>

\* A faulty zmat_pool_fail: it returns with the lock held.
FailUnlockForgets(p) ==
  /\ pc[p] = "drop"
  /\ Goto(p, "done")
  /\ UNCHANGED <<mainVars, poolVars, idx, status>>

\* The worker returns after zmat_pool_fail.
FailUnlock(p) ==
  /\ pc[p] = "drop"
  /\ Release
  /\ Goto(p, "done")
  /\ UNCHANGED <<mainVars, next, failed, idx, status>>

-----------------------------------------------------------------------------
(* zmat_deflate_worker and zmat_inflate_worker *)

\* deflateInit2 or inflateInit2: it allocates, so it may fail for any block.
Open(p) ==
  /\ pc[p] = "open"
  /\ \/ Goto(p, "codec") /\ UNCHANGED status
     \/ Goto(p, "fail") /\ status' = [status EXCEPT ![idx[p]] = "noinit"]
  /\ UNCHANGED <<mainVars, poolVars, idx>>

\* deflate(Z_FULL_FLUSH) and its test, or inflate(Z_SYNC_FLUSH) and its test.
Codec(p) ==
  /\ pc[p] = "codec"
  /\ \/ Goto(p, "next") /\ status' = [status EXCEPT ![idx[p]] = "done"]
     \/ Goto(p, "fail") /\ status' = [status EXCEPT ![idx[p]] = "nocodec"]
  /\ UNCHANGED <<mainVars, poolVars, idx>>

Worker(p) ==
  \/ NextLock(p) \/ NextTest(p) \/ NextTake(p) \/ NextUnlock(p)
  \/ Open(p) \/ Codec(p)
  \/ FailLock(p) \/ FailSet(p) \/ FailUnlock(p)

-----------------------------------------------------------------------------
(* zmat_pool_run *)

\* zmat_mutex_init and the calloc of tid[]: either may fail, and the call
\* then returns -5 with the mutex destroyed.
RunSetup ==
  /\ main = "init"
  /\ \/ main' = "spawn" /\ lock' = NoOne /\ UNCHANGED rc
     \/ main' = "returned" /\ rc' = -5 /\ UNCHANGED lock
  /\ UNCHANGED <<i, spawned, next, failed, pc, idx, status>>

\* One turn of the spawn loop: the thread is created and may run at once.
RunSpawn ==
  /\ main = "spawn" /\ i < Want
  /\ Goto(i, "next")
  /\ spawned' = spawned + 1 /\ i' = i + 1
  /\ UNCHANGED <<main, rc, poolVars, idx, status>>

\* The loop ends, by its condition or because a thread could not be created;
\* with no thread at all the caller runs the worker.
RunSpawned ==
  /\ main = "spawn"
  /\ i' = 0
  /\ IF spawned = 0
     THEN main' = "serial" /\ Goto(Caller, "next")
     ELSE main' = "join" /\ UNCHANGED pc
  /\ UNCHANGED <<spawned, rc, poolVars, idx, status>>

RunSerial ==
  /\ main = "serial" /\ pc[Caller] = "done"
  /\ main' = "join"
  /\ UNCHANGED <<i, spawned, rc, poolVars, pc, idx, status>>

RunJoin ==
  /\ main = "join" /\ i < spawned
  /\ pc[i] = "done"
  /\ i' = i + 1
  /\ UNCHANGED <<main, spawned, rc, poolVars, pc, idx, status>>

\* A faulty join loop: it leaves the last thread running.
RunReturnEarly ==
  /\ main = "join" /\ i + 1 >= spawned
  /\ main' = "returned" /\ lock' = Dead
  /\ rc' = IF failed THEN -3 ELSE 0
  /\ UNCHANGED <<i, spawned, next, failed, pc, idx, status>>

\* A faulty return: the flag is not looked at.
RunReturnOk ==
  /\ main = "join" /\ i = spawned
  /\ main' = "returned" /\ lock' = Dead
  /\ rc' = 0
  /\ UNCHANGED <<i, spawned, next, failed, pc, idx, status>>

\* free(tid), zmat_mutex_destroy and the return
RunReturn ==
  /\ main = "join" /\ i = spawned
  /\ main' = "returned" /\ lock' = Dead
  /\ rc' = IF failed THEN -3 ELSE 0
  /\ UNCHANGED <<i, spawned, next, failed, pc, idx, status>>

Main == RunSetup \/ RunSpawn \/ RunSpawned \/ RunSerial \/ RunJoin \/ RunReturn

Returned == main = "returned"

\* The caller has its answer; nothing is left to do.
Finished == Returned /\ UNCHANGED vars

Next == Main \/ (\E p \in Procs : Worker(p)) \/ Finished

\* The operating system runs every thread that can run, and lets the holder
\* of the mutex release it; no order among the waiters is assumed.
Fairness == WF_vars(Main) /\ \A p \in Procs : WF_vars(Worker(p))

Spec == Init /\ [][Next]_vars /\ Fairness

-----------------------------------------------------------------------------
(* Properties *)

Labels == {"none", "next", "test", "take", "claimed", "leave", "open", "codec",
           "fail", "set", "drop", "done"}

\* The variables have their types; in particular a claimed number is a block.
TypeOK ==
  /\ main \in {"init", "spawn", "serial", "join", "returned"}
  /\ i \in 0 .. Want /\ spawned \in 0 .. Want
  /\ rc \in {Pending, 0, -3, -5}
  /\ lock \in Procs \cup {NoOne, Dead}
  /\ next \in 0 .. NBlock /\ failed \in BOOLEAN
  /\ pc \in [Procs -> Labels]
  /\ idx \in [Procs -> 0 .. NBlock]
  /\ status \in [Blocks -> {"none", "done"} \cup Failures]

\* p has claimed a block and not yet finished it
Owns(p) == pc[p] \in {"claimed", "open", "codec"}

\* Every block below pool->next is finished or in the hands of exactly one
\* worker, and no other block was touched: the blocks' records, which no lock
\* guards, are never shared (the comment on zmat_inflate_blocks' slices).
BlocksPartitioned ==
  \A b \in Blocks :
    LET owners == {p \in Procs : Owns(p) /\ idx[p] = b}
    IN  IF b >= next THEN status[b] = "none" /\ owners = {}
        ELSE IF status[b] = "none" THEN \E p \in Procs : owners = {p}
        ELSE owners = {}

\* Once pool->lock is destroyed, no worker will use it or the blocks again:
\* the callers of zmat_pool_run free both as soon as it returns.
NoWorkerOutlivesPool == Returned => \A p \in Procs : pc[p] \in {"none", "done"}

\* "so the other workers stop early": no block is claimed once the flag is up.
NoClaimAfterFailure == [][failed => failed' /\ next' = next]_vars

\* zmat_pool_run is the job of ZmatJob: the answer does not depend on how many
\* threads there were or which blocks they got, and 0 means every block is done.
Job == INSTANCE ZmatJob WITH NBlock <- NBlock, status <- status, rc <- rc
ImplementsJob == Job!Spec

\* The call returns: no worker waits for ever, whatever failed.
Termination == <>Returned
=============================================================================
