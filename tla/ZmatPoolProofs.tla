---------------------------- MODULE ZmatPoolProofs ----------------------------
(***************************************************************************)
(* Proofs about ZmatPool, for any number of threads and blocks.             *)
(*                                                                          *)
(* The inductive invariant is the conjunction of the named parts below.     *)
(* LockInv is what the mutex gives; ClaimInv says that a claimed block has  *)
(* one owner, and needs LockInv because reading and writing the counter are *)
(* two steps; FaultInv ties pool->failed to the blocks that failed;         *)
(* ExitInv and PhaseInv say when a worker stops and what the caller knows   *)
(* of the workers in each of its phases.                                    *)
(***************************************************************************)
EXTENDS ZmatPool, TLAPS

Holds(p) == pc[p] \in {"test", "take", "claimed", "leave", "set", "drop"}

\* A worker between lock and unlock is the owner; so there is one at most.
LockInv ==
  /\ \A p \in Procs : Holds(p) => lock = p
  /\ lock \in Procs => Holds(lock)

\* A worker about to store the counter still sees the value it read.
TakeInv ==
  \A p \in Procs : pc[p] = "take" => idx[p] = next /\ next < NBlock /\ ~failed

\* An owned block is below the counter and untouched ...
OwnInv == \A p \in Procs : Owns(p) => idx[p] < next /\ status[idx[p]] = "none"

\* ... and owned by nobody else;
OneOwnerInv == \A p, q \in Procs : Owns(p) /\ Owns(q) /\ idx[p] = idx[q] => p = q

\* a block the counter has not reached is untouched,
FreshInv == \A b \in Blocks : b >= next => status[b] = "none"

\* and a block it has passed is owned until it is finished.
PassedInv ==
  \A b \in Blocks : b < next /\ status[b] = "none" => \E p \in Procs : Owns(p) /\ idx[p] = b

ClaimInv == TakeInv /\ OwnInv /\ OneOwnerInv /\ FreshInv /\ PassedInv

\* The flag is up only after a failure, and a failure puts it up.
FaultInv ==
  /\ failed => \E b \in Blocks : status[b] \in Failures
  /\ \A p \in Procs : pc[p] \in {"fail", "set"} => \E b \in Blocks : status[b] \in Failures
  /\ (\E b \in Blocks : status[b] \in Failures)
       => failed \/ \E p \in Procs : pc[p] \in {"fail", "set"}

\* A worker stops only when no block is left or the job has failed.
ExitInv ==
  \A p \in Procs : pc[p] \in {"leave", "drop", "done"} => failed \/ next = NBlock

\* What the caller knows in each of its phases.
PhaseInv ==
  /\ main = "init" => lock = Dead /\ next = 0 /\ \A p \in Procs : pc[p] = "none"
  /\ main \in {"init", "spawn"} => i = spawned /\ \A p \in Procs : p >= i => pc[p] = "none"
  /\ main = "serial" => i = 0 /\ spawned = 0 /\ \A p \in Threads : pc[p] = "none"
  /\ main = "join" => /\ i <= spawned
                      /\ \A p \in Threads : p >= spawned => pc[p] = "none"
                      /\ \A p \in Threads : p < i => pc[p] = "done"
                      /\ pc[Caller] = IF spawned = 0 THEN "done" ELSE "none"
  /\ main = "returned" => /\ \A p \in Procs : pc[p] \in {"none", "done"}
                          /\ rc # Pending
  /\ main # "returned" => rc = Pending
  /\ rc = 0 => \A b \in Blocks : status[b] = "done"
  /\ rc = -3 => \E b \in Blocks : status[b] \in Failures

IInv == TypeOK /\ LockInv /\ ClaimInv /\ FaultInv /\ ExitInv /\ PhaseInv

-----------------------------------------------------------------------------
\* At least one process may run the worker, and the caller is none of the threads.
LEMMA WantType ==
  /\ Want \in Nat /\ Want >= 1
  /\ Caller \in Procs /\ Caller \notin Threads
  /\ Procs = Threads \cup {Caller}
BY PoolAssumption DEF Want, Caller, Procs, Threads

\* The initial states satisfy the inductive invariant.
LEMMA InitInv == Init => IInv
<1> SUFFICES ASSUME Init PROVE IInv
  OBVIOUS
<1> USE WantType, PoolAssumption DEF Init
<1>1. TypeOK
  <2>1. lock \in Procs \cup {NoOne, Dead}
    OBVIOUS
  <2>2. pc \in [Procs -> Labels] /\ idx \in [Procs -> 0 .. NBlock]
    BY DEF Labels
  <2>3. i \in 0 .. Want /\ spawned \in 0 .. Want /\ next \in 0 .. NBlock
    OBVIOUS
  <2>4. QED
    BY <2>1, <2>2, <2>3 DEF TypeOK
<1>2. LockInv /\ FaultInv /\ ExitInv
  BY DEF LockInv, FaultInv, ExitInv, Holds, Failures, NoOne, Dead, Blocks, Procs
<1>3. ClaimInv
  BY DEF ClaimInv, TakeInv, OwnInv, OneOwnerInv, FreshInv, PassedInv, Owns, Blocks, Procs
<1>4. PhaseInv
  BY DEF PhaseInv, Pending, Blocks, Procs
<1>5. QED
  BY <1>1, <1>2, <1>3, <1>4 DEF IInv

\* Every step preserves the types.
LEMMA TypeStep == IInv /\ [Next]_vars => TypeOK'
<1> SUFFICES ASSUME IInv, [Next]_vars PROVE TypeOK'
  OBVIOUS
<1> USE WantType, PoolAssumption DEF IInv, TypeOK, ClaimInv, TakeInv, OwnInv,
        PhaseInv, Procs, Threads, Caller, Goto, mainVars, poolVars, Labels, Failures,
        Pending, NoOne, Dead, Blocks, Owns
<1>1. ASSUME NEW p \in Procs, NextLock(p) PROVE TypeOK'
  BY <1>1 DEF NextLock, Acquire
<1>2. ASSUME NEW p \in Procs, NextTest(p) PROVE TypeOK'
  <2>1. CASE CanClaim
    <3>1. idx' = [idx EXCEPT ![p] = next] /\ pc' = [pc EXCEPT ![p] = "take"]
      BY <1>2, <2>1 DEF NextTest
    <3>2. idx' \in [Procs -> 0 .. NBlock]
      BY <3>1
    <3>3. QED
      BY <1>2, <3>1, <3>2 DEF NextTest
  <2>2. CASE ~CanClaim
    BY <1>2, <2>2 DEF NextTest, CanClaim
  <2>3. QED
    BY <2>1, <2>2
<1>3. ASSUME NEW p \in Procs, NextTake(p) PROVE TypeOK'
  BY <1>3 DEF NextTake
<1>4. ASSUME NEW p \in Procs, NextUnlock(p) PROVE TypeOK'
  BY <1>4 DEF NextUnlock, Release
<1>5. ASSUME NEW p \in Procs, Open(p) PROVE TypeOK'
  <2>1. idx[p] \in Blocks
    BY <1>5 DEF Open
  <2>2. pc' \in [Procs -> Labels]
    BY <1>5 DEF Open
  <2>3. status' \in [Blocks -> {"none", "done"} \cup Failures]
    BY <1>5, <2>1 DEF Open
  <2>4. QED
    BY <1>5, <2>2, <2>3 DEF Open
<1>6. ASSUME NEW p \in Procs, Codec(p) PROVE TypeOK'
  <2>1. idx[p] \in Blocks
    BY <1>6 DEF Codec
  <2>2. pc' \in [Procs -> Labels]
    BY <1>6 DEF Codec
  <2>3. status' \in [Blocks -> {"none", "done"} \cup Failures]
    BY <1>6, <2>1 DEF Codec
  <2>4. QED
    BY <1>6, <2>2, <2>3 DEF Codec
<1>7. ASSUME NEW p \in Procs, FailLock(p) PROVE TypeOK'
  BY <1>7 DEF FailLock, Acquire
<1>8. ASSUME NEW p \in Procs, FailSet(p) PROVE TypeOK'
  BY <1>8 DEF FailSet
<1>9. ASSUME NEW p \in Procs, FailUnlock(p) PROVE TypeOK'
  BY <1>9 DEF FailUnlock, Release
<1>10. CASE RunSetup
  BY <1>10 DEF RunSetup
<1>11. CASE RunSpawn
  BY <1>11 DEF RunSpawn
<1>12. CASE RunSpawned
  BY <1>12 DEF RunSpawned
<1>13. CASE RunSerial
  BY <1>13 DEF RunSerial
<1>14. CASE RunJoin
  BY <1>14 DEF RunJoin
<1>15. CASE RunReturn
  BY <1>15 DEF RunReturn
<1>16. CASE UNCHANGED vars
  BY <1>16 DEF vars
<1>17. QED
  BY <1>1, <1>2, <1>3, <1>4, <1>5, <1>6, <1>7, <1>8, <1>9, <1>10, <1>11, <1>12, <1>13,
     <1>14, <1>15, <1>16 DEF Next, Main, Worker, Finished

\* Every step preserves mutual exclusion.
LEMMA LockStep == IInv /\ [Next]_vars => LockInv'
<1> SUFFICES ASSUME IInv, [Next]_vars PROVE LockInv'
  OBVIOUS
<1> USE WantType, PoolAssumption DEF IInv, TypeOK, LockInv, PhaseInv, Procs, Threads,
        Caller, Goto, mainVars, poolVars, NoOne, Dead, Holds
<1>1. ASSUME NEW p \in Procs, NextLock(p) PROVE LockInv'
  BY <1>1 DEF NextLock, Acquire
<1>2. ASSUME NEW p \in Procs, NextTest(p) PROVE LockInv'
  BY <1>2 DEF NextTest, CanClaim
<1>3. ASSUME NEW p \in Procs, NextTake(p) PROVE LockInv'
  BY <1>3 DEF NextTake
<1>4. ASSUME NEW p \in Procs, NextUnlock(p) PROVE LockInv'
  BY <1>4 DEF NextUnlock, Release
<1>5. ASSUME NEW p \in Procs, Open(p) PROVE LockInv'
  BY <1>5 DEF Open
<1>6. ASSUME NEW p \in Procs, Codec(p) PROVE LockInv'
  BY <1>6 DEF Codec
<1>7. ASSUME NEW p \in Procs, FailLock(p) PROVE LockInv'
  BY <1>7 DEF FailLock, Acquire
<1>8. ASSUME NEW p \in Procs, FailSet(p) PROVE LockInv'
  BY <1>8 DEF FailSet
<1>9. ASSUME NEW p \in Procs, FailUnlock(p) PROVE LockInv'
  BY <1>9 DEF FailUnlock, Release
<1>10. CASE RunSetup
  BY <1>10 DEF RunSetup
<1>11. CASE RunSpawn
  BY <1>11 DEF RunSpawn
<1>12. CASE RunSpawned
  BY <1>12 DEF RunSpawned
<1>13. CASE RunSerial
  BY <1>13 DEF RunSerial
<1>14. CASE RunJoin
  BY <1>14 DEF RunJoin
<1>15. CASE RunReturn
  BY <1>15 DEF RunReturn
<1>16. CASE UNCHANGED vars
  BY <1>16 DEF vars
<1>17. QED
  BY <1>1, <1>2, <1>3, <1>4, <1>5, <1>6, <1>7, <1>8, <1>9, <1>10, <1>11, <1>12, <1>13,
     <1>14, <1>15, <1>16 DEF Next, Main, Worker, Finished

\* A step that moves no owner and leaves counter, flag and records alone keeps it.
LEMMA ClaimStable ==
  ASSUME IInv, UNCHANGED <<next, failed, idx, status>>,
         \A q \in Procs : (Owns(q) <=> Owns(q)') /\ (pc'[q] = "take" => pc[q] = "take")
  PROVE  ClaimInv'
BY DEF IInv, ClaimInv, TakeInv, OwnInv, OneOwnerInv, FreshInv, PassedInv, Owns

\* Every step preserves the partition of the blocks among their owners.
LEMMA ClaimStep == IInv /\ [Next]_vars => ClaimInv'
<1> SUFFICES ASSUME IInv, [Next]_vars PROVE ClaimInv'
  OBVIOUS
<1> USE WantType, PoolAssumption DEF IInv, TypeOK, LockInv, ClaimInv, TakeInv, OwnInv,
        OneOwnerInv, FreshInv, PassedInv, PhaseInv, Procs, Threads, Caller, Goto,
        mainVars, poolVars, Blocks, Holds, Owns
<1>1. ASSUME NEW p \in Procs, NextLock(p) PROVE ClaimInv'
  <2>1. \A q \in Procs : (Owns(q) <=> Owns(q)') /\ (pc'[q] = "take" => pc[q] = "take")
    BY <1>1 DEF NextLock, Acquire
  <2>2. UNCHANGED <<next, failed, idx, status>>
    BY <1>1 DEF NextLock
  <2>3. QED
    BY <2>1, <2>2, ClaimStable
<1>2. ASSUME NEW p \in Procs, NextTest(p) PROVE ClaimInv'
  <2>1. TakeInv'
    BY <1>2 DEF NextTest, CanClaim
  <2>2. OwnInv'
    BY <1>2 DEF NextTest, CanClaim
  <2>3. OneOwnerInv'
    BY <1>2 DEF NextTest, CanClaim
  <2>4. FreshInv'
    BY <1>2 DEF NextTest, CanClaim
  <2>5. PassedInv'
    <3> SUFFICES ASSUME NEW b \in Blocks, b < next', status'[b] = "none"
                 PROVE  \E q \in Procs : Owns(q)' /\ idx'[q] = b
      OBVIOUS
    <3>1. status[b] = "none" /\ b < next
      BY <1>2 DEF NextTest
    <3>2. PICK q \in Procs : Owns(q) /\ idx[q] = b
      BY <3>1
    <3>3. Owns(q)' /\ idx'[q] = b
      BY <1>2, <3>2 DEF NextTest
    <3>4. QED
      BY <3>3
  <2>6. QED
    BY <2>1, <2>2, <2>3, <2>4, <2>5
<1>3. ASSUME NEW p \in Procs, NextTake(p) PROVE ClaimInv'
  <2>1. next' = next + 1 /\ idx' = idx /\ status' = status /\ idx[p] = next
    BY <1>3 DEF NextTake
  <2>2. TakeInv'
    BY <1>3 DEF NextTake
  <2>3. OwnInv' /\ FreshInv'
    BY <1>3, <2>1 DEF NextTake
  <2>4. OneOwnerInv'
    BY <1>3, <2>1 DEF NextTake
  <2>5. PassedInv'
    <3> SUFFICES ASSUME NEW b \in Blocks, b < next', status'[b] = "none"
                 PROVE  \E q \in Procs : Owns(q)' /\ idx'[q] = b
      OBVIOUS
    <3>1. CASE b = next
      BY <1>3, <2>1, <3>1 DEF NextTake
    <3>2. CASE b # next
      <4>1. PICK q \in Procs : Owns(q) /\ idx[q] = b
        BY <2>1, <3>2
      <4>2. Owns(q)' /\ idx'[q] = b
        BY <1>3, <2>1, <4>1 DEF NextTake
      <4>3. QED
        BY <4>2
    <3>3. QED
      BY <3>1, <3>2
  <2>6. QED
    BY <2>2, <2>3, <2>4, <2>5
<1>4. ASSUME NEW p \in Procs, NextUnlock(p) PROVE ClaimInv'
  <2>1. TakeInv'
    BY <1>4 DEF NextUnlock, Release
  <2>2. OwnInv'
    BY <1>4 DEF NextUnlock, Release
  <2>3. OneOwnerInv'
    BY <1>4 DEF NextUnlock, Release
  <2>4. FreshInv'
    BY <1>4 DEF NextUnlock, Release
  <2>5. PassedInv'
    BY <1>4 DEF NextUnlock, Release
  <2>6. QED
    BY <2>1, <2>2, <2>3, <2>4, <2>5
<1>5. ASSUME NEW p \in Procs, Open(p) PROVE ClaimInv'
  <2>1. TakeInv'
    BY <1>5 DEF Open
  <2>2. OwnInv'
    BY <1>5 DEF Open
  <2>3. OneOwnerInv'
    BY <1>5 DEF Open
  <2>4. FreshInv'
    BY <1>5 DEF Open
  <2>5. PassedInv'
    <3> SUFFICES ASSUME NEW b \in Blocks, b < next', status'[b] = "none"
                 PROVE  \E q \in Procs : Owns(q)' /\ idx'[q] = b
      OBVIOUS
    <3>1. status[b] = "none" /\ b < next
      BY <1>5 DEF Open
    <3>2. PICK q \in Procs : Owns(q) /\ idx[q] = b
      BY <3>1
    <3>3. Owns(q)' /\ idx'[q] = b
      BY <1>5, <3>2 DEF Open
    <3>4. QED
      BY <3>3
  <2>6. QED
    BY <2>1, <2>2, <2>3, <2>4, <2>5
<1>6. ASSUME NEW p \in Procs, Codec(p) PROVE ClaimInv'
  <2>1. TakeInv'
    BY <1>6 DEF Codec
  <2>2. OwnInv'
    BY <1>6 DEF Codec
  <2>3. OneOwnerInv'
    BY <1>6 DEF Codec
  <2>4. FreshInv'
    BY <1>6 DEF Codec
  <2>5. PassedInv'
    <3> SUFFICES ASSUME NEW b \in Blocks, b < next', status'[b] = "none"
                 PROVE  \E q \in Procs : Owns(q)' /\ idx'[q] = b
      OBVIOUS
    <3>1. status[b] = "none" /\ b < next
      BY <1>6 DEF Codec
    <3>2. PICK q \in Procs : Owns(q) /\ idx[q] = b
      BY <3>1
    <3>3. Owns(q)' /\ idx'[q] = b
      BY <1>6, <3>2 DEF Codec
    <3>4. QED
      BY <3>3
  <2>6. QED
    BY <2>1, <2>2, <2>3, <2>4, <2>5
<1>7. ASSUME NEW p \in Procs, FailLock(p) PROVE ClaimInv'
  <2>1. \A q \in Procs : (Owns(q) <=> Owns(q)') /\ (pc'[q] = "take" => pc[q] = "take")
    BY <1>7 DEF FailLock, Acquire
  <2>2. UNCHANGED <<next, failed, idx, status>>
    BY <1>7 DEF FailLock
  <2>3. QED
    BY <2>1, <2>2, ClaimStable
<1>8. ASSUME NEW p \in Procs, FailSet(p) PROVE ClaimInv'
  BY <1>8 DEF FailSet
<1>9. ASSUME NEW p \in Procs, FailUnlock(p) PROVE ClaimInv'
  <2>1. \A q \in Procs : (Owns(q) <=> Owns(q)') /\ (pc'[q] = "take" => pc[q] = "take")
    BY <1>9 DEF FailUnlock, Release
  <2>2. UNCHANGED <<next, failed, idx, status>>
    BY <1>9 DEF FailUnlock
  <2>3. QED
    BY <2>1, <2>2, ClaimStable
<1>10. CASE RunSetup
  BY <1>10 DEF RunSetup
<1>11. CASE RunSpawn
  BY <1>11 DEF RunSpawn
<1>12. CASE RunSpawned
  <2>1. \A q \in Procs : (Owns(q) <=> Owns(q)') /\ (pc'[q] = "take" => pc[q] = "take")
    BY <1>12 DEF RunSpawned
  <2>2. UNCHANGED <<next, failed, idx, status>>
    BY <1>12 DEF RunSpawned
  <2>3. QED
    BY <2>1, <2>2, ClaimStable
<1>13. CASE RunSerial
  BY <1>13 DEF RunSerial
<1>14. CASE RunJoin
  BY <1>14 DEF RunJoin
<1>15. CASE RunReturn
  BY <1>15 DEF RunReturn
<1>16. CASE UNCHANGED vars
  BY <1>16 DEF vars
<1>17. QED
  BY <1>1, <1>2, <1>3, <1>4, <1>5, <1>6, <1>7, <1>8, <1>9, <1>10, <1>11, <1>12, <1>13,
     <1>14, <1>15, <1>16 DEF Next, Main, Worker, Finished

\* Every step preserves the agreement of the flag with the failed blocks.
LEMMA FaultStep == IInv /\ [Next]_vars => FaultInv'
<1> SUFFICES ASSUME IInv, [Next]_vars PROVE FaultInv'
  OBVIOUS
<1> USE WantType, PoolAssumption DEF IInv, TypeOK, ClaimInv, TakeInv, OwnInv,
        FaultInv, PhaseInv, Procs, Threads, Caller, Goto, mainVars, poolVars, Blocks,
        Failures, Owns
<1>1. ASSUME NEW p \in Procs, NextLock(p) PROVE FaultInv'
  BY <1>1 DEF NextLock, Acquire
<1>2. ASSUME NEW p \in Procs, NextTest(p) PROVE FaultInv'
  <2>1. CASE CanClaim
    <3>1. \A q \in Procs : pc'[q] \in {"fail", "set"} <=> pc[q] \in {"fail", "set"}
      BY <1>2, <2>1 DEF NextTest
    <3>2. QED
      BY <1>2, <3>1 DEF NextTest
  <2>2. CASE ~CanClaim
    BY <1>2, <2>2 DEF NextTest, CanClaim
  <2>3. QED
    BY <2>1, <2>2
<1>3. ASSUME NEW p \in Procs, NextTake(p) PROVE FaultInv'
  BY <1>3 DEF NextTake
<1>4. ASSUME NEW p \in Procs, NextUnlock(p) PROVE FaultInv'
  BY <1>4 DEF NextUnlock, Release
<1>5. ASSUME NEW p \in Procs, Open(p) PROVE FaultInv'
  <2>1. idx[p] \in Blocks /\ status[idx[p]] = "none"
    BY <1>5 DEF Open
  <2>2. failed' = failed /\ \A q \in Procs : q # p => pc'[q] = pc[q]
    BY <1>5 DEF Open
  <2>3. CASE pc'[p] = "fail"
    <3>1. status'[idx[p]] \in Failures
      BY <1>5, <2>1, <2>3 DEF Open
    <3>2. QED
      BY <2>1, <2>3, <3>1
  <2>4. CASE pc'[p] # "fail"
    <3>1. \A b \in Blocks : status'[b] \in Failures <=> status[b] \in Failures
      BY <1>5, <2>1, <2>4 DEF Open
    <3>2. \A q \in Procs : pc'[q] \in {"fail", "set"} <=> pc[q] \in {"fail", "set"}
      BY <1>5, <2>2, <2>4 DEF Open
    <3>3. QED
      BY <2>2, <3>1, <3>2
  <2>5. QED
    BY <2>3, <2>4
<1>6. ASSUME NEW p \in Procs, Codec(p) PROVE FaultInv'
  <2>1. idx[p] \in Blocks /\ status[idx[p]] = "none"
    BY <1>6 DEF Codec
  <2>2. failed' = failed /\ \A q \in Procs : q # p => pc'[q] = pc[q]
    BY <1>6 DEF Codec
  <2>3. CASE pc'[p] = "fail"
    <3>1. status'[idx[p]] \in Failures
      BY <1>6, <2>1, <2>3 DEF Codec
    <3>2. QED
      BY <2>1, <2>3, <3>1
  <2>4. CASE pc'[p] # "fail"
    <3>1. \A b \in Blocks : status'[b] \in Failures <=> status[b] \in Failures
      BY <1>6, <2>1, <2>4 DEF Codec
    <3>2. \A q \in Procs : pc'[q] \in {"fail", "set"} <=> pc[q] \in {"fail", "set"}
      BY <1>6, <2>2, <2>4 DEF Codec
    <3>3. QED
      BY <2>2, <3>1, <3>2
  <2>5. QED
    BY <2>3, <2>4
<1>7. ASSUME NEW p \in Procs, FailLock(p) PROVE FaultInv'
  BY <1>7 DEF FailLock, Acquire
<1>8. ASSUME NEW p \in Procs, FailSet(p) PROVE FaultInv'
  BY <1>8 DEF FailSet
<1>9. ASSUME NEW p \in Procs, FailUnlock(p) PROVE FaultInv'
  BY <1>9 DEF FailUnlock, Release
<1>10. CASE RunSetup
  BY <1>10 DEF RunSetup
<1>11. CASE RunSpawn
  BY <1>11 DEF RunSpawn
<1>12. CASE RunSpawned
  BY <1>12 DEF RunSpawned
<1>13. CASE RunSerial
  BY <1>13 DEF RunSerial
<1>14. CASE RunJoin
  BY <1>14 DEF RunJoin
<1>15. CASE RunReturn
  BY <1>15 DEF RunReturn
<1>16. CASE UNCHANGED vars
  BY <1>16 DEF vars
<1>17. QED
  BY <1>1, <1>2, <1>3, <1>4, <1>5, <1>6, <1>7, <1>8, <1>9, <1>10, <1>11, <1>12, <1>13,
     <1>14, <1>15, <1>16 DEF Next, Main, Worker, Finished

\* Every step preserves the reason why a worker stops.
LEMMA ExitStep == IInv /\ [Next]_vars => ExitInv'
<1> SUFFICES ASSUME IInv, [Next]_vars PROVE ExitInv'
  OBVIOUS
<1> USE WantType, PoolAssumption DEF IInv, TypeOK, ClaimInv, TakeInv, ExitInv,
        PhaseInv, Procs, Threads, Caller, Goto, mainVars, poolVars
<1>1. ASSUME NEW p \in Procs, NextLock(p) PROVE ExitInv'
  BY <1>1 DEF NextLock, Acquire
<1>2. ASSUME NEW p \in Procs, NextTest(p) PROVE ExitInv'
  BY <1>2 DEF NextTest, CanClaim
<1>3. ASSUME NEW p \in Procs, NextTake(p) PROVE ExitInv'
  BY <1>3 DEF NextTake
<1>4. ASSUME NEW p \in Procs, NextUnlock(p) PROVE ExitInv'
  BY <1>4 DEF NextUnlock, Release
<1>5. ASSUME NEW p \in Procs, Open(p) PROVE ExitInv'
  BY <1>5 DEF Open
<1>6. ASSUME NEW p \in Procs, Codec(p) PROVE ExitInv'
  BY <1>6 DEF Codec
<1>7. ASSUME NEW p \in Procs, FailLock(p) PROVE ExitInv'
  BY <1>7 DEF FailLock, Acquire
<1>8. ASSUME NEW p \in Procs, FailSet(p) PROVE ExitInv'
  BY <1>8 DEF FailSet
<1>9. ASSUME NEW p \in Procs, FailUnlock(p) PROVE ExitInv'
  BY <1>9 DEF FailUnlock, Release
<1>10. CASE RunSetup
  BY <1>10 DEF RunSetup
<1>11. CASE RunSpawn
  BY <1>11 DEF RunSpawn
<1>12. CASE RunSpawned
  BY <1>12 DEF RunSpawned
<1>13. CASE RunSerial
  BY <1>13 DEF RunSerial
<1>14. CASE RunJoin
  BY <1>14 DEF RunJoin
<1>15. CASE RunReturn
  BY <1>15 DEF RunReturn
<1>16. CASE UNCHANGED vars
  BY <1>16 DEF vars
<1>17. QED
  BY <1>1, <1>2, <1>3, <1>4, <1>5, <1>6, <1>7, <1>8, <1>9, <1>10, <1>11, <1>12, <1>13,
     <1>14, <1>15, <1>16 DEF Next, Main, Worker, Finished

\* Every step preserves what the caller knows of the workers.
LEMMA PhaseStep == IInv /\ [Next]_vars => PhaseInv'
<1> SUFFICES ASSUME IInv, [Next]_vars PROVE PhaseInv'
  OBVIOUS
<1> USE WantType, PoolAssumption DEF IInv, TypeOK, ClaimInv, TakeInv, OwnInv,
        PassedInv, FaultInv, ExitInv, PhaseInv, Procs, Threads, Caller, Goto,
        mainVars, poolVars, Blocks, Failures, Pending, Dead, Owns
<1>1. ASSUME NEW p \in Procs, NextLock(p) PROVE PhaseInv'
  BY <1>1 DEF NextLock, Acquire
<1>2. ASSUME NEW p \in Procs, NextTest(p) PROVE PhaseInv'
  BY <1>2 DEF NextTest, CanClaim
<1>3. ASSUME NEW p \in Procs, NextTake(p) PROVE PhaseInv'
  BY <1>3 DEF NextTake
<1>4. ASSUME NEW p \in Procs, NextUnlock(p) PROVE PhaseInv'
  BY <1>4 DEF NextUnlock, Release
<1>5. ASSUME NEW p \in Procs, Open(p) PROVE PhaseInv'
  BY <1>5, SMTT(30) DEF Open
<1>6. ASSUME NEW p \in Procs, Codec(p) PROVE PhaseInv'
  BY <1>6 DEF Codec
<1>7. ASSUME NEW p \in Procs, FailLock(p) PROVE PhaseInv'
  BY <1>7 DEF FailLock, Acquire
<1>8. ASSUME NEW p \in Procs, FailSet(p) PROVE PhaseInv'
  BY <1>8 DEF FailSet
<1>9. ASSUME NEW p \in Procs, FailUnlock(p) PROVE PhaseInv'
  BY <1>9 DEF FailUnlock, Release
<1>10. CASE RunSetup
  BY <1>10 DEF RunSetup
<1>11. CASE RunSpawn
  BY <1>11 DEF RunSpawn
<1>12. CASE RunSpawned
  BY <1>12 DEF RunSpawned
<1>13. CASE RunSerial
  BY <1>13 DEF RunSerial
<1>14. CASE RunJoin
  BY <1>14 DEF RunJoin
<1>15. CASE RunReturn
  <2>1. \A q \in Procs : pc[q] \in {"none", "done"}
    BY <1>15 DEF RunReturn
  <2>2. CASE failed
    BY <1>15, <2>1, <2>2 DEF RunReturn
  <2>3. CASE ~failed
    <3>1. \E q \in Procs : pc[q] = "done"
      BY <1>15 DEF RunReturn
    <3>2. next = NBlock
      BY <2>3, <3>1
    <3>3. \A b \in Blocks : status[b] # "none"
      BY <2>1, <3>2
    <3>4. \A b \in Blocks : status[b] \notin Failures
      BY <2>1, <2>3
    <3>5. \A b \in Blocks : status[b] = "done"
      BY <3>3, <3>4
    <3>6. QED
      BY <1>15, <2>1, <2>3, <3>5 DEF RunReturn
  <2>4. QED
    BY <2>2, <2>3
<1>16. CASE UNCHANGED vars
  BY <1>16 DEF vars
<1>17. QED
  BY <1>1, <1>2, <1>3, <1>4, <1>5, <1>6, <1>7, <1>8, <1>9, <1>10, <1>11, <1>12, <1>13,
     <1>14, <1>15, <1>16 DEF Next, Main, Worker, Finished

-----------------------------------------------------------------------------
\* The invariant holds in every reachable state of the pool.
THEOREM Invariance == Spec => []IInv
<1>1. IInv /\ [Next]_vars => IInv'
  BY TypeStep, LockStep, ClaimStep, FaultStep, ExitStep, PhaseStep DEF IInv
<1>2. QED
  BY InitInv, <1>1, PTL DEF Spec

\* Every reachable state has the declared types: a claimed number is always a
\* block, so no worker reads past the end of pool->blocks.
THEOREM TypeCorrect == Spec => []TypeOK
BY Invariance, PTL DEF IInv

\* No two workers ever work on one block and none is lost between them.
THEOREM Partitioned == Spec => []BlocksPartitioned
<1>1. IInv => BlocksPartitioned
  <2> SUFFICES ASSUME IInv, NEW b \in Blocks
               PROVE LET owners == {p \in Procs : Owns(p) /\ idx[p] = b}
                     IN  IF b >= next THEN status[b] = "none" /\ owners = {}
                         ELSE IF status[b] = "none" THEN \E p \in Procs : owners = {p}
                         ELSE owners = {}
    BY DEF BlocksPartitioned
  <2> DEFINE owners == {p \in Procs : Owns(p) /\ idx[p] = b}
  <2> USE DEF IInv, TypeOK, ClaimInv
  <2>1. CASE b >= next
    <3>1. owners = {}
      BY <2>1, WantType, PoolAssumption DEF OwnInv, Blocks, Procs
    <3>2. QED
      BY <2>1, <3>1 DEF FreshInv
  <2>2. CASE b < next /\ status[b] = "none"
    <3>1. PICK p \in Procs : Owns(p) /\ idx[p] = b
      BY <2>2 DEF PassedInv
    <3>2. owners = {p}
      BY <3>1 DEF OneOwnerInv
    <3>3. QED
      BY <2>2, <3>1, <3>2, PoolAssumption DEF Blocks
  <2>3. CASE b < next /\ status[b] # "none"
    <3>1. owners = {}
      BY <2>3 DEF OwnInv
    <3>2. QED
      BY <2>3, <3>1, PoolAssumption DEF Blocks
  <2>4. QED
    BY <2>1, <2>2, <2>3, PoolAssumption DEF Blocks
<1>2. QED
  BY Invariance, <1>1, PTL

\* When zmat_pool_run has returned no worker can touch the pool again.
THEOREM JoinedBeforeReturn == Spec => []NoWorkerOutlivesPool
<1>1. IInv => NoWorkerOutlivesPool
  BY DEF IInv, PhaseInv, NoWorkerOutlivesPool, Returned
<1>2. QED
  BY Invariance, <1>1, PTL

\* After the first failure no further block is claimed.
THEOREM StopsEarly == Spec => NoClaimAfterFailure
<1>1. IInv /\ [Next]_vars => [failed => failed' /\ next' = next]_vars
  <2> SUFFICES ASSUME IInv, Next, failed PROVE failed' /\ next' = next
    BY DEF vars
  <2>1. ASSUME NEW p \in Procs, Worker(p) PROVE failed' /\ next' = next
    BY <2>1 DEF Worker, NextLock, NextTest, NextTake, NextUnlock, Open, Codec, FailLock,
                FailSet, FailUnlock, poolVars, IInv, ClaimInv, TakeInv
  <2>2. CASE Main
    BY <2>2 DEF Main, RunSetup, RunSpawn, RunSpawned, RunSerial, RunJoin, RunReturn,
       poolVars
  <2>3. CASE Finished
    BY <2>3 DEF Finished, vars
  <2>4. QED
    BY <2>1, <2>2, <2>3 DEF Next
<1>2. QED
  BY Invariance, <1>1, PTL DEF Spec, NoClaimAfterFailure

\* However many threads run, and whichever can be created, the pool does the
\* job of ZmatJob: each block at most once, and the answer 0 only when all are done.
THEOREM PoolImplementsJob == Spec => ImplementsJob
<1> USE DEF Job!Blocks, Job!Failures, Job!Pending, Job!vars, Blocks, Failures, Pending
<1>1. Init => Job!Init
  BY DEF Init, Job!Init
<1>2. IInv /\ IInv' /\ [Next]_vars => [Job!Next]_Job!vars
  <2> SUFFICES ASSUME IInv, IInv', [Next]_vars PROVE [Job!Next]_Job!vars
    OBVIOUS
  <2>1. ASSUME NEW p \in Procs, NextLock(p) \/ NextTest(p) \/ NextTake(p) \/ NextUnlock(p)
                                \/ FailLock(p) \/ FailSet(p) \/ FailUnlock(p)
        PROVE  UNCHANGED Job!vars
    BY <2>1 DEF NextLock, NextTest, NextTake, NextUnlock, FailLock, FailSet,
       FailUnlock, mainVars
  <2>2. ASSUME NEW p \in Procs, Open(p) \/ Codec(p) PROVE [Job!Next]_Job!vars
    <3>1. idx[p] \in Blocks /\ status[idx[p]] = "none"
      BY <2>2, PoolAssumption DEF IInv, TypeOK, ClaimInv, OwnInv, Owns, Open, Codec
    <3>2. rc = Pending /\ rc' = rc
      BY <2>2 DEF IInv, PhaseInv, Open, Codec, mainVars
    <3>3. status' = status \/ \E s \in {"done"} \cup Failures :
                                 status' = [status EXCEPT ![idx[p]] = s]
      BY <2>2 DEF Open, Codec
    <3>4. QED
      BY <3>1, <3>2, <3>3 DEF Job!Next, Job!Process
  <2>3. CASE RunSetup
    <3>1. rc = Pending /\ next = 0
      BY <2>3 DEF RunSetup, IInv, PhaseInv
    <3>2. \A b \in Blocks : status[b] = "none"
      BY <3>1, PoolAssumption DEF IInv, ClaimInv, FreshInv
    <3>3. QED
      BY <2>3, <3>1, <3>2 DEF RunSetup, Job!Next, Job!Answer
  <2>4. CASE RunSpawn \/ RunSpawned \/ RunSerial \/ RunJoin \/ Finished \/ UNCHANGED vars
    BY <2>4 DEF RunSpawn, RunSpawned, RunSerial, RunJoin, Finished, vars
  <2>5. CASE RunReturn
    BY <2>5 DEF RunReturn, IInv, PhaseInv, Job!Next, Job!Answer
  <2>6. QED
    BY <2>1, <2>2, <2>3, <2>4, <2>5 DEF Next, Main, Worker
<1>3. QED
  BY <1>1, <1>2, Invariance, PTL DEF Spec, ImplementsJob, Job!Spec
=============================================================================
