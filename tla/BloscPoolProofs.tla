--------------------------- MODULE BloscPoolProofs ---------------------------
(***************************************************************************)
(* Proofs about BloscPool: the threads and the caller meet at the barriers, *)
(* for any number of threads, documents and calls and on both kinds of      *)
(* barrier.                                                                 *)
(*                                                                          *)
(* Where the caller is says what the threads may do.  While it works on the *)
(* context they gather at the first barrier; while it waits for the end of  *)
(* a job, or of the pool, they have left it.  Which of these is so is what  *)
(* the two counters count: CountInv says how many have arrived, and an      *)
(* arrival is the last one only when all the others are there.              *)
(*                                                                          *)
(* On top of that, what the threads do with the blocks of a document.  The  *)
(* blocks handed out beforehand are apart, and each thread takes those of   *)
(* its share one after another (StaticInv).  From the queue a thread takes  *)
(* the next block and, under the lock, the next room in the output: the     *)
(* blocks that have a room tile the output as far as it is filled, each     *)
(* block taken is in one thread's hands or has its room, and whoever writes *)
(* a block writes it into its room (QueueInv).  When a thread gives up,     *)
(* GiveupInv says why.  The answer is a sum over the blocks, which the      *)
(* model writes as a fold: the laws of that sum come first, by induction on *)
(* the size of the set.                                                     *)
(***************************************************************************)
EXTENDS BloscPool, TLAPS, FiniteSetTheorems

WorkerLabels == {"none", "init", "woken", "gone"} \cup InJob
CallerLabels == {"idle", "check", "release", "join", "threads", "create", "header", "run", "start",
                 "finish", "collect", "answer"}
Places == {"no"} \cup Barriers

TypeOK ==
  /\ posix \in BOOLEAN
  /\ g_nthreads \in 1 .. MaxThreads /\ nthreads \in 1 .. MaxThreads
  /\ new_nthreads = g_nthreads /\ started \in 0 .. MaxThreads
  /\ width \in Nat \ {0} /\ arrived \in [Barriers -> Int] /\ count \in Int
  /\ asleep \in [Procs -> Places] /\ pc \in [Procs -> CallerLabels \cup WorkerLabels]
  /\ onto \in {"header", "run"} /\ tid \in Nat

-----------------------------------------------------------------------------
(* The caller *)

\* How many threads the context counts on, at each point of check_nthreads and outside it.
FitInv ==
  /\ started # 0 => started = nthreads /\ nthreads > 1
  /\ pc[Caller] \in {"idle", "header", "run", "start", "finish", "collect", "answer"} =>
       nthreads = g_nthreads /\ started = IF nthreads = 1 THEN 0 ELSE nthreads
  /\ pc[Caller] \in {"threads", "create"} =>
       started = 0 /\ nthreads > 1 /\ nthreads = g_nthreads
  /\ pc[Caller] \in {"release", "join", "start", "finish", "collect"} => started # 0
  /\ pc[Caller] = "join" => tid \in 1 .. (started + 1)
  /\ pc[Caller] = "create" => tid \in 1 .. (nthreads + 1)
  /\ started # 0 \/ pc[Caller] = "create" => width = nthreads + 1
  /\ end_threads <=> pc[Caller] = "join"
  /\ pc[Caller] \in CallerLabels

\* The caller has been through the first barrier, for a job or to end the pool.
Working == \/ pc[Caller] = "finish" /\ asleep[Caller] = "no"
           \/ pc[Caller] = "collect" /\ asleep[Caller] = "finish"
Ending == pc[Caller] = "join" /\ asleep[Caller] = "no"
Gathering == ~Working /\ ~Ending

-----------------------------------------------------------------------------
(* The threads *)

\* The threads that exist.
Team == IF pc[Caller] = "create" THEN 1 .. (tid - 1)
        ELSE IF Ending THEN tid .. started
        ELSE 1 .. started

TeamInv ==
  /\ asleep[Caller] = "init" => pc[Caller] \in {"finish", "join"}
  /\ asleep[Caller] = "finish" => pc[Caller] = "collect"
  /\ pc[Caller] = "join" /\ asleep[Caller] = "init" => tid = 1
  /\ \A w \in Workers :
       /\ pc[w] # "none" <=> w \in Team
       /\ pc[w] = "none" => asleep[w] = "no"
       /\ w \in Team /\ Gathering => \/ pc[w] = "init" /\ asleep[w] = "no"
                                     \/ pc[w] = "woken" /\ asleep[w] = "init"
       /\ w \in Team /\ Working => \/ pc[w] \in {"woken"} \cup InJob /\ asleep[w] = "no"
                                   \/ pc[w] = "init" /\ asleep[w] = "finish"
       /\ w \in Team /\ Ending => pc[w] \in {"woken", "gone"} /\ asleep[w] = "no"

\* Who waits at a barrier, and what its counter says.
Waiters(barrier) == {p \in Procs : asleep[p] = barrier}

CountInv ==
  /\ posix => /\ arrived["init"] = Cardinality(Waiters("init"))
              /\ arrived["finish"] = Cardinality(Waiters("finish"))
  /\ ~posix /\ Gathering => count = Cardinality(Waiters("init"))
  /\ ~posix /\ Working => count = nthreads - Cardinality(Waiters("finish"))

IInv == TypeOK /\ FitInv /\ TeamInv /\ CountInv


-----------------------------------------------------------------------------
\* Before the first call the pool is at rest.
LEMMA InitInv == Init => IInv
<1> SUFFICES ASSUME Init PROVE IInv
  OBVIOUS
<1>1. MaxThreads \in Nat \ {0} /\ Caller \notin Workers /\ Procs = {Caller} \cup Workers
  BY BloscAssumption DEF Caller, Workers, Procs
<1>2. TypeOK
  BY <1>1 DEF Init, TypeOK, Barriers, Places, CallerLabels, WorkerLabels, Procs, Caller
<1>3. FitInv
  BY <1>1 DEF Init, FitInv, CallerLabels, Procs
<1>4. Team = {} /\ \A w \in Workers : pc[w] = "none" /\ asleep[w] = "no"
  BY <1>1 DEF Init, Team, Ending, Procs
<1>5. TeamInv
  BY <1>1, <1>4 DEF Init, TeamInv, Procs
<1>6. CountInv
  <2>1. Waiters("init") = {} /\ Waiters("finish") = {}
    BY DEF Init, Waiters
  <2>2. ~Working
    BY <1>1 DEF Init, Working, Procs
  <2> QED BY <2>1, <2>2, FS_EmptySet DEF Init, CountInv, Barriers
<1> QED BY <1>2, <1>3, <1>5, <1>6 DEF IInv

-----------------------------------------------------------------------------
(* Barriers *)

\* When n of n + 1 have arrived, they are all but the one who comes.
LEMMA Crowd ==
  ASSUME NEW n \in Nat, NEW p \in 0 .. n, NEW S, S \subseteq (0 .. n) \ {p}
  PROVE  /\ IsFiniteSet(S) /\ Cardinality(S) \in 0 .. n
         /\ Cardinality(S \cup {p}) = Cardinality(S) + 1
         /\ Cardinality(S) = n => S = (0 .. n) \ {p}
<1>1. IsFiniteSet(0 .. n) /\ Cardinality(0 .. n) = n + 1
  BY FS_Interval
<1> DEFINE Others == (0 .. n) \ {p}
<1>2. IsFiniteSet(Others) /\ Cardinality(Others) = n
  <2>1. IsFiniteSet(Others) /\ Cardinality(Others) = Cardinality(0 .. n) - 1
    BY <1>1, FS_RemoveElement
  <2> QED BY <1>1, <2>1
<1>3. IsFiniteSet(S) /\ Cardinality(S) <= n /\ (Cardinality(S) = n => S = Others)
  <2>1. S \in SUBSET Others
    OBVIOUS
  <2> HIDE DEF Others
  <2> QED BY <1>2, <2>1, FS_Subset
<1>4. Cardinality(S) \in Nat
  BY <1>3, FS_CardinalityType
<1>5. Cardinality(S \cup {p}) = Cardinality(S) + 1
  BY <1>3, FS_AddElement
<1> QED BY <1>3, <1>4, <1>5

\* An arrival is the last one only when all the others wait, and then it wakes them;
\* otherwise it waits with them and is counted.
LEMMA Arrival ==
  ASSUME TypeOK, CountInv, UNCHANGED <<posix, nthreads>>, NEW p \in 0 .. nthreads, NEW then,
         NEW b \in Barriers, NEW c \in Barriers \ {b}, Arrive(p, b, then), asleep[p] = "no",
         width = nthreads + 1, \A q \in Procs : asleep[q] # "no" => asleep[q] = b /\ q \in 0 .. nthreads,
         ~posix => count = IF b = "init" THEN Cardinality(Waiters(b))
                           ELSE nthreads - Cardinality(Waiters(b))
  PROVE  /\ pc' = [pc EXCEPT ![p] = then]
         /\ posix => \A x \in Barriers : arrived'[x] = Cardinality(Waiters(x)')
         /\ \/ /\ \A q \in (0 .. nthreads) \ {p} : asleep[q] = b
               /\ asleep' = [q \in Procs |-> "no"]
               /\ ~posix => count' = IF b = "init" THEN nthreads ELSE 0
            \/ /\ asleep' = [asleep EXCEPT ![p] = b]
               /\ ~posix => count' = IF b = "init" THEN Cardinality(Waiters(b)')
                                     ELSE nthreads - Cardinality(Waiters(b)')
<1>1. /\ nthreads \in Nat /\ 0 .. nthreads \subseteq Procs /\ "no" \notin Barriers
      /\ Barriers = {b, c} /\ b # c /\ arrived \in [Barriers -> Int] /\ asleep \in [Procs -> Places]
  BY BloscAssumption DEF TypeOK, Procs, Caller, Workers, Barriers
<1> DEFINE S == Waiters(b)
           k == Cardinality(S)
<1>2. S \subseteq (0 .. nthreads) \ {p}
  BY <1>1 DEF Waiters
<1>3. k \in 0 .. nthreads /\ Cardinality(S \cup {p}) = k + 1 /\ (k = nthreads => S = (0 .. nthreads) \ {p})
  <2> HIDE DEF S
  <2>1. /\ IsFiniteSet(S) /\ Cardinality(S) \in 0 .. nthreads
        /\ Cardinality(S \cup {p}) = Cardinality(S) + 1
        /\ Cardinality(S) = nthreads => S = (0 .. nthreads) \ {p}
    BY <1>1, <1>2, Crowd, Zenon
  <2> QED BY <2>1
<1>4. Waiters(c) = {} /\ Cardinality(Waiters(c)) = 0 /\ Cardinality({}) = 0
  BY <1>1, FS_EmptySet DEF Waiters
<1>5. posix => arrived[b] = k /\ arrived[c] = 0
  BY <1>4 DEF CountInv, Barriers
<1>6. LastAt(b) <=> k = nthreads
  <2> HIDE DEF k
  <2>1. CASE posix
    BY <1>1, <1>3, <1>5, <2>1 DEF LastAt
  <2>2. CASE ~posix
    BY <1>1, <1>3, <2>2 DEF LastAt, k, S
  <2> QED BY <2>1, <2>2
<1> HIDE DEF k
<1>7. /\ pc' = [pc EXCEPT ![p] = then]
      /\ posix => arrived' = [arrived EXCEPT ![b] = (k + 1) % (nthreads + 1)]
      /\ count' = IF posix \/ LastAt(b) THEN count
                  ELSE IF b = "init" THEN count + 1 ELSE count - 1
      /\ asleep' = IF ~LastAt(b) THEN [asleep EXCEPT ![p] = b]
                   ELSE [q \in Procs |-> IF posix /\ asleep[q] # b THEN asleep[q] ELSE "no"]
  BY <1>1, <1>5 DEF Arrive, Goto
<1>8. CASE k = nthreads
  <2>1. \A q \in (0 .. nthreads) \ {p} : asleep[q] = b
    BY <1>3, <1>8 DEF Waiters
  <2>2. asleep' = [q \in Procs |-> "no"]
    BY <1>1, <1>6, <1>7, <1>8
  <2>3. \A x \in Barriers : Waiters(x)' = {}
    BY <1>1, <2>2 DEF Waiters
  <2>4. (k + 1) % (nthreads + 1) = 0
    BY <1>1, <1>8
  <2>5. posix => \A x \in Barriers : arrived'[x] = 0
    BY <1>1, <1>5, <1>7, <2>4
  <2>6. ~posix => count' = IF b = "init" THEN nthreads ELSE 0
    BY <1>1, <1>6, <1>7, <1>8 DEF k
  <2> QED BY <1>4, <1>7, <2>1, <2>2, <2>3, <2>5, <2>6
<1>9. CASE k # nthreads
  <2>1. asleep' = [asleep EXCEPT ![p] = b]
    BY <1>6, <1>7, <1>9
  <2>2. Waiters(b)' = S \cup {p} /\ Waiters(c)' = {}
    BY <1>1, <1>4, <2>1 DEF Waiters
  <2>3. (k + 1) % (nthreads + 1) = k + 1
    BY <1>1, <1>3, <1>9
  <2>4. posix => arrived'[b] = k + 1 /\ arrived'[c] = 0
    BY <1>1, <1>5, <1>7, <2>3
  <2>5. ~posix => count' = IF b = "init" THEN k + 1 ELSE nthreads - (k + 1)
    BY <1>1, <1>3, <1>6, <1>7, <1>9 DEF k
  <2> QED BY <1>1, <1>3, <1>4, <1>7, <2>1, <2>2, <2>4, <2>5 DEF k
<1> QED BY <1>8, <1>9


-----------------------------------------------------------------------------
(* The steps *)

\* A step of a thread moves that thread only, and touches nothing the caller counts on.
LEMMA WorkerMoves ==
  ASSUME IInv, NEW w \in Workers, WorkerStep(w)
  PROVE  /\ UNCHANGED <<posix, g_nthreads, nthreads, new_nthreads, started, end_threads, width, tid, onto>>
         /\ pc[w] # "none" /\ asleep[w] = "no" /\ w \in Procs /\ w # Caller
         /\ \E l \in WorkerLabels \ {"none"} : pc' = [pc EXCEPT ![w] = l]
         /\ WaitInit(w) \/ WaitFinish(w) \/ UNCHANGED syncVars
<1>1. w \in Procs /\ w # Caller /\ WorkerLabels \ {"none"} = {"init", "woken", "gone"} \cup InJob
  BY DEF Workers, Procs, Caller, WorkerLabels, InJob
<1> USE DEF At, Goto, poolVars, syncVars, jobVars, sharedVars, workerVars, callerVars, InJob
<1>2. CASE WaitInit(w)
  BY <1>1, <1>2 DEF WaitInit, Arrive
<1>3. CASE WaitFinish(w)
  BY <1>1, <1>3 DEF WaitFinish, Arrive
<1>4. CASE Leave(w) \/ TakeShare(w) \/ TakeNext(w) \/ Copy(w) \/ EndStatic(w)
  BY <1>1, <1>4 DEF Leave, TakeShare, TakeNext, Copy, EndStatic
<1>5. CASE Loop(w) \/ Fail(w)
  BY <1>1, <1>5 DEF Loop, Fail, LoopEnd
<1>6. CASE Code(w)
  BY <1>1, <1>6 DEF Code, LoopEnd
<1>7. CASE Publish(w)
  BY <1>1, <1>7 DEF Publish, LoopEnd
<1> QED BY <1>2, <1>3, <1>4, <1>5, <1>6, <1>7 DEF WorkerStep

\* The steps in which the caller works on the context.
CallerAlone == Call \/ Check \/ WriteHeader \/ RunSerial \/ StartParallel \/ Collect \/ Retry \/ Answer

\* What a step of the caller leaves alone.
LEMMA CallerMoves ==
  ASSUME IInv, CallerAlone
  PROVE  /\ UNCHANGED <<posix, started, width, tid, syncVars>>
         /\ asleep[Caller] = "no" /\ pc[Caller] \notin {"create", "finish", "join"}
         /\ \E l \in CallerLabels \ {"create", "finish", "join", "collect"} :
              pc' = [pc EXCEPT ![Caller] = l]
<1> USE DEF CallerAlone, At, Goto, poolVars, syncVars, jobVars, sharedVars, workerVars, callerVars,
            CallerLabels
<1>1. CASE Call
  BY <1>1 DEF Call
<1>2. CASE Check
  BY <1>2 DEF Check, IInv, TypeOK
<1>3. CASE WriteHeader \/ Retry
  BY <1>3 DEF WriteHeader, Retry, NewJob
<1>4. CASE RunSerial \/ StartParallel \/ Collect \/ Answer
  BY <1>4 DEF RunSerial, StartParallel, Collect, Answer
<1> QED BY <1>1, <1>2, <1>3, <1>4

\* Every step keeps the types.
LEMMA TypeStep ==
  ASSUME IInv, [Next]_vars
  PROVE  TypeOK'
<1>1. /\ TypeOK /\ FitInv /\ MaxThreads \in Nat \ {0} /\ Procs = {Caller} \cup Workers
      /\ \A n \in 1 .. MaxThreads : n \in Procs
  BY BloscAssumption DEF IInv, Procs, Workers
<1> USE DEF At, Goto, poolVars, syncVars, jobVars, sharedVars, workerVars, callerVars
<1>2. ASSUME NEW p \in Procs, NEW b \in Barriers, NEW then, then \in CallerLabels \cup WorkerLabels,
             Arrive(p, b, then), width' = width
      PROVE  /\ arrived' \in [Barriers -> Int] /\ count' \in Int /\ asleep' \in [Procs -> Places]
             /\ pc' \in [Procs -> CallerLabels \cup WorkerLabels]
  <2>1. pc' \in [Procs -> CallerLabels \cup WorkerLabels]
    BY <1>1, <1>2 DEF Arrive, TypeOK
  <2>2. (arrived[b] + 1) % width \in Int
    BY <1>1, <1>2 DEF TypeOK
  <2>3. arrived' \in [Barriers -> Int]
    BY <1>1, <1>2, <2>2 DEF Arrive, TypeOK
  <2>4. count' \in Int
    BY <1>1, <1>2 DEF Arrive, TypeOK
  <2>5. asleep' \in [Procs -> Places]
    BY <1>1, <1>2 DEF Arrive, TypeOK, Places
  <2> QED BY <2>1, <2>3, <2>4, <2>5
<1>3. CASE UNCHANGED vars
  BY <1>1, <1>3 DEF TypeOK, vars
<1>4. CASE CallerAlone
  <2>1. /\ UNCHANGED <<posix, started, width, tid, syncVars>>
        /\ pc' \in [Procs -> CallerLabels \cup WorkerLabels]
    BY <1>1, <1>4, CallerMoves DEF TypeOK
  <2>2. /\ g_nthreads' \in 1 .. MaxThreads /\ nthreads' \in 1 .. MaxThreads
        /\ new_nthreads' = g_nthreads' /\ onto' \in {"header", "run"}
    BY <1>1, <1>4 DEF TypeOK, CallerAlone, Call, Check, WriteHeader, RunSerial, StartParallel, Collect,
                      Retry, Answer, NewJob
  <2> QED BY <1>1, <2>1, <2>2 DEF TypeOK
<1>5. CASE Release \/ AwaitInit \/ AwaitFinish
  <2>1. \E b \in Barriers, l \in CallerLabels : Arrive(Caller, b, l)
    BY <1>5 DEF Release, AwaitInit, AwaitFinish, Barriers, CallerLabels
  <2>2. /\ UNCHANGED <<posix, g_nthreads, nthreads, new_nthreads, started, width, onto>>
        /\ tid' \in {tid, 1}
    BY <1>5 DEF Release, AwaitInit, AwaitFinish
  <2> QED BY <1>1, <1>2, <2>1, <2>2 DEF TypeOK
<1>6. CASE Join
  BY <1>1, <1>6 DEF Join, TypeOK, WorkerLabels, FitInv
<1>7. CASE Released
  BY <1>1, <1>7 DEF Released, TypeOK, CallerLabels
<1>8. CASE InitThreads
  BY <1>1, <1>8 DEF InitThreads, TypeOK, CallerLabels
<1>9. CASE Create
  BY <1>1, <1>9 DEF Create, TypeOK, WorkerLabels, FitInv
<1>10. CASE Created
  BY <1>1, <1>10 DEF Created, TypeOK, CallerLabels, FitInv
<1>11. ASSUME NEW w \in Workers, WorkerStep(w) PROVE TypeOK'
  <2>1. /\ UNCHANGED <<posix, g_nthreads, nthreads, new_nthreads, started, width, tid, onto>>
        /\ pc' \in [Procs -> CallerLabels \cup WorkerLabels]
    BY <1>1, <1>11, WorkerMoves DEF TypeOK
  <2>2. CASE WaitInit(w) \/ WaitFinish(w)
    <3>1. \E b \in Barriers, l \in WorkerLabels : Arrive(w, b, l)
      BY <2>2 DEF WaitInit, WaitFinish, Barriers, WorkerLabels
    <3> QED BY <1>1, <1>2, <2>1, <3>1 DEF TypeOK
  <2>3. CASE UNCHANGED syncVars
    BY <1>1, <2>1, <2>3 DEF TypeOK
  <2> QED BY <1>11, <2>2, <2>3, WorkerMoves
<1> QED BY <1>3, <1>4, <1>5, <1>6, <1>7, <1>8, <1>9, <1>10, <1>11
        DEF Next, CallerStep, CallerAlone, Quiet

\* The caller keeps the pool to the number of threads the context asks for.
LEMMA FitStep ==
  ASSUME IInv, [Next]_vars
  PROVE  FitInv'
<1>1. TypeOK /\ FitInv /\ MaxThreads \in Nat \ {0} /\ Caller \in Procs /\ Caller \notin Workers
  BY BloscAssumption DEF IInv, Procs, Workers, Caller
<1> USE DEF At, Goto, poolVars, syncVars, jobVars, sharedVars, workerVars, callerVars, CallerLabels
<1>2. CASE UNCHANGED vars
  BY <1>1, <1>2 DEF FitInv, vars
<1>3. CASE Call
  BY <1>1, <1>3 DEF Call, FitInv, TypeOK
<1>4. CASE Check
  BY <1>1, <1>4 DEF Check, FitInv, TypeOK
<1>5. CASE WriteHeader
  BY <1>1, <1>5 DEF WriteHeader, NewJob, FitInv, TypeOK
<1>15. CASE Retry
  BY <1>1, <1>15 DEF Retry, NewJob, FitInv, TypeOK
<1>6. CASE RunSerial \/ Collect \/ Answer
  BY <1>1, <1>6 DEF RunSerial, Collect, Answer, FitInv, TypeOK
<1>7. CASE StartParallel
  BY <1>1, <1>7 DEF StartParallel, Serially, FitInv, TypeOK
<1>8. CASE Release \/ AwaitInit \/ AwaitFinish
  BY <1>1, <1>8 DEF Release, AwaitInit, AwaitFinish, Arrive, FitInv, TypeOK
<1>9. CASE Join
  <2>1. tid \in 1 .. MaxThreads /\ tid # Caller
    BY <1>1, <1>9 DEF Join, FitInv, TypeOK, Caller
  <2> QED BY <1>1, <1>9, <2>1 DEF Join, FitInv, TypeOK
<1>10. CASE Released
  BY <1>1, <1>10 DEF Released, FitInv, TypeOK
<1>11. CASE InitThreads
  BY <1>1, <1>11 DEF InitThreads, FitInv, TypeOK
<1>12. CASE Create
  <2>1. tid \in 1 .. MaxThreads /\ tid # Caller
    BY <1>1, <1>12 DEF Create, FitInv, TypeOK, Caller
  <2> QED BY <1>1, <1>12, <2>1 DEF Create, FitInv, TypeOK
<1>13. CASE Created
  BY <1>1, <1>13 DEF Created, FitInv, TypeOK
<1>14. ASSUME NEW w \in Workers, WorkerStep(w) PROVE FitInv'
  <2>1. /\ UNCHANGED <<posix, g_nthreads, nthreads, new_nthreads, started, end_threads, width, tid, onto>>
        /\ pc'[Caller] = pc[Caller]
    BY <1>1, <1>14, WorkerMoves DEF TypeOK
  <2> QED BY <1>1, <2>1 DEF FitInv
<1> QED BY <1>2, <1>3, <1>4, <1>5, <1>6, <1>7, <1>8, <1>9, <1>10, <1>11, <1>12, <1>13, <1>14, <1>15
        DEF Next, CallerStep, Quiet


-----------------------------------------------------------------------------
(* Where everybody is *)

\* Where the caller is says where the workers may be.
LEMMA Positions ==
  ASSUME IInv
  PROVE  /\ Team \subseteq 1 .. nthreads /\ Team \subseteq Workers
         /\ Gathering => \A q \in Procs : asleep[q] # "no" => asleep[q] = "init" /\ q \in {Caller} \cup Team
         /\ Working => \A q \in Procs : asleep[q] # "no" => asleep[q] = "finish" /\ q \in {Caller} \cup Team
         /\ Ending => \A q \in Procs : asleep[q] = "no"
<1>1. TypeOK /\ FitInv /\ TeamInv /\ Procs = {Caller} \cup Workers
  BY DEF IInv, Procs
<1>2. Team \subseteq 1 .. nthreads /\ Team \subseteq Workers
  <2>1. nthreads \in 1 .. MaxThreads /\ started \in 0 .. nthreads /\ MaxThreads \in Nat
    BY <1>1, BloscAssumption DEF FitInv, TypeOK
  <2>2. 1 .. started \subseteq 1 .. nthreads /\ 1 .. nthreads \subseteq Workers
    BY <2>1 DEF Workers
  <2>3. pc[Caller] = "create" => 1 .. (tid - 1) \subseteq 1 .. nthreads
    BY <1>1, <2>1 DEF FitInv
  <2>4. Ending => tid .. started \subseteq 1 .. started
    BY <1>1, <2>1 DEF FitInv, Ending
  <2> QED BY <2>2, <2>3, <2>4 DEF Team
<1>3. asleep[Caller] \in {"no", "init", "finish"}
  BY <1>1 DEF TypeOK, Places, Barriers
<1>4. \A q \in Workers \ Team : asleep[q] = "no"
  BY <1>1 DEF TeamInv
<1>5. CASE Gathering
  <2>1. asleep[Caller] # "finish" /\ ~Working /\ ~Ending
    BY <1>1, <1>5 DEF Gathering, Working, TeamInv
  <2> QED BY <1>1, <1>2, <1>3, <1>4, <1>5, <2>1 DEF TeamInv
<1>6. CASE Working
  <2>1. asleep[Caller] # "init" /\ ~Gathering /\ ~Ending
    BY <1>6 DEF Gathering, Working, Ending
  <2> QED BY <1>1, <1>2, <1>3, <1>4, <1>6, <2>1 DEF TeamInv
<1>7. CASE Ending
  <2>1. asleep[Caller] = "no" /\ ~Gathering /\ ~Working
    BY <1>7 DEF Gathering, Working, Ending
  <2> QED BY <1>1, <1>2, <1>3, <1>4, <1>7, <2>1 DEF TeamInv
<1> QED BY <1>2, <1>5, <1>6, <1>7 DEF Gathering

\* Nobody is counted at a barrier who does not wait there.
LEMMA NoneWait ==
  ASSUME NEW b \in Barriers, \A q \in Procs : asleep[q] = "no"
  PROVE  Waiters(b) = {} /\ Cardinality(Waiters(b)) = 0
<1>1. Waiters(b) = {}
  BY DEF Waiters, Barriers
<1> QED BY <1>1, FS_EmptySet

\* An arrival at the first barrier.
LEMMA InitArrival ==
  ASSUME IInv, Gathering, UNCHANGED <<posix, nthreads>>, NEW p \in {Caller} \cup Team, NEW then,
         Arrive(p, "init", then), asleep[p] = "no", started # 0 \/ pc[Caller] = "create"
  PROVE  /\ pc' = [pc EXCEPT ![p] = then]
         /\ posix => \A x \in Barriers : arrived'[x] = Cardinality(Waiters(x)')
         /\ \/ /\ \A q \in (0 .. nthreads) \ {p} : asleep[q] = "init"
               /\ \A q \in Procs : asleep'[q] = "no"
               /\ ~posix => count' = nthreads - Cardinality(Waiters("finish")')
            \/ /\ asleep' = [asleep EXCEPT ![p] = "init"]
               /\ ~posix => count' = Cardinality(Waiters("init")')
<1>1. TypeOK /\ CountInv /\ FitInv /\ nthreads \in Nat /\ Caller = 0
  BY DEF IInv, TypeOK, Caller
<1>2. p \in 0 .. nthreads /\ \A q \in Procs : asleep[q] # "no" => asleep[q] = "init" /\ q \in 0 .. nthreads
  BY <1>1, Positions
<1>3. width = nthreads + 1
  BY <1>1 DEF FitInv
<1>4. "init" \in Barriers /\ "finish" \in Barriers \ {"init"} /\ "finish" \in Barriers
  BY DEF Barriers
<1>5. /\ pc' = [pc EXCEPT ![p] = then]
      /\ posix => \A x \in Barriers : arrived'[x] = Cardinality(Waiters(x)')
      /\ \/ /\ \A q \in (0 .. nthreads) \ {p} : asleep[q] = "init"
            /\ asleep' = [q \in Procs |-> "no"]
            /\ ~posix => count' = nthreads
         \/ /\ asleep' = [asleep EXCEPT ![p] = "init"]
            /\ ~posix => count' = Cardinality(Waiters("init")')
  BY <1>1, <1>2, <1>3, <1>4, Arrival DEF CountInv
<1>6. CASE asleep' = [q \in Procs |-> "no"]
  <2>1. Waiters("finish")' = {}
    BY <1>6 DEF Waiters
  <2>2. Cardinality(Waiters("finish")') = 0
    BY <2>1, FS_EmptySet
  <2> QED BY <1>1, <1>5, <1>6, <2>2
<1> QED BY <1>5, <1>6

\* An arrival at the second one.
LEMMA FinishArrival ==
  ASSUME IInv, Working, UNCHANGED <<posix, nthreads>>, NEW p \in {Caller} \cup Team, NEW then,
         Arrive(p, "finish", then), asleep[p] = "no"
  PROVE  /\ pc' = [pc EXCEPT ![p] = then]
         /\ posix => \A x \in Barriers : arrived'[x] = Cardinality(Waiters(x)')
         /\ \/ /\ \A q \in (0 .. nthreads) \ {p} : asleep[q] = "finish"
               /\ \A q \in Procs : asleep'[q] = "no"
               /\ ~posix => count' = Cardinality(Waiters("init")')
            \/ /\ asleep' = [asleep EXCEPT ![p] = "finish"]
               /\ ~posix => count' = nthreads - Cardinality(Waiters("finish")')
<1>1. TypeOK /\ CountInv /\ FitInv /\ nthreads \in Nat /\ Caller = 0
  BY DEF IInv, TypeOK, Caller
<1>2. p \in 0 .. nthreads /\ \A q \in Procs : asleep[q] # "no" => asleep[q] = "finish" /\ q \in 0 .. nthreads
  BY <1>1, Positions
<1>3. width = nthreads + 1
  BY <1>1 DEF FitInv, Working
<1>4. "finish" \in Barriers /\ "init" \in Barriers \ {"finish"} /\ "init" \in Barriers
  BY DEF Barriers
<1>5. /\ pc' = [pc EXCEPT ![p] = then]
      /\ posix => \A x \in Barriers : arrived'[x] = Cardinality(Waiters(x)')
      /\ \/ /\ \A q \in (0 .. nthreads) \ {p} : asleep[q] = "finish"
            /\ asleep' = [q \in Procs |-> "no"]
            /\ ~posix => count' = 0
         \/ /\ asleep' = [asleep EXCEPT ![p] = "finish"]
            /\ ~posix => count' = nthreads - Cardinality(Waiters("finish")')
  BY <1>1, <1>2, <1>3, <1>4, Arrival DEF CountInv
<1>6. CASE asleep' = [q \in Procs |-> "no"]
  <2>1. Waiters("init")' = {}
    BY <1>6 DEF Waiters
  <2>2. Cardinality(Waiters("init")') = 0
    BY <2>1, FS_EmptySet
  <2> QED BY <1>1, <1>5, <1>6, <2>2
<1> QED BY <1>5, <1>6


\* The meeting of the caller and its threads, at the barriers.
LEMMA GatherStep ==
  ASSUME IInv, NEW p \in {Caller} \cup Team, asleep[p] = "no", UNCHANGED <<posix, nthreads, started>>,
         \/ p = Caller /\ Release
         \/ p = Caller /\ AwaitInit
         \/ p # Caller /\ WaitInit(p)
  PROVE  TeamInv' /\ CountInv'
<1>1. /\ TypeOK /\ FitInv /\ TeamInv /\ CountInv /\ Procs = {Caller} \cup Workers /\ Caller \notin Workers
      /\ Team \subseteq 1 .. nthreads /\ Team \subseteq Workers /\ nthreads \in Nat /\ Caller = 0
  BY Positions DEF IInv, Procs, Workers, Caller, TypeOK
<1>2. started # 0 \/ pc[Caller] = "create"
  <2>1. CASE p = Caller
    BY <1>1, <2>1 DEF Release, AwaitInit, WaitInit, At, FitInv
  <2>2. CASE p # Caller
    <3>1. p \in Team /\ Team = IF pc[Caller] = "create" THEN 1 .. (tid - 1)
                               ELSE IF Ending THEN tid .. started ELSE 1 .. started
      BY <2>2 DEF Team
    <3>2. started = 0 => pc[Caller] # "join"
      BY <1>1 DEF FitInv
    <3> QED BY <3>1, <3>2 DEF Ending
  <2> QED BY <2>1, <2>2
<1>3. Gathering
  BY <1>1 DEF Release, AwaitInit, WaitInit, At, TeamInv, Gathering, Working, Ending, InJob
<1> DEFINE then == IF p # Caller THEN "woken" ELSE IF pc[Caller] = "release" THEN "join" ELSE "finish"
<1>4. /\ Arrive(p, "init", then)
      /\ p = Caller => pc[Caller] \in {"release", "start"}
      /\ p = Caller /\ pc[Caller] = "release" => tid' = 1
      /\ ~(p = Caller /\ pc[Caller] = "release") => tid' = tid
  BY DEF Release, AwaitInit, WaitInit, At, callerVars
<1>5. /\ pc' = [pc EXCEPT ![p] = then]
      /\ posix => \A x \in Barriers : arrived'[x] = Cardinality(Waiters(x)')
      /\ \/ /\ \A q \in (0 .. nthreads) \ {p} : asleep[q] = "init"
            /\ \A q \in Procs : asleep'[q] = "no"
            /\ ~posix => count' = nthreads - Cardinality(Waiters("finish")')
         \/ /\ asleep' = [asleep EXCEPT ![p] = "init"]
            /\ ~posix => count' = Cardinality(Waiters("init")')
  BY <1>1, <1>2, <1>3, <1>4, InitArrival
<1>6. "init" \in Barriers /\ "finish" \in Barriers
  BY DEF Barriers
<1>7. CASE asleep' = [asleep EXCEPT ![p] = "init"] /\ (~posix => count' = Cardinality(Waiters("init")'))
  <2>1. /\ asleep'[p] = "init" /\ \A q \in Procs \ {p} : asleep'[q] = asleep[q] /\ pc'[q] = pc[q]
        /\ pc'[p] = then
    BY <1>1, <1>5, <1>7 DEF TypeOK
  <2>2. Gathering'
    BY <1>1, <1>3, <2>1 DEF Gathering, Working, Ending
  <2>3. Team' = Team
    <3>1. ~Ending /\ ~Ending'
      BY <1>3, <2>2 DEF Gathering
    <3>2. pc'[Caller] = "create" <=> pc[Caller] = "create"
      BY <1>1, <1>4, <2>1
    <3>3. pc[Caller] = "create" => tid' = tid
      BY <1>4
    <3> QED BY <3>1, <3>2, <3>3 DEF Team
  <2>4. TeamInv'
    <3>1. /\ asleep'[Caller] = "init" => pc'[Caller] \in {"finish", "join"}
          /\ asleep'[Caller] = "finish" => pc'[Caller] = "collect"
          /\ pc'[Caller] = "join" /\ asleep'[Caller] = "init" => tid' = 1
      BY <1>1, <1>4, <2>1 DEF TeamInv
    <3>2. ASSUME NEW w \in Workers
          PROVE  /\ pc'[w] # "none" <=> w \in Team
                 /\ pc'[w] = "none" => asleep'[w] = "no"
                 /\ w \in Team => \/ pc'[w] = "init" /\ asleep'[w] = "no"
                                  \/ pc'[w] = "woken" /\ asleep'[w] = "init"
      BY <1>1, <1>3, <2>1 DEF TeamInv
    <3> QED BY <2>2, <2>3, <3>1, <3>2 DEF TeamInv, Gathering
  <2> QED BY <1>5, <1>6, <1>7, <2>2, <2>4 DEF CountInv, Gathering
<1>8. CASE /\ \A q \in (0 .. nthreads) \ {p} : asleep[q] = "init"
           /\ \A q \in Procs : asleep'[q] = "no"
           /\ ~posix => count' = nthreads - Cardinality(Waiters("finish")')
  <2>1. pc'[p] = then /\ \A q \in Procs \ {p} : pc'[q] = pc[q]
    BY <1>1, <1>5 DEF TypeOK
  <2>2. p # Caller => asleep[Caller] = "init"
    BY <1>1, <1>8
  <2>3. pc'[Caller] \in {"finish", "join"} /\ pc[Caller] # "create"
    BY <1>1, <1>4, <2>1, <2>2 DEF TeamInv
  <2>4. pc'[Caller] = "join" => tid' = 1
    BY <1>1, <1>4, <2>1, <2>2, <2>3 DEF TeamInv
  <2>5. Team = 1 .. started /\ Team' = 1 .. started
    BY <1>3, <2>3, <2>4 DEF Team, Gathering, Ending
  <2>6. started = nthreads
    BY <1>1, <1>2, <2>3 DEF FitInv
  <2>7. \A w \in Team : pc'[w] = "woken"
    <3> TAKE w \in Team
    <3>1. CASE w = p
      BY <1>1, <2>1, <3>1
    <3>2. CASE w # p
      <4>1. asleep[w] = "init" /\ w \in Workers
        BY <1>1, <1>8, <2>5, <2>6, <3>2
      <4> QED BY <1>1, <1>3, <2>1, <3>2, <4>1 DEF TeamInv
    <3> QED BY <3>1, <3>2
  <2>8. \A w \in Workers \ Team : pc'[w] = "none"
    BY <1>1, <2>1 DEF TeamInv
  <2>9. /\ \A w \in Workers : asleep'[w] = "no"
        /\ asleep'[Caller] = "no" /\ (Working' \/ Ending')
    BY <1>1, <1>8, <2>3 DEF Working, Ending
  <2>10. TeamInv'
    BY <2>5, <2>7, <2>8, <2>9 DEF TeamInv, Gathering
  <2>11. ~Gathering'
    BY <2>9 DEF Gathering
  <2> QED BY <1>5, <1>6, <1>8, <2>10, <2>11 DEF CountInv
<1> QED BY <1>5, <1>7, <1>8


\* Coming to the second barrier: the last one lets everybody out of the job.
LEMMA PartStep ==
  ASSUME IInv, NEW p \in {Caller} \cup Team, asleep[p] = "no", UNCHANGED <<posix, nthreads, started>>,
         \/ p = Caller /\ AwaitFinish
         \/ p # Caller /\ WaitFinish(p)
  PROVE  TeamInv' /\ CountInv'
<1>1. /\ TypeOK /\ FitInv /\ TeamInv /\ CountInv /\ Procs = {Caller} \cup Workers /\ Caller \notin Workers
      /\ Team \subseteq 1 .. nthreads /\ Team \subseteq Workers /\ nthreads \in Nat /\ Caller = 0
  BY Positions DEF IInv, Procs, Workers, Caller, TypeOK
<1>2. Working
  <2>1. CASE p = Caller
    BY <1>1, <2>1 DEF AwaitFinish, WaitFinish, At, Working
  <2>2. CASE p # Caller
    BY <1>1, <2>2 DEF AwaitFinish, WaitFinish, At, TeamInv, Gathering
  <2> QED BY <2>1, <2>2
<1> DEFINE then == IF p = Caller THEN "collect" ELSE "init"
<1>3. Arrive(p, "finish", then) /\ tid' = tid /\ (p = Caller => pc[Caller] = "finish")
  BY DEF AwaitFinish, WaitFinish, At, callerVars
<1>4. /\ pc' = [pc EXCEPT ![p] = then]
      /\ posix => \A x \in Barriers : arrived'[x] = Cardinality(Waiters(x)')
      /\ \/ /\ \A q \in (0 .. nthreads) \ {p} : asleep[q] = "finish"
            /\ \A q \in Procs : asleep'[q] = "no"
            /\ ~posix => count' = Cardinality(Waiters("init")')
         \/ /\ asleep' = [asleep EXCEPT ![p] = "finish"]
            /\ ~posix => count' = nthreads - Cardinality(Waiters("finish")')
  BY <1>1, <1>2, <1>3, FinishArrival
<1>5. /\ "init" \in Barriers /\ "finish" \in Barriers
      /\ pc'[p] = then /\ \A q \in Procs \ {p} : pc'[q] = pc[q]
  BY <1>1, <1>4 DEF Barriers, TypeOK
<1>6. ~Ending /\ ~Gathering /\ pc[Caller] \in {"finish", "collect"} /\ pc'[Caller] \in {"finish", "collect"}
  BY <1>1, <1>2, <1>5 DEF Working, Ending, Gathering
<1>7. Team' = Team /\ Team = 1 .. started /\ ~Ending'
  BY <1>6 DEF Team, Ending
<1>8. started = nthreads
  BY <1>1, <1>6 DEF FitInv
<1>9. CASE asleep' = [asleep EXCEPT ![p] = "finish"] /\ (~posix => count' = nthreads - Cardinality(Waiters("finish")'))
  <2>1. asleep'[p] = "finish" /\ \A q \in Procs \ {p} : asleep'[q] = asleep[q]
    BY <1>1, <1>9 DEF TypeOK
  <2>2. Working' /\ ~Gathering'
    BY <1>1, <1>2, <1>3, <1>5, <2>1 DEF Working, Gathering
  <2>3. TeamInv'
    <3>1. /\ asleep'[Caller] # "init" /\ (asleep'[Caller] = "finish" => pc'[Caller] = "collect")
          /\ pc'[Caller] # "join"
      BY <1>1, <1>2, <1>5, <1>6, <2>1 DEF Working
    <3>2. ASSUME NEW w \in Workers
          PROVE  /\ pc'[w] # "none" <=> w \in Team
                 /\ pc'[w] = "none" => asleep'[w] = "no"
                 /\ w \in Team => \/ pc'[w] \in {"woken"} \cup InJob /\ asleep'[w] = "no"
                                  \/ pc'[w] = "init" /\ asleep'[w] = "finish"
      BY <1>1, <1>2, <1>5, <2>1 DEF TeamInv
    <3> QED BY <1>7, <2>2, <3>1, <3>2 DEF TeamInv
  <2> QED BY <1>4, <1>5, <1>9, <2>2, <2>3 DEF CountInv
<1>10. CASE /\ \A q \in (0 .. nthreads) \ {p} : asleep[q] = "finish"
            /\ \A q \in Procs : asleep'[q] = "no"
            /\ ~posix => count' = Cardinality(Waiters("init")')
  <2>1. pc'[Caller] = "collect" /\ asleep'[Caller] = "no"
    BY <1>1, <1>2, <1>5, <1>10 DEF Working
  <2>2. Gathering' /\ ~Working'
    BY <2>1 DEF Gathering, Working, Ending
  <2>3. \A w \in Team : pc'[w] = "init"
    <3> TAKE w \in Team
    <3>1. CASE w = p
      BY <1>1, <1>5, <3>1
    <3>2. CASE w # p
      <4>1. asleep[w] = "finish" /\ w \in Workers
        BY <1>1, <1>7, <1>8, <1>10, <3>2
      <4> QED BY <1>1, <1>2, <1>5, <3>2, <4>1 DEF TeamInv
    <3> QED BY <3>1, <3>2
  <2>4. \A w \in Workers \ Team : pc'[w] = "none"
    BY <1>1, <1>5 DEF TeamInv
  <2>5. TeamInv'
    BY <1>1, <1>7, <1>10, <2>1, <2>2, <2>3, <2>4 DEF TeamInv
  <2> QED BY <1>4, <1>5, <1>10, <2>2, <2>5 DEF CountInv
<1> QED BY <1>4, <1>9, <1>10

\* Every step keeps everybody where the caller expects them.
LEMMA MeetStep ==
  ASSUME IInv, [Next]_vars
  PROVE  TeamInv' /\ CountInv'
<1>1. /\ TypeOK /\ FitInv /\ TeamInv /\ CountInv /\ Procs = {Caller} \cup Workers /\ Caller \notin Workers
      /\ Team \subseteq 1 .. nthreads /\ Team \subseteq Workers /\ nthreads \in Nat /\ Caller = 0
      /\ "init" \in Barriers /\ "finish" \in Barriers
  BY Positions DEF IInv, Procs, Workers, Caller, TypeOK, Barriers
<1> USE DEF At, Goto, poolVars, syncVars, jobVars, sharedVars, workerVars, callerVars
<1>2. CASE UNCHANGED vars
  <2>1. /\ UNCHANGED <<asleep, pc, tid, started, posix, arrived, count, nthreads>>
        /\ Team' = Team /\ (Working' <=> Working) /\ (Ending' <=> Ending) /\ (Gathering' <=> Gathering)
        /\ \A b \in Barriers : Waiters(b)' = Waiters(b)
    BY <1>2 DEF vars, Team, Working, Ending, Gathering, Waiters
  <2> QED BY <1>1, <2>1 DEF TeamInv, CountInv
<1>3. CASE CallerAlone
  <2>1. /\ UNCHANGED <<posix, started, width, tid, syncVars>>
        /\ asleep[Caller] = "no" /\ pc[Caller] \notin {"create", "finish", "join"}
        /\ pc'[Caller] \notin {"create", "finish", "join", "collect"}
        /\ \A w \in Workers : pc'[w] = pc[w]
    BY <1>1, <1>3, CallerMoves DEF TypeOK
  <2>2. /\ Gathering /\ Gathering' /\ Team' = Team /\ ~Working' /\ ~Ending'
        /\ \A b \in Barriers : Waiters(b)' = Waiters(b)
    BY <2>1 DEF Team, Working, Ending, Gathering, Waiters
  <2> QED BY <1>1, <2>1, <2>2 DEF TeamInv, CountInv
<1>4. CASE Release \/ AwaitInit
  <2>1. UNCHANGED <<posix, nthreads, started>> /\ asleep[Caller] = "no"
    BY <1>4 DEF Release, AwaitInit
  <2> QED BY <1>4, <2>1, GatherStep
<1>5. CASE AwaitFinish
  <2>1. UNCHANGED <<posix, nthreads, started>> /\ asleep[Caller] = "no"
    BY <1>5 DEF AwaitFinish
  <2> QED BY <1>5, <2>1, PartStep
<1>6. CASE Join
  <2>1. /\ Ending /\ pc[tid] = "gone" /\ tid' = tid + 1 /\ tid \in 1 .. started
        /\ UNCHANGED <<posix, started, nthreads, syncVars>>
        /\ tid \in Workers /\ Team = tid .. started
    BY <1>1, <1>6 DEF Join, Ending, FitInv, TypeOK, Team, Workers
  <2>2. /\ pc'[tid] = "none" /\ \A q \in Procs \ {tid} : pc'[q] = pc[q]
    BY <1>1, <1>6, <2>1 DEF Join, TypeOK
  <2>3. Ending' /\ ~Gathering' /\ ~Working' /\ pc'[Caller] = pc[Caller]
    BY <1>1, <2>1, <2>2 DEF Ending, Working, Gathering
  <2>4. Team' = Team \ {tid}
    <3>1. Team' = (tid + 1) .. started
      BY <2>1, <2>3 DEF Team, Ending
    <3> QED BY <1>1, <2>1, <3>1 DEF TypeOK
  <2>5. \A b \in Barriers : Waiters(b)' = Waiters(b)
    BY <2>1 DEF Waiters
  <2> QED BY <1>1, <2>1, <2>2, <2>3, <2>4, <2>5 DEF TeamInv, CountInv, Ending
<1>7. CASE Released
  <2>1. /\ Ending /\ tid > started /\ started' = 0 /\ count' = 0
        /\ UNCHANGED <<posix, asleep, arrived>> /\ asleep[Caller] = "no"
        /\ pc'[Caller] = "check" /\ \A w \in Workers : pc'[w] = pc[w]
    BY <1>1, <1>7 DEF Released, Ending, TypeOK
  <2>2. Team = {} /\ Team' = {} /\ Gathering' /\ ~Working' /\ ~Ending'
    BY <1>1, <2>1 DEF Team, Ending, Working, Gathering, TypeOK
  <2>3. \A q \in Procs : asleep[q] = "no"
    BY <2>1, Positions
  <2>4. \A b \in Barriers : Waiters(b)' = Waiters(b) /\ Cardinality(Waiters(b)) = 0
    BY <2>1, <2>3, NoneWait DEF Waiters
  <2> QED BY <1>1, <2>1, <2>2, <2>3, <2>4 DEF TeamInv, CountInv
<1>8. CASE InitThreads
  <2>1. /\ pc[Caller] = "threads" /\ asleep[Caller] = "no" /\ tid' = 1 /\ count' = 0
        /\ arrived' = [b \in Barriers |-> 0] /\ UNCHANGED <<posix, asleep, started>>
        /\ pc'[Caller] = "create" /\ \A w \in Workers : pc'[w] = pc[w]
    BY <1>1, <1>8 DEF InitThreads, TypeOK
  <2>2. Team = {} /\ Team' = {} /\ Gathering' /\ Gathering /\ ~Working' /\ ~Ending'
    BY <1>1, <2>1 DEF Team, Ending, Working, Gathering, FitInv
  <2>3. \A q \in Procs : asleep[q] = "no"
    BY <1>1, <2>1, <2>2 DEF TeamInv
  <2>4. \A b \in Barriers : Waiters(b)' = Waiters(b) /\ Cardinality(Waiters(b)) = 0
    BY <2>1, <2>3, NoneWait DEF Waiters
  <2> QED BY <1>1, <2>1, <2>2, <2>3, <2>4 DEF TeamInv, CountInv
<1>9. CASE Create
  <2>1. /\ pc[Caller] = "create" /\ asleep[Caller] = "no" /\ tid' = tid + 1 /\ tid \in 1 .. nthreads
        /\ UNCHANGED <<posix, started, nthreads, syncVars>> /\ tid \in Workers
    <3>1. tid \in Nat /\ tid <= nthreads /\ tid >= 1 /\ nthreads \in 1 .. MaxThreads
      BY <1>1, <1>9 DEF Create, FitInv, TypeOK
    <3>2. tid \in 1 .. nthreads /\ tid \in Workers
      BY <3>1, BloscAssumption DEF Workers
    <3> QED BY <1>9, <3>2 DEF Create
  <2>2. pc'[tid] = "init" /\ \A q \in Procs \ {tid} : pc'[q] = pc[q]
    BY <1>1, <1>9, <2>1 DEF Create, TypeOK
  <2>3. Gathering /\ Gathering' /\ ~Working' /\ ~Ending' /\ pc'[Caller] = "create"
    BY <1>1, <2>1, <2>2 DEF Ending, Working, Gathering
  <2>4. Team = 1 .. (tid - 1) /\ Team' = Team \cup {tid} /\ tid \notin Team
    <3>1. Team = 1 .. (tid - 1) /\ Team' = 1 .. tid
      BY <2>1, <2>3 DEF Team
    <3> QED BY <2>1, <3>1
  <2>5. asleep[tid] = "no"
    BY <1>1, <2>1, <2>4 DEF TeamInv
  <2>6. \A b \in Barriers : Waiters(b)' = Waiters(b)
    BY <2>1 DEF Waiters
  <2> QED BY <1>1, <2>1, <2>2, <2>3, <2>4, <2>5, <2>6 DEF TeamInv, CountInv
<1>10. CASE Created
  <2>1. /\ pc[Caller] = "create" /\ asleep[Caller] = "no" /\ tid = nthreads + 1 /\ started' = nthreads
        /\ UNCHANGED <<posix, nthreads, tid, syncVars>> /\ pc'[Caller] \in {"header", "run"}
        /\ \A w \in Workers : pc'[w] = pc[w]
    BY <1>1, <1>10 DEF Created, FitInv, TypeOK
  <2>2. Gathering /\ Gathering' /\ ~Working' /\ ~Ending'
    BY <2>1 DEF Ending, Working, Gathering
  <2>3. Team' = Team
    BY <1>1, <2>1, <2>2 DEF Team
  <2>4. \A b \in Barriers : Waiters(b)' = Waiters(b)
    BY <2>1 DEF Waiters
  <2> QED BY <1>1, <2>1, <2>2, <2>3, <2>4 DEF TeamInv, CountInv
<1>11. ASSUME NEW w \in Workers, WorkerStep(w) PROVE TeamInv' /\ CountInv'
  <2>1. /\ UNCHANGED <<posix, nthreads, started, end_threads, tid>> /\ asleep[w] = "no"
        /\ w \in Team /\ w # Caller
    BY <1>1, <1>11, WorkerMoves DEF TeamInv
  <2>2. CASE WaitInit(w)
    BY <2>1, <2>2, GatherStep
  <2>3. CASE WaitFinish(w)
    BY <2>1, <2>3, PartStep
  <2>4. CASE ~WaitInit(w) /\ ~WaitFinish(w)
    <3>1. /\ UNCHANGED syncVars /\ pc[w] # "init"
          /\ \/ pc[w] = "woken" /\ end_threads /\ pc'[w] = "gone"
             \/ (pc[w] \in InJob \/ (pc[w] = "woken" /\ ~end_threads)) /\ pc'[w] \in InJob
          /\ \A q \in Procs \ {w} : pc'[q] = pc[q]
      <4>1. /\ UNCHANGED syncVars /\ w \in Procs
        BY <1>11, <2>4, WorkerMoves
      <4>2. CASE Leave(w) \/ TakeShare(w) \/ TakeNext(w)
        BY <1>1, <4>1, <4>2 DEF Leave, TakeShare, TakeNext, InJob, TypeOK
      <4>3. CASE Loop(w) \/ Fail(w) \/ Copy(w) \/ EndStatic(w)
        BY <1>1, <4>1, <4>3 DEF Loop, Fail, Copy, EndStatic, InJob, TypeOK, LoopEnd
      <4>4. CASE Code(w)
        BY <1>1, <4>1, <4>4 DEF Code, InJob, TypeOK, LoopEnd
      <4>5. CASE Publish(w)
        BY <1>1, <4>1, <4>5 DEF Publish, InJob, TypeOK, LoopEnd
      <4> QED BY <1>11, <2>4, <4>2, <4>3, <4>4, <4>5 DEF WorkerStep
    <3>2. /\ Team' = Team /\ (Working' <=> Working) /\ (Ending' <=> Ending) /\ (Gathering' <=> Gathering)
          /\ \A b \in Barriers : Waiters(b)' = Waiters(b) /\ pc'[Caller] = pc[Caller]
      BY <1>1, <2>1, <3>1 DEF Team, Working, Ending, Gathering, Waiters
    <3>3. CASE pc[w] = "woken" /\ end_threads /\ pc'[w] = "gone"
      <4>1. Ending /\ ~Gathering /\ ~Working
        BY <1>1, <2>1, <3>3 DEF FitInv, TeamInv, Gathering, Ending, Working
      <4> QED BY <1>1, <2>1, <3>1, <3>2, <3>3, <4>1 DEF TeamInv, CountInv
    <3>4. CASE (pc[w] \in InJob \/ (pc[w] = "woken" /\ ~end_threads)) /\ pc'[w] \in InJob
      <4>1. Working /\ ~Gathering /\ ~Ending
        BY <1>1, <2>1, <3>4 DEF FitInv, TeamInv, Gathering, Ending, Working, InJob
      <4>2. "none" \notin InJob
        BY DEF InJob
      <4> QED BY <1>1, <2>1, <3>1, <3>2, <3>4, <4>1, <4>2 DEF TeamInv, CountInv
    <3> QED BY <3>1, <3>3, <3>4
  <2> QED BY <2>2, <2>3, <2>4
<1> QED BY <1>2, <1>3, <1>4, <1>5, <1>6, <1>7, <1>8, <1>9, <1>10, <1>11
        DEF Next, CallerStep, CallerAlone, Quiet

-----------------------------------------------------------------------------
(* Theorems: the barriers *)

\* The caller and its threads are where the counters of the barriers say, always.
THEOREM Invariance == Spec => []IInv
<1>1. Init => IInv
  BY InitInv
<1>2. ASSUME IInv, [Next]_vars PROVE IInv'
  BY <1>2, TypeStep, FitStep, MeetStep DEF IInv
<1> QED BY <1>1, <1>2, PTL DEF Spec

\* A worker is in a job only while the caller waits for the end of that job, on both kinds
\* of barrier (WAIT_INIT and WAIT_FINISH).
THEOREM JobSeparatedHolds == Spec => []JobSeparated
<1>1. IInv => JobSeparated
  <2> SUFFICES ASSUME IInv, NEW w \in Workers, pc[w] \in InJob, asleep[w] = "no" PROVE Working
    BY DEF JobSeparated, Working
  <2>1. pc[w] \notin {"none", "init", "woken", "gone"}
    BY DEF InJob
  <2> QED BY <2>1 DEF IInv, TeamInv, Gathering
<1> QED BY <1>1, Invariance, PTL

\* Between two calls the pool has the threads the next call counts on (check_nthreads).
THEOREM PoolFitsHolds == Spec => []PoolFits
<1>1. IInv => PoolFits
  <2> SUFFICES ASSUME IInv, pc[Caller] = "idle" PROVE PoolFits
    BY DEF PoolFits, Done
  <2>1. TypeOK /\ FitInv /\ TeamInv /\ Team = 1 .. started
    BY DEF IInv, Team, Ending
  <2>2. {w \in Workers : pc[w] # "none"} = 1 .. started
    BY <2>1, Positions DEF TeamInv
  <2> QED BY <2>1, <2>2 DEF PoolFits, FitInv, TypeOK
<1> QED BY <1>1, Invariance, PTL

-----------------------------------------------------------------------------
(* Sums over finite sets *)

\* Induction, for a set of numbers.
LEMMA Induction ==
  ASSUME NEW S, 0 \in S, \A k \in Nat : k \in S => k + 1 \in S
  PROVE  Nat \subseteq S
<1> DEFINE Below == {p \in Nat \X Nat : p[1] < p[2]}
           Rest == Nat \ S
<1>1. IsWellFoundedOn(Below, Nat)
  BY NatLessThanWellFounded DEF OpToRel
<1> SUFFICES ASSUME Rest # {} PROVE FALSE
  OBVIOUS
<1>2. \E x \in Rest : \A y \in Rest : <<y, x>> \notin Below
  <2> HIDE DEF Below
  <2> QED BY <1>1, WFMin
<1>3. PICK x \in Rest : \A y \in Rest : <<y, x>> \notin Below
  BY <1>2
<1>4. x \in Nat /\ x # 0 /\ x - 1 \in Nat
  OBVIOUS
<1>5. <<x - 1, x>> \in Below
  BY <1>4
<1>6. x - 1 \in S
  BY <1>3, <1>4, <1>5
<1> QED BY <1>4, <1>6

\* A set of numbers has a least one.
LEMMA LeastExists ==
  ASSUME NEW S, S # {}, S \subseteq Nat
  PROVE  Min(S) \in S /\ \A y \in S : Min(S) <= y
<1> DEFINE Below == {p \in Nat \X Nat : p[1] < p[2]}
<1>1. IsWellFoundedOn(Below, Nat)
  BY NatLessThanWellFounded DEF OpToRel
<1>2. \E x \in S : \A y \in S : <<y, x>> \notin Below
  <2> HIDE DEF Below
  <2> QED BY <1>1, WFMin
<1>3. PICK x \in S : \A y \in S : <<y, x>> \notin Below
  BY <1>2
<1>4. ASSUME NEW y \in S PROVE x <= y
  <2>1. y < x => <<y, x>> \in Below
    OBVIOUS
  <2>2. ~(y < x)
    BY <1>3, <2>1
  <2> QED BY <2>2
<1> QED BY <1>4 DEF Min

\* The element a fold takes next.
Pick(s) == CHOOSE x \in s : TRUE

\* What a fold computes for each subset of S.
IsSum(it, f, S) ==
  /\ it = [s \in SUBSET S |-> it[s]]
  /\ it[{}] = 0
  /\ \A s \in SUBSET S : s # {} => it[s] = f[Pick(s)] + it[s \ {Pick(s)}]

\* The sum of f over S.
SumOf(f, S) == (CHOOSE it : IsSum(it, f, S))[S]

\* CHOOSE picks an element of a set that has one, as MapThenFoldSet takes the next one.
LEMMA Picked ==
  ASSUME NEW S, IsFiniteSet(S), NEW s \in SUBSET S, s # {}
  PROVE  /\ Pick(s) \in s /\ s \ {Pick(s)} \in SUBSET S /\ IsFiniteSet(s)
         /\ Cardinality(s) \in Nat \ {0} /\ Cardinality(s \ {Pick(s)}) = Cardinality(s) - 1
<1>1. IsFiniteSet(s) /\ Cardinality(s) \in Nat
  BY FS_Subset, FS_CardinalityType
<1>2. Pick(s) \in s
  BY DEF Pick
<1>3. Cardinality(s) # 0
  BY <1>1, FS_EmptySet
<1>4. Cardinality(s \ {Pick(s)}) = Cardinality(s) - 1
  BY <1>1, <1>2, FS_RemoveElement
<1> QED BY <1>1, <1>2, <1>3, <1>4

\* The fold over a finite set of numbers is defined, and takes its elements one by one.
LEMMA SumExists ==
  ASSUME NEW S, IsFiniteSet(S), NEW f
  PROVE  \E it : IsSum(it, f, S)
<1> DEFINE Small(n) == {s \in SUBSET S : Cardinality(s) <= n}
           Is(it, n) == /\ it[{}] = 0
                        /\ \A s \in Small(n) : s # {} => it[s] = f[Pick(s)] + it[s \ {Pick(s)}]
           N == {n \in Nat : \E it : Is(it, n)}
<1>0. \A s \in SUBSET S : Cardinality(s) \in Nat /\ Cardinality(s) <= Cardinality(S)
  BY FS_Subset, FS_CardinalityType
<1>1. 0 \in N
  <2> DEFINE it == [s \in SUBSET S |-> 0]
  <2>1. it[{}] = 0
    OBVIOUS
  <2>2. \A s \in Small(0) : s = {}
    <3> TAKE s \in Small(0)
    <3>1. Cardinality(s) = 0 /\ IsFiniteSet(s)
      BY <1>0, FS_Subset
    <3> QED BY <3>1, FS_EmptySet
  <2>3. Is(it, 0)
    <3> HIDE DEF it
    <3> QED BY <2>1, <2>2
  <2>4. \E h : Is(h, 0)
    <3> HIDE DEF it
    <3> QED BY <2>3
  <2> QED BY <2>4
<1>2. ASSUME NEW n \in Nat, n \in N PROVE n + 1 \in N
  <2>1. PICK g : Is(g, n)
    BY <1>2
  <2> DEFINE it == [s \in SUBSET S |-> IF Cardinality(s) <= n THEN g[s] ELSE f[Pick(s)] + g[s \ {Pick(s)}]]
  <2>2. it[{}] = 0
    <3>1. Cardinality({}) = 0 /\ {} \in SUBSET S
      BY FS_EmptySet
    <3>2. it[{}] = g[{}]
      BY <3>1
    <3> QED BY <2>1, <3>2
  <2>3. ASSUME NEW s \in Small(n + 1), s # {} PROVE it[s] = f[Pick(s)] + it[s \ {Pick(s)}]
    <3> DEFINE t == s \ {Pick(s)}
    <3>1. t \in SUBSET S /\ Cardinality(t) = Cardinality(s) - 1 /\ Cardinality(s) \in Nat
      BY <2>3, Picked
    <3>2. Cardinality(t) <= n
      BY <3>1
    <3>3. it[t] = g[t]
      BY <3>1, <3>2
    <3>4. CASE Cardinality(s) <= n
      <4>1. it[s] = g[s]
        BY <3>4
      <4>2. g[s] = f[Pick(s)] + g[t]
        BY <2>1, <2>3, <3>4
      <4> HIDE DEF it
      <4> QED BY <3>3, <4>1, <4>2
    <3>5. CASE ~(Cardinality(s) <= n)
      <4>1. it[s] = f[Pick(s)] + g[t]
        BY <3>5
      <4> HIDE DEF it
      <4> QED BY <3>3, <4>1
    <3> QED BY <3>4, <3>5
  <2>4. Is(it, n + 1)
    <3> HIDE DEF it
    <3> QED BY <2>2, <2>3
  <2>5. \E h : Is(h, n + 1)
    <3> HIDE DEF it
    <3> QED BY <2>4
  <2>6. n + 1 \in Nat
    OBVIOUS
  <2> QED BY <2>5, <2>6
<1>3. Nat \subseteq N
  <2> HIDE DEF N
  <2> QED BY <1>1, <1>2, Induction
<1>4. Cardinality(S) \in Nat
  BY <1>0
<1>5. PICK g : Is(g, Cardinality(S))
  BY <1>3, <1>4
<1> DEFINE it == [s \in SUBSET S |-> g[s]]
<1>6. \A s \in SUBSET S : s \in Small(Cardinality(S))
  BY <1>0
<1>7. IsSum(it, f, S)
  <2>1. it = [s \in SUBSET S |-> it[s]] /\ it[{}] = 0
    BY <1>5
  <2>2. ASSUME NEW s \in SUBSET S, s # {} PROVE it[s] = f[Pick(s)] + it[s \ {Pick(s)}]
    <3>1. s \ {Pick(s)} \in SUBSET S
      OBVIOUS
    <3>2. it[s] = g[s] /\ it[s \ {Pick(s)}] = g[s \ {Pick(s)}]
      BY <3>1
    <3>3. g[s] = f[Pick(s)] + g[s \ {Pick(s)}]
      BY <1>5, <1>6, <2>2
    <3> HIDE DEF it
    <3> QED BY <3>2, <3>3
  <2> HIDE DEF it
  <2> QED BY <2>1, <2>2 DEF IsSum
<1>8. \E h : IsSum(h, f, S)
  <2> HIDE DEF it
  <2> QED BY <1>7
<1> QED BY <1>8

\* Two folds agree wherever both are defined.
LEMMA SumUnique ==
  ASSUME NEW S, NEW T, S \subseteq T, IsFiniteSet(T), NEW f, NEW h, \A x \in S : f[x] = h[x],
         NEW it, IsSum(it, f, S), NEW jt, IsSum(jt, h, T)
  PROVE  \A s \in SUBSET S : it[s] = jt[s]
<1> DEFINE N == {n \in Nat : \A s \in SUBSET S : Cardinality(s) <= n => it[s] = jt[s]}
<1>0. IsFiniteSet(S) /\ \A s \in SUBSET S : Cardinality(s) \in Nat /\ IsFiniteSet(s)
  BY FS_Subset, FS_CardinalityType
<1>1. 0 \in N
  <2>1. \A s \in SUBSET S : Cardinality(s) <= 0 => s = {}
    BY <1>0, FS_EmptySet
  <2>2. it[{}] = jt[{}]
    BY DEF IsSum
  <2> QED BY <2>1, <2>2
<1>2. ASSUME NEW n \in Nat, n \in N PROVE n + 1 \in N
  <2> SUFFICES ASSUME NEW s \in SUBSET S, Cardinality(s) <= n + 1 PROVE it[s] = jt[s]
    OBVIOUS
  <2>1. CASE s = {}
    BY <2>1 DEF IsSum
  <2>2. CASE s # {}
    <3> DEFINE x == Pick(s)
    <3>1. x \in s /\ s \ {x} \in SUBSET S /\ Cardinality(s \ {x}) = Cardinality(s) - 1
      BY <1>0, <2>2, Picked
    <3>2. it[s \ {x}] = jt[s \ {x}]
      BY <1>0, <1>2, <3>1
    <3>3. it[s] = f[x] + it[s \ {x}] /\ jt[s] = h[x] + jt[s \ {x}]
      BY <2>2 DEF IsSum
    <3>4. f[x] = h[x]
      BY <3>1
    <3> QED BY <3>2, <3>3, <3>4
  <2> QED BY <2>1, <2>2
<1>3. Nat \subseteq N
  <2> HIDE DEF N
  <2> QED BY <1>1, <1>2, Induction
<1> QED BY <1>0, <1>3

\* The sum over a part is what the fold over the whole gives it.
LEMMA SumAgrees ==
  ASSUME NEW S, IsFiniteSet(S), NEW f, NEW it, IsSum(it, f, S), NEW s \in SUBSET S
  PROVE  SumOf(f, s) = it[s]
<1>1. IsFiniteSet(s)
  BY FS_Subset
<1> DEFINE jt == CHOOSE jt : IsSum(jt, f, s)
<1>2. IsSum(jt, f, s)
  BY <1>1, SumExists
<1> HIDE DEF jt
<1>3. jt[s] = it[s]
  BY <1>2, SumUnique
<1> QED BY <1>3 DEF SumOf, jt

\* The sum does not depend on the order: any element may be taken first.
LEMMA SumTakes ==
  ASSUME NEW S, IsFiniteSet(S), NEW f, \A x \in S : f[x] \in Int, NEW it, IsSum(it, f, S)
  PROVE  \A s \in SUBSET S : /\ it[s] \in Int
                             /\ \A y \in s : it[s] = f[y] + it[s \ {y}]
<1> DEFINE N == {n \in Nat : \A s \in SUBSET S : Cardinality(s) <= n =>
                   it[s] \in Int /\ \A y \in s : it[s] = f[y] + it[s \ {y}]}
<1>0. \A s \in SUBSET S : Cardinality(s) \in Nat /\ IsFiniteSet(s)
  BY FS_Subset, FS_CardinalityType
<1>1. 0 \in N
  <2>1. \A s \in SUBSET S : Cardinality(s) <= 0 => s = {}
    BY <1>0, FS_EmptySet
  <2>2. it[{}] \in Int
    BY DEF IsSum
  <2> QED BY <2>1, <2>2
<1>2. ASSUME NEW n \in Nat, n \in N PROVE n + 1 \in N
  <2> SUFFICES ASSUME NEW s \in SUBSET S, Cardinality(s) <= n + 1
               PROVE  it[s] \in Int /\ \A y \in s : it[s] = f[y] + it[s \ {y}]
    OBVIOUS
  <2>1. CASE s = {}
    BY <2>1 DEF IsSum
  <2>2. CASE s # {}
    <3> DEFINE x == Pick(s)
    <3>1. x \in s /\ s \ {x} \in SUBSET S /\ Cardinality(s \ {x}) = Cardinality(s) - 1
          /\ Cardinality(s) \in Nat
      BY <2>2, Picked
    <3>2. it[s] = f[x] + it[s \ {x}]
      BY <2>2 DEF IsSum
    <3> HIDE DEF x
    <3>3. it[s \ {x}] \in Int /\ \A y \in s \ {x} : it[s \ {x}] = f[y] + it[(s \ {x}) \ {y}]
      <4>1. Cardinality(s \ {x}) <= n
        BY <3>1
      <4> QED BY <1>2, <3>1, <4>1
    <3>4. f[x] \in Int
      BY <3>1
    <3>5. ASSUME NEW y \in s, y # x PROVE it[s] = f[y] + it[s \ {y}]
      <4>1. s \ {y} \in SUBSET S /\ Cardinality(s \ {y}) = Cardinality(s) - 1 /\ x \in s \ {y}
        BY <1>0, <3>1, <3>5, FS_RemoveElement
      <4>2. it[s \ {y}] = f[x] + it[(s \ {y}) \ {x}]
        <5>1. Cardinality(s \ {y}) <= n
          BY <3>1, <4>1
        <5> QED BY <1>2, <4>1, <5>1
      <4>3. it[s \ {x}] = f[y] + it[(s \ {x}) \ {y}]
        BY <3>3, <3>5
      <4>4. (s \ {y}) \ {x} = (s \ {x}) \ {y}
        OBVIOUS
      <4> DEFINE z == it[(s \ {x}) \ {y}]
      <4>5. z \in Int
        <5>1. (s \ {x}) \ {y} \in SUBSET S /\ Cardinality((s \ {x}) \ {y}) = Cardinality(s \ {x}) - 1
          BY <1>0, <3>1, <3>5, FS_RemoveElement
        <5>2. Cardinality((s \ {x}) \ {y}) <= n
          BY <3>1, <5>1
        <5> QED BY <1>2, <5>1, <5>2
      <4>6. f[y] \in Int
        OBVIOUS
      <4>7. it[s] = f[x] + (f[y] + z) /\ it[s \ {y}] = f[x] + z
        BY <3>2, <4>2, <4>3, <4>4
      <4> HIDE DEF z
      <4> QED BY <3>4, <4>5, <4>6, <4>7
    <3>6. it[s] \in Int
      BY <3>2, <3>3, <3>4
    <3> QED BY <3>2, <3>5, <3>6
  <2> QED BY <2>1, <2>2
<1>3. Nat \subseteq N
  <2> HIDE DEF N
  <2> QED BY <1>1, <1>2, Induction
<1> QED BY <1>0, <1>3

\* The sum over no block.
LEMMA SumEmpty == ASSUME NEW f PROVE SumOf(f, {}) = 0
<1>1. IsFiniteSet({})
  BY FS_EmptySet
<1>2. PICK it : IsSum(it, f, {})
  BY <1>1, SumExists
<1>3. SumOf(f, {}) = it[{}]
  BY <1>1, <1>2, SumAgrees
<1> QED BY <1>2, <1>3 DEF IsSum

\* An element more adds its number.
LEMMA SumAdds ==
  ASSUME NEW S, IsFiniteSet(S), NEW f, NEW y, y \notin S, \A x \in S \cup {y} : f[x] \in Int
  PROVE  SumOf(f, S) \in Int /\ SumOf(f, S \cup {y}) = SumOf(f, S) + f[y]
<1> DEFINE T == S \cup {y}
<1>1. IsFiniteSet(T)
  BY FS_AddElement
<1>2. PICK it : IsSum(it, f, T)
  BY <1>1, SumExists
<1>3. SumOf(f, S) = it[S] /\ SumOf(f, T) = it[T]
  BY <1>1, <1>2, SumAgrees
<1>4. it[S] \in Int /\ it[T] = f[y] + it[T \ {y}]
  BY <1>1, <1>2, SumTakes
<1>5. T \ {y} = S
  OBVIOUS
<1>6. f[y] \in Int
  OBVIOUS
<1>7. SumOf(f, T) = f[y] + SumOf(f, S)
  BY <1>3, <1>4, <1>5
<1>8. SumOf(f, S) \in Int
  BY <1>3, <1>4
<1> QED BY <1>6, <1>7, <1>8

\* A part of a set of naturals has no larger sum than the whole.
LEMMA SumGrows ==
  ASSUME NEW S, IsFiniteSet(S), NEW f, \A x \in S : f[x] \in Nat, NEW s \in SUBSET S
  PROVE  SumOf(f, s) \in Int /\ SumOf(f, S) \in Int /\ SumOf(f, s) <= SumOf(f, S)
<1>1. PICK it : IsSum(it, f, S)
  BY SumExists
<1>2. \A t \in SUBSET S : it[t] \in Int /\ \A y \in t : it[t] = f[y] + it[t \ {y}]
  <2>1. \A x \in S : f[x] \in Int
    OBVIOUS
  <2> QED BY <1>1, <2>1, SumTakes
<1>3. \A t \in SUBSET S : SumOf(f, t) = it[t]
  BY <1>1, SumAgrees
<1> DEFINE N == {n \in Nat : \A t \in SUBSET S : s \subseteq t /\ Cardinality(t) <= n => it[s] <= it[t]}
<1>4. \A t \in SUBSET S : IsFiniteSet(t) /\ Cardinality(t) \in Nat
  BY FS_Subset, FS_CardinalityType
<1>5. 0 \in N
  <2>1. \A t \in SUBSET S : Cardinality(t) <= 0 => t = {}
    BY <1>4, FS_EmptySet
  <2>2. it[s] \in Int
    BY <1>2
  <2>3. ASSUME NEW t \in SUBSET S, s \subseteq t, Cardinality(t) <= 0 PROVE it[s] <= it[t]
    <3>1. t = {} /\ s = {}
      BY <2>1, <2>3
    <3> QED BY <2>2, <3>1
  <2> QED BY <2>3
<1>6. ASSUME NEW n \in Nat, n \in N PROVE n + 1 \in N
  <2> SUFFICES ASSUME NEW t \in SUBSET S, s \subseteq t, Cardinality(t) <= n + 1
               PROVE  it[s] <= it[t]
    OBVIOUS
  <2>1. CASE s = t
    BY <1>2, <2>1
  <2>2. CASE s # t
    <3>1. PICK y \in t : y \notin s
      BY <2>2
    <3>2. t \ {y} \in SUBSET S /\ s \subseteq t \ {y} /\ Cardinality(t \ {y}) = Cardinality(t) - 1
      BY <1>4, <3>1, FS_RemoveElement
    <3>3. it[s] <= it[t \ {y}]
      BY <1>4, <1>6, <3>2
    <3>4. it[t] = f[y] + it[t \ {y}] /\ f[y] \in Nat /\ it[s] \in Int /\ it[t \ {y}] \in Int
      BY <1>2, <3>2
    <3> QED BY <3>3, <3>4
  <2> QED BY <2>1, <2>2
<1>7. Nat \subseteq N
  <2> HIDE DEF N
  <2> QED BY <1>5, <1>6, Induction
<1>8. it[s] <= it[S]
  BY <1>4, <1>7
<1> QED BY <1>2, <1>3, <1>8

-----------------------------------------------------------------------------
(* The blocks of a document *)

\* What the blocks give, as a function.
Given == [b \in Blocks |-> Gives(b)]
Sum(S) == SumOf(Given, S)

\* A document has at least one block and no more than bytes.
LEMMA JobShape ==
  ASSUME job \in Jobs
  PROVE  /\ job.size \in Nat \ {0} /\ NBlocks \in Nat \ {0} /\ NBlocks <= job.size
         /\ (NBlocks - 1) * BlockSize < job.size /\ job.size <= NBlocks * BlockSize
         /\ job.op \in {"compress", "decompress"}
         /\ \A b \in Blocks : Gives(b) \in Int /\ (~Compressing => Gives(b) # 0)
<1>1. BlockSize \in Nat /\ BlockSize > 0
  BY BloscAssumption
<1>2. /\ job.size \in Nat \ {0} /\ job.gives \in Seq(Int) /\ NBlocks = Count(job.size)
      /\ job.op \in {"compress", "decompress"}
      /\ job.op = "decompress" => \A k \in DOMAIN job.gives : job.gives[k] # 0
  BY BloscAssumption DEF Jobs, NBlocks
<1> DEFINE n == job.size
           a == n + BlockSize - 1
           k == a \div BlockSize
           r == a % BlockSize
<1>3. a = BlockSize * k + r /\ r \in 0 .. BlockSize - 1 /\ k \in Nat
  <2>1. a \in Nat
    BY <1>1, <1>2
  <2> HIDE DEF a
  <2> QED BY <1>1, <2>1, SMTT(30)
<1>4. NBlocks = k
  BY <1>2 DEF Count
<1>5. n \in Nat \ {0} /\ n + BlockSize - 1 = BlockSize * k + r
  BY <1>2, <1>3
<1> HIDE DEF k, r, n
<1>6. k # 0
  BY <1>1, <1>3, <1>5
<1>7. (k - 1) * BlockSize = BlockSize * k - BlockSize /\ k * BlockSize = BlockSize * k /\ BlockSize * k \in Nat
  BY <1>1, <1>3
<1>8. (k - 1) * BlockSize < n /\ n <= k * BlockSize
  BY <1>1, <1>3, <1>5, <1>7
<1>9. k <= n
  <2>1. k - 1 <= (k - 1) * BlockSize
    BY <1>1, <1>3, <1>6
  <2> QED BY <1>1, <1>3, <1>5, <1>6, <1>7, <1>8, <2>1
<1>10. \A b \in Blocks : b + 1 \in DOMAIN job.gives
  BY <1>2 DEF Blocks, NBlocks
<1>11. \A b \in Blocks : Gives(b) \in Int /\ (~Compressing => Gives(b) # 0)
  BY <1>2, <1>10 DEF Gives, Compressing
<1> QED BY <1>2, <1>3, <1>4, <1>5, <1>6, <1>8, <1>9, <1>11 DEF n

\* A document has finitely many blocks.
LEMMA BlocksFinite == ASSUME job \in Jobs PROVE IsFiniteSet(Blocks)
<1>1. 0 \in Int /\ NBlocks - 1 \in Int
  BY JobShape
<1> QED BY <1>1, FS_Interval DEF Blocks

\* The blocks of a document: their bytes.
LEMMA BlockBytes ==
  ASSUME job \in Jobs, NEW b \in Blocks
  PROVE  /\ BSize(b) \in Nat \ {0} /\ CBytes(b) \in Int /\ b * BlockSize \in Nat
         /\ b * BlockSize + BSize(b) = IF b + 1 = NBlocks THEN job.size ELSE (b + 1) * BlockSize
         /\ CBytes(b) <= 0 => CBytes(b) = Gives(b) /\ ~(Compressing /\ memcpyed)
         /\ Compressing /\ ~memcpyed => CBytes(b) = Gives(b)
         /\ ~Compressing => CBytes(b) # 0 /\ (CBytes(b) > 0 => Gives(b) > 0)
         /\ CBytes(b) > 0 /\ ~(Compressing /\ ~memcpyed) => CBytes(b) = BSize(b)
<1>1. /\ BlockSize \in Nat /\ BlockSize > 0 /\ job.size \in Nat /\ NBlocks \in Nat \ {0}
      /\ (NBlocks - 1) * BlockSize < job.size /\ job.size <= NBlocks * BlockSize
      /\ b \in Nat /\ b <= NBlocks - 1
  BY JobShape, BloscAssumption DEF Blocks
<1>2. Gives(b) \in Int /\ (~Compressing => Gives(b) # 0)
  BY JobShape
<1> DEFINE n == job.size
           N == NBlocks
           q == n \div BlockSize
           r == n % BlockSize
<1>3. n = BlockSize * q + r /\ r \in 0 .. BlockSize - 1 /\ q \in Nat
  <2>1. n \in Nat
    BY <1>1
  <2> HIDE DEF n
  <2> QED BY <1>1, <2>1, SMTT(30)
<1>4. BSize(b) = IF b = N - 1 /\ r > 0 THEN r ELSE BlockSize
  BY DEF BSize
<1> HIDE DEF n, N, q, r
<1>5. n \in Nat /\ N \in Nat \ {0} /\ (N - 1) * BlockSize < n /\ n <= N * BlockSize /\ b <= N - 1
  BY <1>1 DEF n, N
<1>6. BSize(b) \in Nat \ {0}
  BY <1>1, <1>3, <1>4
<1>7. b * BlockSize \in Nat /\ (b + 1) * BlockSize = b * BlockSize + BlockSize
  BY <1>1
<1>8. b * BlockSize + BSize(b) = IF b + 1 = N THEN n ELSE (b + 1) * BlockSize
  <2>1. CASE b + 1 # N
    BY <1>1, <1>4, <1>5, <1>7, <2>1
  <2>2. CASE b + 1 = N
    <3>1. b = N - 1 /\ N * BlockSize = b * BlockSize + BlockSize
      BY <1>1, <1>5, <1>7, <2>2
    <3>2. b * BlockSize < n /\ n <= b * BlockSize + BlockSize
      BY <1>5, <3>1
    <3>3. b * BlockSize = BlockSize * b
      BY <1>1
    <3>4. CASE q = b
      <4>1. r > 0
        BY <1>1, <1>3, <1>5, <3>2, <3>3, <3>4
      <4> QED BY <1>1, <1>3, <1>4, <1>5, <2>2, <3>1, <3>3, <3>4, <4>1
    <3>5. CASE q >= b + 1
      <4>1. BlockSize * q >= BlockSize * (b + 1)
        BY <1>1, <1>3, <3>5
      <4>2. BlockSize * (b + 1) = b * BlockSize + BlockSize
        BY <1>1
      <4>3. BlockSize * q \in Nat
        BY <1>1, <1>3
      <4>4. r = 0 /\ n = b * BlockSize + BlockSize
        BY <1>1, <1>3, <1>5, <1>7, <3>2, <4>1, <4>2, <4>3
      <4> QED BY <1>4, <2>2, <4>4
    <3>6. CASE q <= b - 1
      <4>1. BlockSize * q <= BlockSize * (b - 1)
        BY <1>1, <1>3, <3>6
      <4>2. BlockSize * (b - 1) = b * BlockSize - BlockSize
        BY <1>1
      <4>3. BlockSize * q \in Nat
        BY <1>1, <1>3
      <4> QED BY <1>1, <1>3, <1>5, <1>7, <3>2, <4>1, <4>2, <4>3
    <3> QED BY <1>1, <1>3, <3>4, <3>5, <3>6
  <2> QED BY <2>1, <2>2
<1>9. CBytes(b) = IF (Compressing /\ memcpyed) \/ (~Compressing /\ Gives(b) > 0) THEN BSize(b)
                  ELSE Gives(b)
  BY DEF CBytes
<1> QED BY <1>2, <1>6, <1>7, <1>8, <1>9 DEF n, N

\* Each block is handed out to one thread.
LEMMA Shares ==
  ASSUME job \in Jobs, nthreads \in Nat \ {0}
  PROVE  /\ \A w \in 1 .. nthreads : Share(w)[1] \in Nat /\ Share(w)[2] \in 0 .. NBlocks
         /\ \A b \in Blocks : \E w \in 1 .. nthreads : Share(w)[1] <= b /\ b < Share(w)[2]
         /\ \A b \in Blocks : \A v, w \in 1 .. nthreads :
              Share(v)[1] <= b /\ b < Share(v)[2] /\ Share(w)[1] <= b /\ b < Share(w)[2] => v = w
<1> DEFINE N == NBlocks
           T == nthreads
           a == N + T - 1
           t == a \div T
<1>1. N \in Nat \ {0} /\ T \in Nat \ {0}
  BY JobShape
<1>2. t \in Nat \ {0} /\ N <= t * T
  <2>1. a \in Nat /\ T > 0
    BY <1>1
  <2> HIDE DEF a, N, T
  <2>2. a = T * t + (a % T) /\ a % T \in 0 .. T - 1 /\ t \in Nat
    BY <1>1, <2>1, SMTT(30)
  <2> DEFINE r == a % T
  <2>3. N + T - 1 = T * t + r /\ r \in 0 .. T - 1 /\ t \in Nat
    BY <2>2 DEF a
  <2> HIDE DEF r, t
  <2>4. t * T = T * t /\ T * t \in Nat
    BY <1>1, <2>3
  <2>5. t # 0
    BY <1>1, <2>3
  <2> QED BY <1>1, <2>3, <2>4, <2>5
<1>3. \A w : Share(w) = <<(w - 1) * t, Min({w * t, N})>>
  BY DEF Share
<1> HIDE DEF N, T, t
<1>4. \A x, y \in Nat : Min({x, y}) = IF x <= y THEN x ELSE y
  <2> TAKE x, y \in Nat
  <2>1. Min({x, y}) \in {x, y} /\ \A z \in {x, y} : Min({x, y}) <= z
    BY LeastExists
  <2> QED BY <2>1
<1>5. ASSUME NEW w \in 1 .. T
      PROVE  /\ (w - 1) * t \in Nat /\ w * t \in Nat
             /\ Share(w)[1] = (w - 1) * t
             /\ Share(w)[2] = IF w * t <= N THEN w * t ELSE N
  <2>1. (w - 1) * t \in Nat /\ w * t \in Nat
    BY <1>1, <1>2
  <2> QED BY <1>1, <1>3, <1>4, <2>1
<1>6. ASSUME NEW b \in Blocks
      PROVE  \E w \in 1 .. T : Share(w)[1] <= b /\ b < Share(w)[2]
  <2> DEFINE q == b \div t
  <2>1. b \in Nat /\ b < N
    BY <1>1 DEF Blocks, N
  <2>2. b = t * q + (b % t) /\ b % t \in 0 .. t - 1 /\ q \in Nat
    <3>1. t \in Nat /\ t > 0
      BY <1>2
    <3> QED BY <2>1, <3>1, SMTT(30)
  <2> DEFINE r == b % t
  <2>3. b = t * q + r /\ r \in 0 .. t - 1
    BY <2>2
  <2> HIDE DEF q, r
  <2>4. ((q + 1) - 1) * t = t * q /\ (q + 1) * t = t * q + t /\ t * q \in Nat
    BY <1>2, <2>2
  <2>5. q + 1 <= T
    <3>1. SUFFICES ASSUME q >= T PROVE FALSE
      BY <1>1, <2>2
    <3>2. t * q >= t * T
      BY <1>1, <1>2, <2>2, <3>1
    <3>3. t * T \in Nat
      BY <1>1, <1>2
    <3> QED BY <1>1, <1>2, <2>1, <2>3, <2>4, <3>2, <3>3
  <2>6. q + 1 \in 1 .. T
    BY <1>1, <2>2, <2>5
  <2>7. Share(q + 1)[1] = t * q /\ Share(q + 1)[2] = IF t * q + t <= N THEN t * q + t ELSE N
    BY <1>5, <2>4, <2>6
  <2>8. Share(q + 1)[1] <= b /\ b < Share(q + 1)[2]
    BY <1>1, <1>2, <2>1, <2>3, <2>4, <2>7
  <2> QED BY <2>6, <2>8
<1>7. ASSUME NEW b \in Blocks, NEW v \in 1 .. T, NEW w \in 1 .. T, v < w,
             b < Share(v)[2], Share(w)[1] <= b
      PROVE  FALSE
  <2>1. b \in Nat
    BY <1>1 DEF Blocks, N
  <2>2. b < v * t /\ (w - 1) * t <= b /\ v * t \in Nat /\ (w - 1) * t \in Nat
    BY <1>1, <1>5, <1>7, <2>1
  <2>3. v * t <= (w - 1) * t
    BY <1>1, <1>2, <1>7
  <2> QED BY <2>1, <2>2, <2>3
<1>8. ASSUME NEW b \in Blocks, NEW v \in 1 .. T, NEW w \in 1 .. T,
             Share(v)[1] <= b, b < Share(v)[2], Share(w)[1] <= b, b < Share(w)[2]
      PROVE  v = w
  <2>1. v < w \/ w < v \/ v = w
    BY <1>1
  <2> QED BY <1>7, <1>8, <2>1
<1>9. \A w \in 1 .. T : Share(w)[1] \in Nat /\ Share(w)[2] \in 0 .. N
  BY <1>1, <1>5
<1> QED BY <1>6, <1>8, <1>9 DEF N, T

-----------------------------------------------------------------------------
(* Sums over the blocks *)

\* What the module writes as a fold is the sum.
LEMMA SumIs ==
  ASSUME job \in Jobs, NEW S, S \subseteq Blocks
  PROVE  MapThenSumSet(Gives, S) = Sum(S)
<1> DEFINE Is(h) == h = [s \in SUBSET S |-> IF s = {} THEN 0
                           ELSE Gives(CHOOSE x \in s : TRUE) + h[s \ {CHOOSE x \in s : TRUE}]]
           F == CHOOSE h : Is(h)
<1>1. IsFiniteSet(S)
  BY BlocksFinite, FS_Subset
<1>2. PICK it : IsSum(it, Given, S)
  BY <1>1, SumExists
<1>3. \A s \in SUBSET S : s # {} => Given[Pick(s)] = Gives(Pick(s)) /\ s \ {Pick(s)} \in SUBSET S
  <2> TAKE s \in SUBSET S
  <2>1. s # {} => Pick(s) \in s
    BY DEF Pick
  <2>2. s # {} => Pick(s) \in Blocks
    BY <2>1
  <2> QED BY <2>2 DEF Given
<1>4. Is(it)
  <2>1. it = [s \in SUBSET S |-> it[s]]
    BY <1>2 DEF IsSum
  <2>2. ASSUME NEW s \in SUBSET S
        PROVE  it[s] = IF s = {} THEN 0 ELSE Gives(Pick(s)) + it[s \ {Pick(s)}]
    BY <1>2, <1>3 DEF IsSum
  <2>3. it = [s \in SUBSET S |-> IF s = {} THEN 0 ELSE Gives(Pick(s)) + it[s \ {Pick(s)}]]
    BY <2>1, <2>2
  <2> QED BY <2>3 DEF Pick
<1>5. Is(F)
  BY <1>4
<1>6. MapThenSumSet(Gives, S) = F[S]
  BY DEF MapThenSumSet, MapThenFoldSet
<1> HIDE DEF F
<1>7. F = [s \in SUBSET S |-> IF s = {} THEN 0 ELSE Gives(Pick(s)) + F[s \ {Pick(s)}]]
  BY <1>5 DEF Pick
<1>8. IsSum(F, Given, S)
  <2>1. F = [s \in SUBSET S |-> F[s]] /\ F[{}] = 0
    BY <1>7
  <2>2. \A s \in SUBSET S : s # {} => F[s] = Given[Pick(s)] + F[s \ {Pick(s)}]
    BY <1>3, <1>7
  <2> QED BY <2>1, <2>2 DEF IsSum
<1>9. SumOf(Given, S) = F[S]
  BY <1>1, <1>8, SumAgrees
<1> QED BY <1>6, <1>9 DEF Sum

\* What the blocks come to, as a function.
Coded == [b \in Blocks |-> CBytes(b)]

\* So are the compressed bytes of the blocks before another.
LEMMA BeforeIs ==
  ASSUME job \in Jobs, NEW S, S \subseteq Blocks
  PROVE  MapThenSumSet(CBytes, S) = SumOf(Coded, S)
<1> DEFINE Is(h) == h = [s \in SUBSET S |-> IF s = {} THEN 0
                           ELSE CBytes(CHOOSE x \in s : TRUE) + h[s \ {CHOOSE x \in s : TRUE}]]
           F == CHOOSE h : Is(h)
<1>1. IsFiniteSet(S)
  BY BlocksFinite, FS_Subset
<1>2. PICK it : IsSum(it, Coded, S)
  BY <1>1, SumExists
<1>3. \A s \in SUBSET S : s # {} => Coded[Pick(s)] = CBytes(Pick(s)) /\ s \ {Pick(s)} \in SUBSET S
  <2> TAKE s \in SUBSET S
  <2>1. s # {} => Pick(s) \in s
    BY DEF Pick
  <2>2. s # {} => Pick(s) \in Blocks
    BY <2>1
  <2> QED BY <2>2 DEF Coded
<1>4. Is(it)
  <2>1. it = [s \in SUBSET S |-> it[s]]
    BY <1>2 DEF IsSum
  <2>2. ASSUME NEW s \in SUBSET S
        PROVE  it[s] = IF s = {} THEN 0 ELSE CBytes(Pick(s)) + it[s \ {Pick(s)}]
    BY <1>2, <1>3 DEF IsSum
  <2>3. it = [s \in SUBSET S |-> IF s = {} THEN 0 ELSE CBytes(Pick(s)) + it[s \ {Pick(s)}]]
    BY <2>1, <2>2
  <2> QED BY <2>3 DEF Pick
<1>5. Is(F)
  BY <1>4
<1>6. MapThenSumSet(CBytes, S) = F[S]
  BY DEF MapThenSumSet, MapThenFoldSet
<1> HIDE DEF F
<1>7. F = [s \in SUBSET S |-> IF s = {} THEN 0 ELSE CBytes(Pick(s)) + F[s \ {Pick(s)}]]
  BY <1>5 DEF Pick
<1>8. IsSum(F, Coded, S)
  <2>1. F = [s \in SUBSET S |-> F[s]] /\ F[{}] = 0
    BY <1>7
  <2>2. \A s \in SUBSET S : s # {} => F[s] = Coded[Pick(s)] + F[s \ {Pick(s)}]
    BY <1>3, <1>7
  <2> QED BY <2>1, <2>2 DEF IsSum
<1>9. SumOf(Coded, S) = F[S]
  BY <1>1, <1>8, SumAgrees
<1> QED BY <1>6, <1>9

\* The bytes before a block are those before the one before it, and its own.
LEMMA BeforeNext ==
  ASSUME job \in Jobs
  PROVE  /\ Before(0) = 0
         /\ \A b \in 0 .. NBlocks : Before(b) \in Int
         /\ \A b \in Blocks : Before(b + 1) = Before(b) + CBytes(b)
<1>1. NBlocks \in Nat \ {0} /\ \A b \in Blocks : CBytes(b) \in Int
  BY JobShape, BlockBytes
<1>2. \A b \in 0 .. NBlocks : 0 .. (b - 1) \subseteq Blocks
  BY <1>1 DEF Blocks
<1>3. \A b \in 0 .. NBlocks : Before(b) = SumOf(Coded, 0 .. (b - 1)) /\ IsFiniteSet(0 .. (b - 1))
  BY <1>2, BeforeIs, BlocksFinite, FS_Subset DEF Before
<1>4. Before(0) = 0
  <2>1. 0 .. (0 - 1) = {} /\ 0 \in 0 .. NBlocks
    BY <1>1
  <2> QED BY <1>3, <2>1, SumEmpty
<1>5. ASSUME NEW b \in Blocks PROVE Before(b) \in Int /\ Before(b + 1) = Before(b) + CBytes(b)
  <2>1. /\ b \in 0 .. NBlocks /\ b + 1 \in 0 .. NBlocks /\ b \notin 0 .. (b - 1)
        /\ 0 .. ((b + 1) - 1) = (0 .. (b - 1)) \cup {b} /\ (0 .. (b - 1)) \cup {b} \subseteq Blocks
    BY <1>1 DEF Blocks
  <2>2. \A x \in (0 .. (b - 1)) \cup {b} : Coded[x] \in Int
    BY <1>1, <2>1 DEF Coded
  <2>3. SumOf(Coded, 0 .. (b - 1)) \in Int
        /\ SumOf(Coded, (0 .. (b - 1)) \cup {b}) = SumOf(Coded, 0 .. (b - 1)) + Coded[b]
    <3> DEFINE S == 0 .. (b - 1)
    <3>1. IsFiniteSet(S) /\ b \notin S /\ \A x \in S \cup {b} : Coded[x] \in Int
      BY <1>3, <2>1, <2>2
    <3> HIDE DEF S
    <3>2. SumOf(Coded, S) \in Int /\ SumOf(Coded, S \cup {b}) = SumOf(Coded, S) + Coded[b]
      BY <3>1, SumAdds
    <3> QED BY <3>2 DEF S
  <2>4. Coded[b] = CBytes(b)
    BY DEF Coded
  <2> QED BY <1>3, <2>1, <2>3, <2>4
<1>6. ASSUME NEW b \in 0 .. NBlocks PROVE Before(b) \in Int
  <2>1. b = 0 \/ (b - 1 \in Blocks /\ (b - 1) + 1 = b)
    BY <1>1 DEF Blocks
  <2>2. CASE b = 0
    BY <1>4, <2>2
  <2>3. CASE b - 1 \in Blocks /\ (b - 1) + 1 = b
    <3>1. Before(b - 1) \in Int /\ Before(b) = Before(b - 1) + CBytes(b - 1) /\ CBytes(b - 1) \in Int
      BY <1>1, <1>5, <2>3
    <3> QED BY <3>1
  <2> QED BY <2>1, <2>2, <2>3
<1> QED BY <1>4, <1>5, <1>6

-----------------------------------------------------------------------------
(* The data *)

Sound == {b \in Blocks : Gives(b) > 0}
Total == Sum(Sound) + Header + NBlocks

\* The compressed blocks do not do.
MustCopy == Total > DestSize \/ \E b \in Blocks : Gives(b) = 0

\* The blocks of S, each of the length len and at its place, fill a range.
Tiling(at, len, S, from, end) ==
  /\ \A b \in S : at[b] \in Int /\ len[b] \in Nat \ {0} /\ from <= at[b] /\ at[b] + len[b] <= end
  /\ \A x \in from .. (end - 1) : \E b \in S : at[b] <= x /\ x < at[b] + len[b]
  /\ \A x \in from .. (end - 1) : \A b, c \in S :
       at[b] <= x /\ x < at[b] + len[b] /\ at[c] <= x /\ x < at[c] + len[c] => b = c

\* What an answer says of the blocks and of the output.
Outcome(a) ==
  /\ a \in Int
  /\ \A b \in Blocks : Len(filled[b]) <= 1 /\ (a > 0 => Len(filled[b]) = 1)
  /\ Compressing /\ ~memcpyed /\ a > 0 =>
       /\ \A b \in Blocks : filled[b] = <<bstarts[b]>>
       /\ Tiling(bstarts, Given, Blocks, Base(FALSE), a)
  /\ a < 0 => ~memcpyed /\ \E b \in Blocks : Gives(b) = a
  /\ a = 0 => Compressing /\ ~memcpyed /\ MustCopy
  /\ a > 0 /\ memcpyed => a = job.size + Header
  /\ a > 0 /\ ~memcpyed => Sound = Blocks /\ a = IF Compressing THEN Total ELSE job.size

\* Where the caller is in a job.
Checks == {"check", "release", "join", "threads", "create"}
Fresh == pc[Caller] = "header" \/ (pc[Caller] \in Checks /\ onto = "header")
Entering == pc[Caller] = "start" \/ (pc[Caller] = "finish" /\ asleep[Caller] = "init")
Ready == (pc[Caller] \in Checks /\ onto = "run") \/ pc[Caller] = "run" \/ Entering
Over == pc[Caller] = "collect" /\ asleep[Caller] = "no"
Served == ncalls > 0 /\ ~Fresh

JobInv ==
  /\ ncalls \in Nat
  /\ pc[Caller] # "idle" => ncalls > 0
  /\ ncalls > 0 => job \in Jobs
  /\ ncalls = 0 \/ Fresh => filled = <<>>
  /\ Served => /\ filled \in [Blocks -> Seq(Int)] /\ bstarts \in [Blocks -> Int]
               /\ memcpyed \in BOOLEAN
               /\ memcpyed => Compressing /\ (job.size < MinBuffer \/ MustCopy)
  /\ Ready => /\ out = Base(memcpyed)
              /\ filled = [b \in Blocks |-> <<>>] /\ bstarts = [b \in Blocks |-> Unset]
  /\ Entering => giveup = 1 /\ next = -1
  /\ next \in Int /\ out \in Int /\ giveup \in Int
  /\ block \in [Workers -> Int] /\ limit \in [Workers -> Int] /\ took \in [Workers -> Int \X Int]

\* Why the workers give up.
GiveupInv ==
  \/ giveup = 1
  \/ giveup < 0 /\ \E b \in Blocks : CBytes(b) = giveup
  \/ giveup = 0 /\ Compressing /\ ~memcpyed /\ MustCopy

\* The blocks handed out beforehand.
Mine(w) == Share(w)[1] .. (Share(w)[2] - 1)
Written(b) == filled[b] # <<>>
StaticEnd == job.size + (IF Compressing THEN Header ELSE 0)

StaticOf(w) ==
  /\ pc[w] = "woken" => \A b \in Mine(w) : ~Written(b)
  /\ pc[w] \in {"loop", "code", "fail"} =>
       /\ block[w] >= Share(w)[1] /\ limit[w] = Share(w)[2]
       /\ pc[w] # "loop" => block[w] < limit[w]
       /\ \A b \in Mine(w) : b >= block[w] => ~Written(b)
       /\ giveup > 0 => \A b \in Mine(w) : b < block[w] => Written(b)
  /\ pc[w] = "fail" => CBytes(block[w]) < 0
  /\ pc[w] \notin {"publish", "copy"}
  /\ pc[w] \in {"end", "finish", "init"} /\ giveup > 0 => \A b \in Mine(w) : Written(b)
  /\ pc[w] \in {"finish", "init"} => out = StaticEnd

StaticInv ==
  /\ \A b \in Blocks : Len(filled[b]) <= 1 /\ (Written(b) => CBytes(b) > 0)
  /\ \A w \in Team : StaticOf(w)

\* The blocks of the queue.
Holding == {"loop", "code", "fail", "publish", "copy"}
Placed == {b \in Blocks : bstarts[b] # Unset /\ CBytes(b) > 0 /\ bstarts[b] + CBytes(b) <= DestSize}

\* The room they have taken.
QueueRoom ==
  /\ next >= -1 /\ out <= DestSize /\ out = Base(FALSE) + Sum(Placed)
  /\ Tiling(bstarts, Given, Placed, Base(FALSE), out)

\* The blocks that have been written, and those nobody has taken.
QueueBlocks ==
  /\ \A b \in Blocks : Written(b) => filled[b] = <<bstarts[b]>>
  /\ \A b \in Blocks : b > next => bstarts[b] = Unset /\ ~Written(b)

\* What a worker is about.
QueueOf(w) ==
  /\ pc[w] \in Holding => /\ block[w] \in 0 .. next /\ limit[w] = NBlocks
                          /\ block[w] \in Blocks => bstarts[block[w]] = Unset /\ ~Written(block[w])
  /\ pc[w] \in {"code", "fail", "publish"} => block[w] \in Blocks
  /\ pc[w] = "fail" => CBytes(block[w]) < 0
  /\ pc[w] = "publish" => CBytes(block[w]) >= 0
  /\ pc[w] = "copy" => /\ took[w][1] \in Placed /\ took[w][2] = bstarts[took[w][1]]
                       /\ ~Written(took[w][1])
  /\ pc[w] # "end"
  /\ pc[w] \in {"finish", "init"} /\ giveup > 0 => next >= NBlocks

\* No two workers are about the same block.
QueueApart ==
  /\ \A v, w \in Team : v # w /\ pc[v] \in Holding /\ pc[w] \in Holding => block[v] # block[w]
  /\ \A v, w \in Team : v # w /\ pc[v] = "copy" /\ pc[w] = "copy" => took[v][1] # took[w][1]

\* Unless they give up, no block is forgotten.
QueueKept ==
  giveup > 0 => \A b \in Blocks :
    /\ b <= next /\ bstarts[b] = Unset => \E w \in Team : pc[w] \in Holding /\ block[w] = b
    /\ bstarts[b] # Unset => /\ b \in Placed
                             /\ Written(b) \/ \E w \in Team : pc[w] = "copy" /\ took[w][1] = b

QueueInv ==
  QueueRoom /\ QueueBlocks /\ (\A w \in Team : QueueOf(w)) /\ QueueApart /\ QueueKept

Collected == IF giveup <= 0 THEN giveup ELSE out

DataInv ==
  /\ JobInv
  /\ Working => /\ GiveupInv
                /\ Static => StaticInv
                /\ ~Static => QueueInv
  /\ Over => Outcome(Collected)
  /\ pc[Caller] = "answer" => Outcome(ans)
  /\ Done => Outcome(ans) /\ (Compressing => memcpyed \/ ans # 0)

\* The sum over the blocks of a document.
LEMMA SumLaws ==
  ASSUME job \in Jobs
  PROVE  /\ Sum({}) = 0
         /\ \A S \in SUBSET Blocks : Sum(S) \in Int
         /\ \A S \in SUBSET Blocks : \A b \in Blocks \ S : Sum(S \cup {b}) = Sum(S) + Gives(b)
         /\ \A s, S \in SUBSET Blocks : s \subseteq S /\ (\A b \in S : Gives(b) > 0) => Sum(s) <= Sum(S)
<1>1. /\ \A b \in Blocks : Given[b] = Gives(b) /\ Given[b] \in Int
      /\ \A S \in SUBSET Blocks : IsFiniteSet(S)
  BY JobShape, BlocksFinite, FS_Subset DEF Given
<1>2. Sum({}) = 0
  BY SumEmpty DEF Sum
<1>3. ASSUME NEW S \in SUBSET Blocks, NEW b \in Blocks \ S
      PROVE  Sum(S) \in Int /\ Sum(S \cup {b}) = Sum(S) + Gives(b)
  <2>1. IsFiniteSet(S) /\ b \notin S /\ \A x \in S \cup {b} : Given[x] \in Int
    BY <1>1
  <2>2. SumOf(Given, S) \in Int /\ SumOf(Given, S \cup {b}) = SumOf(Given, S) + Given[b]
    BY <2>1, SumAdds
  <2> QED BY <1>1, <2>2 DEF Sum
<1>4. ASSUME NEW S \in SUBSET Blocks PROVE Sum(S) \in Int
  <2>1. CASE S = Blocks
    <3>1. 0 \in Blocks
      BY JobShape DEF Blocks
    <3>2. Blocks \ {0} \in SUBSET Blocks /\ 0 \in Blocks \ (Blocks \ {0}) /\ (Blocks \ {0}) \cup {0} = Blocks
      BY <3>1
    <3>3. Sum(Blocks \ {0}) \in Int /\ Sum(Blocks) = Sum(Blocks \ {0}) + Gives(0)
      BY <1>3, <3>2
    <3> QED BY <1>1, <2>1, <3>1, <3>3
  <2>2. CASE S # Blocks
    BY <1>3, <2>2
  <2> QED BY <2>1, <2>2
<1>5. ASSUME NEW s \in SUBSET Blocks, NEW S \in SUBSET Blocks, s \subseteq S, \A b \in S : Gives(b) > 0
      PROVE  Sum(s) <= Sum(S)
  <2>1. IsFiniteSet(S) /\ s \in SUBSET S /\ \A x \in S : Given[x] \in Nat
    BY <1>1, <1>5
  <2> QED BY <2>1, SumGrows DEF Sum
<1> QED BY <1>2, <1>3, <1>4, <1>5

\* A block laid down at the end of a tiling makes a longer one.
LEMMA TilingGrows ==
  ASSUME NEW S, NEW at, NEW len, NEW from \in Int, NEW end \in Int, from <= end,
         Tiling(at, len, S, from, end), NEW y, y \notin S, len[y] \in Nat \ {0},
         NEW at2, \A b \in S : at2[b] = at[b], at2[y] = end
  PROVE  Tiling(at2, len, S \cup {y}, from, end + len[y])
<1> DEFINE In(x, b) == at2[b] <= x /\ x < at2[b] + len[b]
<1>1. /\ \A b \in S : at2[b] \in Int /\ len[b] \in Nat \ {0} /\ from <= at2[b] /\ at2[b] + len[b] <= end
      /\ \A x \in from .. (end - 1) : \E b \in S : In(x, b)
      /\ \A x \in from .. (end - 1) : \A b, c \in S : In(x, b) /\ In(x, c) => b = c
  BY DEF Tiling
<1>2. at2[y] \in Int /\ from <= at2[y] /\ at2[y] + len[y] <= end + len[y]
  OBVIOUS
<1>3. \A b \in S : at2[b] + len[b] <= end + len[y]
  BY <1>1
<1>4. ASSUME NEW x \in from .. ((end + len[y]) - 1) PROVE \E b \in S \cup {y} : In(x, b)
  <2>1. CASE x < end
    BY <1>1, <2>1
  <2>2. CASE x >= end
    BY <2>2
  <2> QED BY <2>1, <2>2
<1>5. ASSUME NEW x \in from .. ((end + len[y]) - 1), NEW b \in S \cup {y}, NEW c \in S \cup {y},
             In(x, b), In(x, c)
      PROVE  b = c
  <2>1. CASE x < end
    <3>1. b # y /\ c # y
      BY <1>5, <2>1
    <3> QED BY <1>1, <1>5, <2>1, <3>1
  <2>2. CASE x >= end
    <3>1. b \notin S /\ c \notin S
      <4>1. \A e \in S : ~In(x, e)
        BY <1>1, <2>2
      <4> QED BY <1>5, <4>1
    <3> QED BY <3>1
  <2> QED BY <2>1, <2>2
<1> HIDE DEF In
<1>6. /\ \A x \in from .. ((end + len[y]) - 1) : \E b \in S \cup {y} : In(x, b)
      /\ \A x \in from .. ((end + len[y]) - 1) : \A b, c \in S \cup {y} : In(x, b) /\ In(x, c) => b = c
  BY <1>4, <1>5
<1>7. \A b \in S \cup {y} : at2[b] \in Int /\ len[b] \in Nat \ {0} /\ from <= at2[b]
                             /\ at2[b] + len[b] <= end + len[y]
  BY <1>1, <1>2, <1>3
<1> QED BY <1>6, <1>7 DEF Tiling, In

\* No blocks fill no range.
LEMMA TilingNone == ASSUME NEW at, NEW len, NEW from \in Int PROVE Tiling(at, len, {}, from, from)
BY DEF Tiling

\* What does not change while a document is served ...
LEMMA SameDocument ==
  ASSUME UNCHANGED job
  PROVE  /\ UNCHANGED <<NBlocks, Blocks, Compressing, DestSize, Given, Sound, Total, MustCopy, StaticEnd>>
         /\ \A b : Gives(b)' = Gives(b) /\ BSize(b)' = BSize(b)
         /\ \A copying : Base(copying)' = Base(copying)
         /\ \A S : Sum(S)' = Sum(S)
         /\ nthreads' = nthreads => \A w : Share(w)' = Share(w) /\ Mine(w)' = Mine(w)
<1>1. UNCHANGED <<NBlocks, Compressing>>
  BY DEF NBlocks, Compressing
<1>2. UNCHANGED <<Blocks, DestSize, StaticEnd>>
  BY <1>1 DEF Blocks, DestSize, StaticEnd
<1>3. \A b : Gives(b)' = Gives(b) /\ BSize(b)' = BSize(b)
  BY <1>1 DEF Gives, BSize
<1>4. Given' = Given
  BY <1>2, <1>3 DEF Given
<1>5. Sound' = Sound
  BY <1>2, <1>3 DEF Sound
<1>6. \A S : Sum(S)' = Sum(S)
  BY <1>4 DEF Sum
<1>7. Total' = Total
  BY <1>1, <1>4, <1>5 DEF Total, Sum
<1>8. MustCopy' = MustCopy
  BY <1>2, <1>3, <1>7 DEF MustCopy
<1>9. \A copying : Base(copying)' = Base(copying)
  BY <1>1 DEF Base
<1>10. nthreads' = nthreads => \A w : Share(w)' = Share(w) /\ Mine(w)' = Mine(w)
  BY <1>1 DEF Share, Mine
<1> QED BY <1>1, <1>2, <1>3, <1>4, <1>5, <1>6, <1>7, <1>8, <1>9, <1>10

\* ... and in a job.
LEMMA SameJob ==
  ASSUME UNCHANGED <<job, memcpyed>>
  PROVE  /\ UNCHANGED <<Static, LoopEnd>>
         /\ \A b : CBytes(b)' = CBytes(b)
<1>1. Compressing' = Compressing /\ \A b : Gives(b)' = Gives(b) /\ BSize(b)' = BSize(b)
  BY SameDocument
<1>2. Static' = Static
  BY <1>1 DEF Static
<1> QED BY <1>1, <1>2 DEF CBytes, LoopEnd

-----------------------------------------------------------------------------
(* The caller's steps *)

\* What an outcome depends on.
LEMMA SameOutcome ==
  ASSUME UNCHANGED <<job, memcpyed, filled, bstarts>>
  PROVE  \A a : Outcome(a)' = Outcome(a)
<1>1. /\ UNCHANGED <<NBlocks, Blocks, Compressing, DestSize, Given, Sound, Total, MustCopy, StaticEnd>>
      /\ \A b : Gives(b)' = Gives(b)
      /\ Base(FALSE)' = Base(FALSE)
  BY SameDocument
<1>2. \A a : Tiling(bstarts, Given, Blocks, Base(FALSE), a)' = Tiling(bstarts, Given, Blocks, Base(FALSE), a)
  <2> TAKE a
  <2> DEFINE base == Base(FALSE)
  <2>1. base' = base /\ Given' = Given /\ Blocks' = Blocks /\ bstarts' = bstarts
    BY <1>1
  <2> HIDE DEF base
  <2>2. Tiling(bstarts, Given, Blocks, base, a)' = Tiling(bstarts, Given, Blocks, base, a)
    BY <2>1 DEF Tiling
  <2> QED BY <2>2 DEF base
<1> QED BY <1>1, <1>2 DEF Outcome

\* An outcome after a step that leaves the document alone.
LEMMA NextOutcome ==
  ASSUME UNCHANGED <<job, memcpyed>>, NEW a, a \in Int,
         \A b \in Blocks : Len(filled'[b]) <= 1 /\ (a > 0 => Len(filled'[b]) = 1),
         Compressing /\ ~memcpyed /\ a > 0 =>
           /\ \A b \in Blocks : filled'[b] = <<bstarts'[b]>>
           /\ Tiling(bstarts', Given, Blocks, Base(FALSE), a),
         a < 0 => ~memcpyed /\ \E b \in Blocks : Gives(b) = a,
         a = 0 => Compressing /\ ~memcpyed /\ MustCopy,
         a > 0 /\ memcpyed => a = job.size + Header,
         a > 0 /\ ~memcpyed => Sound = Blocks /\ a = IF Compressing THEN Total ELSE job.size
  PROVE  Outcome(a)'
<1> DEFINE base == Base(FALSE)
<1>1. /\ UNCHANGED <<Blocks, Compressing, Given, Sound, Total, MustCopy, base>>
      /\ \A b : Gives(b)' = Gives(b)
  BY SameDocument
<1>2. Compressing' /\ ~memcpyed' /\ a > 0 =>
        /\ \A b \in Blocks' : filled'[b] = <<bstarts'[b]>>
        /\ Tiling(bstarts, Given, Blocks, base, a)'
  <2> HIDE DEF base
  <2>1. Tiling(bstarts', Given, Blocks, base, a) => Tiling(bstarts, Given, Blocks, base, a)'
    BY <1>1 DEF Tiling
  <2> QED BY <1>1, <2>1 DEF base
<1>3. \A b \in Blocks' : Len(filled'[b]) <= 1 /\ (a > 0 => Len(filled'[b]) = 1)
  BY <1>1
<1>4. a < 0 => ~memcpyed' /\ \E b \in Blocks' : Gives(b)' = a
  BY <1>1
<1>5. /\ a = 0 => Compressing' /\ ~memcpyed' /\ MustCopy'
      /\ a > 0 /\ memcpyed' => a = job'.size + Header
      /\ a > 0 /\ ~memcpyed' => Sound' = Blocks' /\ a = IF Compressing' THEN Total' ELSE job'.size
  BY <1>1
<1> QED BY <1>2, <1>3, <1>4, <1>5 DEF Outcome

\* Outside a job only the caller's part matters.
LEMMA Elsewhere ==
  ASSUME JobInv', ~Working', ~Over', pc'[Caller] # "answer", ~Done'
  PROVE  DataInv'
BY DEF DataInv

\* Before the first call.
LEMMA DataInit == Init => DataInv
<1> SUFFICES ASSUME Init PROVE DataInv
  OBVIOUS
<1>1. Caller \in Procs /\ pc[Caller] = "idle" /\ ncalls = 0
  BY DEF Init, Procs
<1>2. ~Working /\ ~Over /\ pc[Caller] # "answer" /\ ~Done /\ ~Fresh /\ ~Ready
  BY <1>1 DEF Working, Over, Done, Fresh, Ready, Entering, Checks
<1>3. JobInv
  BY <1>1, <1>2 DEF Init, JobInv, Served, Ready
<1> QED BY <1>2, <1>3 DEF DataInv

\* When nothing happens.
LEMMA DataStutters ==
  ASSUME DataInv, UNCHANGED vars
  PROVE  DataInv'
<1>1. UNCHANGED <<job, memcpyed, ncalls, ans, giveup, next, out, bstarts, filled, block, limit, took, onto,
                  asleep, pc, tid, started, nthreads>>
  BY DEF vars, poolVars, syncVars, jobVars, sharedVars, workerVars, callerVars
<1>2. /\ UNCHANGED <<NBlocks, Blocks, Compressing, DestSize, Given, Sound, Total, MustCopy, StaticEnd, Static>>
      /\ \A b : Gives(b)' = Gives(b) /\ CBytes(b)' = CBytes(b)
      /\ \A copying : Base(copying)' = Base(copying)
      /\ \A S : Sum(S)' = Sum(S)
      /\ \A w : Share(w)' = Share(w) /\ Mine(w)' = Mine(w)
      /\ \A a : Outcome(a)' = Outcome(a)
  BY <1>1, SameDocument, SameJob, SameOutcome
<1>3. UNCHANGED <<Fresh, Entering, Ready, Over, Served, Working, Done, Team, Collected>>
  BY <1>1 DEF Fresh, Entering, Ready, Over, Served, Working, Done, Team, Collected, Ending
<1>4. JobInv'
  BY <1>1, <1>2, <1>3 DEF DataInv, JobInv, Base
<1>5. GiveupInv' = GiveupInv
  BY <1>1, <1>2 DEF GiveupInv
<1>6. StaticInv' = StaticInv
  BY <1>1, <1>2, <1>3 DEF StaticInv, StaticOf, Written
<1>7. QueueInv' = QueueInv
  <2>1. Placed' = Placed
    BY <1>1, <1>2 DEF Placed
  <2>2. QueueRoom' = QueueRoom
    BY <1>1, <1>2, <2>1 DEF QueueRoom, Tiling, Sum
  <2>3. QueueBlocks' = QueueBlocks /\ QueueApart' = QueueApart
    BY <1>1, <1>2, <1>3 DEF QueueBlocks, QueueApart, Written
  <2>4. \A w : QueueOf(w)' = QueueOf(w)
    BY <1>1, <1>2, <2>1 DEF QueueOf, Written
  <2>5. QueueKept' = QueueKept
    BY <1>1, <1>2, <1>3, <2>1 DEF QueueKept, Written
  <2> QED BY <1>3, <2>2, <2>3, <2>4, <2>5 DEF QueueInv
<1>8. /\ Over' => Outcome(Collected)'
      /\ pc'[Caller] = "answer" => Outcome(ans)'
      /\ Done' => Outcome(ans)' /\ (Compressing' => memcpyed' \/ ans' # 0)
  BY <1>1, <1>2, <1>3 DEF DataInv
<1> QED BY <1>2, <1>3, <1>4, <1>5, <1>6, <1>7, <1>8 DEF DataInv

\* A new call (blosc1_compress and blosc1_decompress, blosc_run_compression_with_context).
LEMMA CallStep ==
  ASSUME IInv, DataInv, Call
  PROVE  DataInv'
<1> USE DEF At, Goto, jobVars, sharedVars, workerVars, callerVars
<1>1. /\ pc'[Caller] = "header" \/ (pc'[Caller] = "check" /\ onto' = "header")
      /\ ncalls' = ncalls + 1 /\ job' \in Jobs /\ filled' = <<>>
      /\ UNCHANGED <<giveup, next, out, block, limit, took>>
  BY DEF Call, IInv, TypeOK, Procs
<1>2. JobInv
  BY DEF DataInv
<1>3. ncalls \in Nat /\ ncalls' \in Nat /\ ncalls' > 0
  BY <1>1, <1>2 DEF JobInv
<1>4. Fresh' /\ ~Ready' /\ ~Entering' /\ ~Working' /\ ~Over' /\ ~Done' /\ ~Served' /\ pc'[Caller] # "answer"
  BY <1>1 DEF Fresh, Ready, Entering, Working, Over, Done, Served, Checks
<1>5. JobInv'
  BY <1>1, <1>2, <1>3, <1>4 DEF JobInv, Jobs
<1> QED BY <1>4, <1>5, Elsewhere

\* check_nthreads and the pool leave the document alone.
LEMMA CheckStep ==
  ASSUME IInv, DataInv,
         Check \/ Release \/ Join \/ Released \/ InitThreads \/ Create \/ Created
  PROVE  DataInv'
<1> USE DEF At, Goto, poolVars, syncVars, jobVars, sharedVars, workerVars, callerVars
<1>1. TypeOK /\ FitInv /\ Caller \in Procs /\ JobInv /\ \A n \in 1 .. MaxThreads : n \in Procs /\ n # Caller
  BY DEF IInv, DataInv, Procs, Workers, Caller
<1>2. /\ UNCHANGED <<job, memcpyed, ncalls, ans, out, bstarts, filled, block, limit, took, onto>>
      /\ giveup' \in {giveup, 1} /\ next' \in {next, -1}
  BY DEF Check, Release, Join, Released, InitThreads, Create, Created
<1>3. pc[Caller] \in Checks /\ pc'[Caller] \in Checks \cup {onto} /\ onto \in {"header", "run"}
  <2>1. CASE Check
    BY <1>1, <2>1 DEF Check, Checks, TypeOK
  <2>2. CASE Release
    BY <1>1, <2>2 DEF Release, Checks, TypeOK, Arrive
  <2>3. CASE Join
    <3>1. tid \in Procs /\ tid # Caller
      <4>1. tid \in 1 .. MaxThreads
        BY <1>1, <2>3, BloscAssumption DEF Join, FitInv, TypeOK
      <4> QED BY <1>1, <4>1
    <3> QED BY <1>1, <2>3, <3>1 DEF Join, Checks, TypeOK
  <2>4. CASE Released \/ InitThreads \/ Created
    BY <1>1, <2>4 DEF Released, InitThreads, Created, Checks, TypeOK
  <2>5. CASE Create
    <3>1. tid \in Procs /\ tid # Caller
      <4>1. tid \in 1 .. MaxThreads
        BY <1>1, <2>5, BloscAssumption DEF Create, FitInv, TypeOK
      <4> QED BY <1>1, <4>1
    <3> QED BY <1>1, <2>5, <3>1 DEF Create, Checks, TypeOK
  <2> QED BY <2>1, <2>2, <2>3, <2>4, <2>5
<1>4. /\ ~Entering /\ ~Entering' /\ ~Working' /\ ~Over' /\ ~Done' /\ pc'[Caller] # "answer"
      /\ Fresh' = Fresh /\ Served' = Served /\ Ready' = Ready /\ pc[Caller] # "idle"
  BY <1>2, <1>3 DEF Fresh, Ready, Entering, Working, Over, Done, Served, Checks
<1>5. /\ Blocks' = Blocks /\ Compressing' = Compressing /\ MustCopy' = MustCopy
      /\ \A c : Base(c)' = Base(c)
  BY <1>2, SameDocument
<1>6. JobInv'
  BY <1>1, <1>2, <1>4, <1>5 DEF JobInv, Jobs, Base
<1> QED BY <1>4, <1>6, Elsewhere

\* A job is set up (blosc2_initialize_context_from_header, do_job).
LEMMA NewJobStep ==
  ASSUME IInv, JobInv, ncalls > 0, UNCHANGED <<job, ncalls, giveup, next, workerVars>>,
         NEW copying \in BOOLEAN, NewJob(copying),
         copying => Compressing /\ (job.size < MinBuffer \/ MustCopy)
  PROVE  DataInv'
<1>1. TypeOK /\ Caller \in Procs /\ job \in Jobs
  BY DEF IInv, JobInv, Procs
<1>2. /\ Blocks' = Blocks /\ Compressing' = Compressing /\ MustCopy' = MustCopy
      /\ \A c : Base(c)' = Base(c) /\ Base(c) \in Int
  <2>1. \A c : Base(c) \in Int
    BY <1>1, JobShape, BloscAssumption DEF Base
  <2> QED BY <2>1, SameDocument
<1>3. /\ pc'[Caller] = "check" /\ onto' = "run" /\ memcpyed' = copying /\ out' = Base(copying)
      /\ bstarts' = [b \in Blocks |-> Unset] /\ filled' = [b \in Blocks |-> <<>>]
  BY <1>1 DEF NewJob, Goto, TypeOK
<1>4. /\ ~Entering' /\ ~Working' /\ ~Over' /\ ~Done' /\ pc'[Caller] # "answer" /\ ~Fresh'
  BY <1>3 DEF Fresh, Entering, Working, Over, Done, Checks
<1>5. /\ filled' \in [Blocks -> Seq(Int)] /\ bstarts' \in [Blocks -> Int]
  BY <1>3 DEF Unset
<1>6. UNCHANGED <<block, limit, took>>
  BY DEF workerVars
<1>7. out' = Base(memcpyed)'
  BY <1>2, <1>3 DEF Base
<1>8. JobInv'
  <2>1. /\ ncalls' \in Nat /\ ncalls' > 0 /\ job' \in Jobs'
        /\ next' \in Int /\ out' \in Int /\ giveup' \in Int
        /\ block' \in [Workers -> Int] /\ limit' \in [Workers -> Int] /\ took' \in [Workers -> Int \X Int]
    BY <1>1, <1>2, <1>3, <1>6 DEF JobInv, Jobs
  <2> QED BY <1>2, <1>3, <1>4, <1>5, <1>7, <2>1 DEF JobInv
<1> QED BY <1>4, <1>8, Elsewhere

\* The header is written or read.
LEMMA HeaderStep ==
  ASSUME IInv, DataInv, WriteHeader \/ Retry
  PROVE  DataInv'
<1> USE DEF At, jobVars
<1>1. JobInv /\ ncalls > 0
  BY DEF DataInv, JobInv, WriteHeader, Retry
<1>2. UNCHANGED <<job, ncalls, giveup, next, workerVars>>
  BY DEF WriteHeader, Retry
<1>3. CASE WriteHeader
  BY <1>1, <1>2, <1>3, NewJobStep DEF WriteHeader
<1>4. CASE Retry
  <2>1. Outcome(ans) /\ ans = 0 /\ Compressing
    BY <1>4 DEF DataInv, Retry
  <2>2. MustCopy
    BY <2>1 DEF Outcome
  <2> QED BY <1>1, <1>2, <1>4, <2>1, <2>2, NewJobStep DEF Retry
<1> QED BY <1>3, <1>4

\* The caller enters the pool (parallel_blosc).
LEMMA StartStep ==
  ASSUME IInv, DataInv, StartParallel
  PROVE  DataInv'
<1> USE DEF At, Goto, poolVars, syncVars, jobVars, sharedVars, workerVars, callerVars
<1>1. TypeOK /\ Caller \in Procs /\ JobInv
  BY DEF IInv, DataInv, Procs
<1>2. /\ UNCHANGED <<job, memcpyed, ncalls, ans, out, bstarts, filled, block, limit, took, onto>>
      /\ giveup' = 1 /\ next' = -1 /\ pc[Caller] = "run" /\ pc'[Caller] = "start"
  BY <1>1 DEF StartParallel, TypeOK
<1>3. /\ Entering' /\ ~Working' /\ ~Over' /\ ~Done' /\ pc'[Caller] # "answer"
      /\ ~Fresh' /\ ~Fresh /\ Served' = Served /\ Ready' /\ Ready
  BY <1>2 DEF Fresh, Ready, Entering, Working, Over, Done, Served, Checks
<1>4. /\ Blocks' = Blocks /\ Compressing' = Compressing /\ MustCopy' = MustCopy
      /\ \A c : Base(c)' = Base(c)
  BY <1>2, SameDocument
<1>5. JobInv'
  BY <1>1, <1>2, <1>3, <1>4 DEF JobInv, Jobs, Base
<1> QED BY <1>3, <1>5, Elsewhere

\* The caller takes the answer and returns it.
LEMMA EndStep ==
  ASSUME IInv, DataInv, Collect \/ Answer
  PROVE  DataInv'
<1> USE DEF At, Goto, poolVars, syncVars, jobVars, sharedVars, workerVars, callerVars
<1>1. TypeOK /\ Caller \in Procs /\ JobInv
  BY DEF IInv, DataInv, Procs
<1>2. /\ UNCHANGED <<job, memcpyed, ncalls, giveup, next, out, bstarts, filled, block, limit, took, onto>>
      /\ \/ pc[Caller] = "collect" /\ asleep[Caller] = "no" /\ pc'[Caller] = "answer" /\ ans' = Collected
         \/ /\ pc[Caller] = "answer" /\ pc'[Caller] = "idle" /\ ans' = ans
            /\ Compressing => memcpyed \/ ans # 0
  BY <1>1 DEF Collect, Answer, TypeOK, Collected
<1>3. /\ ~Entering' /\ ~Working' /\ ~Over' /\ ~Fresh' /\ ~Fresh /\ Served' = Served /\ ~Ready' /\ ~Ready
      /\ pc[Caller] # "idle"
  BY <1>2 DEF Fresh, Ready, Entering, Working, Over, Done, Served, Checks
<1>4. /\ Blocks' = Blocks /\ Compressing' = Compressing /\ MustCopy' = MustCopy
      /\ \A a : Outcome(a)' = Outcome(a)
  BY <1>2, SameDocument, SameOutcome
<1>5. JobInv'
  BY <1>1, <1>2, <1>3, <1>4 DEF JobInv, Jobs
<1>6. Outcome(ans)'
  <2>1. Outcome(ans')
    <3>1. CASE pc[Caller] = "answer" /\ ans' = ans
      BY <3>1 DEF DataInv
    <3>2. CASE Over /\ ans' = Collected
      BY <3>2 DEF DataInv
    <3> QED BY <1>2, <3>1, <3>2 DEF Over
  <2> QED BY <1>4, <2>1 DEF Outcome
<1>7. /\ Done' => (Compressing' => memcpyed' \/ ans' # 0)
  BY <1>2, <1>4 DEF Done
<1> QED BY <1>3, <1>5, <1>6, <1>7 DEF DataInv

-----------------------------------------------------------------------------
(* Taking the blocks one after another *)

\* The uncompressed blocks lie where the document has them.
LEMMA CopiedBefore ==
  ASSUME job \in Jobs, NEW k \in 0 .. NBlocks, \A b \in 0 .. (k - 1) : CBytes(b) = BSize(b)
  PROVE  Before(k) = IF k = NBlocks THEN job.size ELSE k * BlockSize
<1> DEFINE N == NBlocks
           P(j) == j <= k => Before(j) = IF j = N THEN job.size ELSE j * BlockSize
           S == {j \in Nat : P(j)}
<1>1. N \in Nat \ {0} /\ BlockSize \in Nat
  BY JobShape, BloscAssumption
<1> HIDE DEF N
<1>2. 0 \in S
  <2>1. 0 # N /\ 0 * BlockSize = 0
    BY <1>1
  <2> QED BY <2>1, BeforeNext
<1>3. ASSUME NEW j \in Nat, j \in S PROVE j + 1 \in S
  <2> SUFFICES ASSUME j + 1 <= k PROVE Before(j + 1) = IF j + 1 = N THEN job.size ELSE (j + 1) * BlockSize
    OBVIOUS
  <2>1. j \in 0 .. (k - 1) /\ j \in Blocks /\ j # N
    BY <1>1 DEF Blocks, N
  <2>2. Before(j) = j * BlockSize
    BY <1>1, <1>3, <2>1
  <2>3. Before(j + 1) = Before(j) + CBytes(j)
    BY <2>1, BeforeNext
  <2>4. CBytes(j) = BSize(j)
    BY <2>1
  <2>5. j * BlockSize + BSize(j) = IF j + 1 = NBlocks THEN job.size ELSE (j + 1) * BlockSize
    BY <2>1, BlockBytes
  <2> QED BY <2>2, <2>3, <2>4, <2>5 DEF N
<1>4. Nat \subseteq S
  <2> HIDE DEF S
  <2> QED BY <1>2, <1>3, Induction
<1>5. k \in Nat /\ k <= k
  BY <1>1 DEF N
<1> QED BY <1>4, <1>5 DEF N

\* The compressed blocks come to what they give.
LEMMA CodedBefore ==
  ASSUME job \in Jobs, Compressing, ~memcpyed, NEW k \in 0 .. NBlocks
  PROVE  Before(k) = Sum(0 .. (k - 1))
<1>1. 0 .. (k - 1) \subseteq Blocks
  BY JobShape DEF Blocks
<1>2. \A b \in Blocks : CBytes(b) = Gives(b)
  BY BlockBytes
<1>3. Coded = Given
  BY <1>2 DEF Coded, Given
<1> QED BY <1>1, <1>3, BeforeIs DEF Before, Sum

\* They fill the range up to the next.
LEMMA PrefixTiles ==
  ASSUME job \in Jobs, Compressing, ~memcpyed, NEW base \in Int, NEW at, NEW k \in 0 .. NBlocks,
         \A b \in 0 .. (k - 1) : Gives(b) > 0 /\ at[b] = base + Before(b)
  PROVE  Tiling(at, Given, 0 .. (k - 1), base, base + Before(k))
<1> DEFINE P(j) == j <= k => base <= base + Before(j) /\ Tiling(at, Given, 0 .. (j - 1), base, base + Before(j))
           S == {j \in Nat : P(j)}
<1>1. NBlocks \in Nat
  BY JobShape
<1>2. 0 \in S
  <2>1. 0 .. (0 - 1) = {} /\ base + Before(0) = base
    BY BeforeNext
  <2>2. Tiling(at, Given, {}, base, base)
    BY TilingNone
  <2> QED BY <2>1, <2>2
<1>3. ASSUME NEW j \in Nat, j \in S PROVE j + 1 \in S
  <2> SUFFICES ASSUME j + 1 <= k PROVE P(j + 1)
    OBVIOUS
  <2> DEFINE T == 0 .. (j - 1)
             e == base + Before(j)
  <2>1. j \in 0 .. (k - 1) /\ j \in Blocks /\ j \in 0 .. NBlocks
    BY <1>1 DEF Blocks
  <2>2. Before(j) \in Int /\ Before(j + 1) = Before(j) + CBytes(j)
    BY <2>1, BeforeNext
  <2>3. CBytes(j) = Gives(j) /\ Gives(j) \in Nat \ {0} /\ Given[j] = Gives(j)
    BY <2>1, BlockBytes, JobShape DEF Given
  <2>4. base <= e /\ Tiling(at, Given, T, base, e)
    BY <1>3, <2>1
  <2>5. e \in Int /\ at[j] = e /\ j \notin T /\ 0 .. ((j + 1) - 1) = T \cup {j}
    BY <2>1, <2>2
  <2>6. base + Before(j + 1) = e + Given[j] /\ base <= e + Given[j]
    BY <2>2, <2>3, <2>4
  <2> HIDE DEF T, e
  <2>7. Tiling(at, Given, T \cup {j}, base, e + Given[j])
    BY <2>3, <2>4, <2>5, TilingGrows
  <2> QED BY <2>5, <2>6, <2>7
<1>4. Nat \subseteq S
  <2> HIDE DEF S
  <2> QED BY <1>2, <1>3, Induction
<1>5. k \in Nat /\ k <= k
  BY <1>1
<1> QED BY <1>4, <1>5

\* serial_blosc answers as the blocks do.
LEMMA SerialStep ==
  ASSUME IInv, DataInv, RunSerial
  PROVE  DataInv'
<1> USE DEF At, Goto, poolVars, syncVars, jobVars, sharedVars, workerVars, callerVars
<1> DEFINE N == NBlocks
           place(b) == Base(memcpyed) + Before(b)
           stops == {b \in Blocks : \/ CBytes(b) <= 0
                                    \/ Compressing /\ place(b) + CBytes(b) > DestSize}
           end == IF stops = {} THEN N ELSE Min(stops)
<1>1. TypeOK /\ Caller \in Procs /\ JobInv
  BY DEF IInv, DataInv, Procs
<1>2. /\ UNCHANGED <<job, memcpyed, ncalls, giveup, next, out, block, limit, took, onto>>
      /\ pc[Caller] = "run" /\ pc'[Caller] = "answer"
  BY <1>1 DEF RunSerial, TypeOK
<1>3. /\ ans' = IF stops = {} THEN place(N) ELSE IF CBytes(end) < 0 THEN CBytes(end) ELSE 0
      /\ bstarts' = [b \in Blocks |-> IF b <= end /\ Compressing /\ ~memcpyed THEN place(b) ELSE bstarts[b]]
      /\ filled' = [b \in Blocks |-> IF b < end THEN <<place(b)>> ELSE <<>>]
  BY DEF RunSerial
<1>4. /\ ~Entering' /\ ~Working' /\ ~Over' /\ ~Fresh' /\ ~Fresh /\ Served' = Served /\ ~Ready' /\ Ready
      /\ pc[Caller] # "idle" /\ ~Done'
  BY <1>2 DEF Fresh, Ready, Entering, Working, Over, Done, Served, Checks
<1>5. /\ Blocks' = Blocks /\ Compressing' = Compressing /\ MustCopy' = MustCopy /\ Sound' = Sound
      /\ Total' = Total /\ Given' = Given
      /\ Base(FALSE)' = Base(FALSE) /\ \A b : Gives(b)' = Gives(b)
  BY <1>2, SameDocument
<1>6. /\ job \in Jobs /\ memcpyed \in BOOLEAN /\ ncalls > 0 /\ bstarts \in [Blocks -> Int]
      /\ memcpyed => Compressing
  BY <1>1, <1>2, <1>4 DEF JobInv, Served
<1>7. /\ N \in Nat \ {0} /\ N <= job.size /\ job.size \in Nat \ {0} /\ Header \in Nat \ {0}
      /\ Blocks = 0 .. (N - 1) /\ DestSize = job.size + Header
      /\ Base(memcpyed) = IF ~Compressing THEN 0 ELSE IF memcpyed THEN Header ELSE Header + N
  BY <1>6, JobShape, BloscAssumption DEF Blocks, DestSize, Base
<1>8. /\ \A b \in 0 .. N : Before(b) \in Int /\ place(b) \in Int
      /\ \A b \in Blocks : Before(b + 1) = Before(b) + CBytes(b)
  <2>1. Base(memcpyed) \in Int
    BY <1>7
  <2> QED BY <1>6, <2>1, BeforeNext
<1>9. \A b \in Blocks : CBytes(b) \in Int /\ Gives(b) \in Int /\ b \in 0 .. N /\ b + 1 \in 0 .. N
  <2>1. \A b \in Blocks : CBytes(b) \in Int /\ Gives(b) \in Int
    BY <1>6, BlockBytes, JobShape
  <2>2. \A b \in Blocks : b \in 0 .. N /\ b + 1 \in 0 .. N
    BY <1>7
  <2> QED BY <2>1, <2>2
<1>10. /\ end \in 0 .. N /\ (stops # {} => end \in stops)
       /\ \A b \in Blocks : b < end => b \notin stops
  <2>1. CASE stops = {}
    BY <1>7, <2>1
  <2>2. CASE stops # {}
    <3>1. stops \subseteq Nat
      BY <1>7
    <3>2. Min(stops) \in stops /\ \A y \in stops : Min(stops) <= y
      <4> HIDE DEF stops
      <4> QED BY <2>2, <3>1, LeastExists
    <3>3. end \in stops /\ \A y \in stops : end <= y
      BY <2>2, <3>2
    <3>4. end \in Blocks /\ stops \subseteq Blocks
      BY <3>3
    <3> HIDE DEF end, stops
    <3> QED BY <1>7, <3>3, <3>4
  <2> QED BY <2>1, <2>2
<1>11. \A b \in Blocks : b < end => CBytes(b) > 0
  BY <1>9, <1>10
<1>12. stops = {} => end = N
  OBVIOUS
<1>13. end \in stops => /\ end \in Blocks
                        /\ \/ CBytes(end) <= 0
                           \/ Compressing /\ place(end) + CBytes(end) > DestSize
  OBVIOUS
<1> HIDE DEF end, stops, N, place
<1>14. JobInv'
  <2>1. filled' \in [Blocks -> Seq(Int)] /\ bstarts' \in [Blocks -> Int]
    BY <1>3, <1>6, <1>8, <1>9
  <2> QED BY <1>1, <1>2, <1>4, <1>5, <1>6, <2>1 DEF JobInv, Jobs
<1>15. \A b \in Blocks : Len(filled'[b]) <= 1 /\ (stops = {} => filled'[b] = <<place(b)>> /\ Len(filled'[b]) = 1)
  BY <1>3, <1>7, <1>12
<1>16. ASSUME stops = {} PROVE Outcome(ans)'
  <2>1. ans' = place(N) /\ \A b \in Blocks : CBytes(b) > 0
    BY <1>3, <1>7, <1>11, <1>12, <1>16
  <2>2. CASE Compressing /\ ~memcpyed
    <3>1. \A b \in Blocks : bstarts'[b] = place(b) /\ Gives(b) > 0
      BY <1>3, <1>6, <1>7, <1>12, <1>16, <2>1, <2>2, BlockBytes
    <3>2. Tiling(bstarts', Given, Blocks, Base(memcpyed), place(N))
      <4>1. Base(memcpyed) \in Int
        BY <1>7
      <4>2. NBlocks \in 0 .. NBlocks /\ Blocks = 0 .. (NBlocks - 1)
        BY <1>7 DEF N
      <4> DEFINE base == Base(memcpyed)
                 at == bstarts'
      <4>3. base \in Int /\ \A b \in 0 .. (NBlocks - 1) : Gives(b) > 0 /\ at[b] = base + Before(b)
        BY <3>1, <4>1, <4>2 DEF place
      <4> HIDE DEF base, at
      <4>4. Tiling(at, Given, 0 .. (NBlocks - 1), base, base + Before(NBlocks))
        BY <1>6, <2>2, <4>2, <4>3, PrefixTiles
      <4> QED BY <4>2, <4>4 DEF base, at, place, N
    <3>3. Base(FALSE) = Header + N /\ Base(memcpyed) = Header + N
      BY <1>7, <2>2 DEF Base, N
    <3>4. Sound = Blocks
      BY <3>1 DEF Sound
    <3>5. place(N) = Total
      <4>1. Before(NBlocks) = Sum(0 .. (NBlocks - 1))
        BY <1>6, <1>7, <2>2, CodedBefore DEF N
      <4>2. Sum(Blocks) \in Int
        BY <1>6, SumLaws
      <4> QED BY <1>7, <3>3, <3>4, <4>1, <4>2 DEF Total, place, N
    <3>6. place(N) > 0
      <4>1. Sum({}) <= Sum(Blocks) /\ Sum({}) = 0 /\ Sum(Blocks) \in Int
        BY <1>6, <3>1, SumLaws
      <4> QED BY <1>7, <3>4, <3>5, <4>1 DEF Total, N
    <3>7. place(N) \in Int
      BY <1>7, <1>8
    <3>8. Tiling(bstarts', Given, Blocks, Base(FALSE), ans')
      BY <2>1, <3>2, <3>3
    <3>9. \A b \in Blocks : filled'[b] = <<bstarts'[b]>>
      BY <1>15, <1>16, <3>1
    <3>10. ans' \in Int /\ ans' > 0 /\ ans' = Total
      BY <2>1, <3>5, <3>6, <3>7
    <3>11. /\ \A b \in Blocks : Len(filled'[b]) <= 1 /\ (ans' > 0 => Len(filled'[b]) = 1)
           /\ ~(ans' < 0) /\ ans' # 0
      BY <1>15, <1>16, <3>10
    <3>12. /\ Compressing /\ ~memcpyed /\ ans' > 0 =>
                /\ \A b \in Blocks : filled'[b] = <<bstarts'[b]>>
                /\ Tiling(bstarts', Given, Blocks, Base(FALSE), ans')
           /\ ~memcpyed /\ Sound = Blocks /\ ans' = IF Compressing THEN Total ELSE job.size
      BY <2>2, <3>4, <3>8, <3>9, <3>10
    <3> QED BY <1>2, <3>10, <3>11, <3>12, NextOutcome
  <2>3. CASE ~(Compressing /\ ~memcpyed)
    <3>1. \A b \in Blocks : CBytes(b) = BSize(b)
      BY <1>6, <2>1, <2>3, BlockBytes
    <3>2. Before(N) = job.size
      <4>1. NBlocks \in 0 .. NBlocks /\ \A b \in 0 .. (NBlocks - 1) : CBytes(b) = BSize(b)
        BY <1>7, <3>1 DEF N
      <4> QED BY <1>6, <4>1, CopiedBefore DEF N
    <3>3. ans' = IF Compressing THEN job.size + Header ELSE job.size
      BY <1>6, <1>7, <2>1, <2>3, <3>2 DEF place
    <3>4. ~Compressing => Sound = Blocks
      BY <1>6, <2>1, BlockBytes DEF Sound
    <3>5. ans' \in Int /\ ans' > 0
      BY <1>7, <3>3
    <3>6. \A b \in Blocks : Len(filled'[b]) <= 1 /\ (ans' > 0 => Len(filled'[b]) = 1)
      BY <1>15, <1>16
    <3>7. ~(ans' < 0) /\ ans' # 0
      BY <3>5
    <3>8. /\ ans' > 0 /\ memcpyed => ans' = job.size + Header
          /\ ans' > 0 /\ ~memcpyed => Sound = Blocks /\ ans' = IF Compressing THEN Total ELSE job.size
      BY <1>6, <2>3, <3>3, <3>4
    <3> QED BY <1>2, <2>3, <3>5, <3>6, <3>7, <3>8, NextOutcome
  <2> QED BY <2>2, <2>3
<1>17. ASSUME stops # {} PROVE Outcome(ans)'
  <2>1. /\ end \in Blocks /\ ans' = IF CBytes(end) < 0 THEN CBytes(end) ELSE 0
        /\ \/ CBytes(end) <= 0
           \/ Compressing /\ place(end) + CBytes(end) > DestSize
    BY <1>3, <1>10, <1>13, <1>17
  <2>2. ans' <= 0 /\ ans' \in Int
    BY <1>9, <2>1
  <2>3. ans' < 0 => ~memcpyed /\ \E b \in Blocks : Gives(b) = ans'
    BY <1>6, <1>9, <2>1, BlockBytes
  <2>4. ans' = 0 => Compressing /\ ~memcpyed /\ MustCopy
    <3> SUFFICES ASSUME ans' = 0 PROVE Compressing /\ ~memcpyed /\ MustCopy
      OBVIOUS
    <3>1. CASE CBytes(end) = 0
      BY <1>6, <2>1, <3>1, BlockBytes DEF MustCopy
    <3>2. CASE CBytes(end) > 0
      <4>1. Compressing /\ place(end) + CBytes(end) > DestSize
        BY <1>9, <2>1, <3>2
      <4>2. CASE memcpyed
        <5>1. \A b \in 0 .. (end - 1) : b \in Blocks /\ b < end
          BY <1>7, <2>1
        <5>2. \A b \in 0 .. (end - 1) : CBytes(b) = BSize(b)
          BY <1>6, <1>11, <4>1, <4>2, <5>1, BlockBytes
        <5>3. end \in 0 .. NBlocks /\ end # NBlocks
          BY <1>7, <2>1 DEF N
        <5>4. Before(end) = end * BlockSize
          BY <1>6, <5>2, <5>3, CopiedBefore
        <5>5. /\ end * BlockSize \in Nat /\ CBytes(end) = BSize(end) /\ BSize(end) \in Nat
              /\ end * BlockSize + BSize(end) = IF end + 1 = NBlocks THEN job.size ELSE (end + 1) * BlockSize
          BY <1>6, <2>1, <3>2, <4>2, BlockBytes
        <5>6. end * BlockSize + BSize(end) <= job.size
          <6>1. CASE end + 1 = NBlocks
            BY <1>7, <5>5, <6>1
          <6>2. CASE end + 1 # NBlocks
            <7>1. end + 1 <= N - 1 /\ end + 1 \in Nat /\ N - 1 \in Nat /\ BlockSize \in Nat
              BY <1>7, <2>1, <6>2, BloscAssumption DEF N
            <7>2. (end + 1) * BlockSize <= (N - 1) * BlockSize
              BY <7>1
            <7>3. (N - 1) * BlockSize < job.size
              BY <1>6, JobShape DEF N
            <7>4. (end + 1) * BlockSize \in Nat /\ (N - 1) * BlockSize \in Nat
              BY <7>1
            <7> QED BY <1>7, <5>5, <6>2, <7>2, <7>3, <7>4
          <6> QED BY <6>1, <6>2
        <5>7. place(end) = Header + end * BlockSize
          BY <1>7, <4>1, <4>2, <5>4 DEF place
        <5> QED BY <1>7, <4>1, <5>5, <5>6, <5>7
      <4>3. CASE ~memcpyed
        <5> DEFINE s == 0 .. end
        <5>1. /\ end \in 0 .. NBlocks /\ end + 1 \in 0 .. NBlocks /\ s \subseteq Blocks
              /\ 0 .. ((end + 1) - 1) = s
          BY <1>7, <2>1 DEF N
        <5>2. Before(end + 1) = Sum(s)
          BY <1>6, <4>1, <4>3, <5>1, CodedBefore
        <5>3. \A b \in s : Gives(b) > 0
          <6> TAKE b \in s
          <6>1. b \in Blocks /\ (b < end \/ b = end)
            BY <1>7, <2>1, <5>1
          <6>2. CBytes(b) > 0
            BY <1>11, <3>2, <6>1
          <6> QED BY <1>6, <4>1, <4>3, <6>1, <6>2, BlockBytes
        <5>4. s \subseteq Sound /\ Sound \subseteq Blocks /\ \A b \in Sound : Gives(b) > 0
          BY <5>1, <5>3 DEF Sound
        <5> HIDE DEF s
        <5>5. Sum(s) <= Sum(Sound) /\ Sum(s) \in Int /\ Sum(Sound) \in Int
          BY <1>6, <5>1, <5>4, SumLaws
        <5>6. place(end) + CBytes(end) = Header + N + Sum(s)
          <6>1. Before(end + 1) = Before(end) + CBytes(end) /\ Before(end) \in Int /\ CBytes(end) \in Int
            BY <1>8, <1>9, <2>1
          <6>2. Base(memcpyed) = Header + N
            BY <1>7, <4>1, <4>3
          <6> QED BY <1>7, <5>2, <6>1, <6>2 DEF place
        <5>7. Total > DestSize
          BY <1>7, <4>1, <5>5, <5>6 DEF Total, N
        <5> QED BY <4>1, <4>3, <5>7 DEF MustCopy
      <4> QED BY <4>2, <4>3
    <3> QED BY <1>9, <2>1, <3>1, <3>2
  <2>5. /\ \A b \in Blocks : Len(filled'[b]) <= 1 /\ (ans' > 0 => Len(filled'[b]) = 1)
        /\ ~(ans' > 0)
    BY <1>15, <2>2
  <2> QED BY <1>2, <2>2, <2>3, <2>4, <2>5, NextOutcome
<1> QED BY <1>2, <1>4, <1>14, <1>16, <1>17 DEF DataInv

-----------------------------------------------------------------------------
(* A job begins and ends *)

\* The share of a thread is blocks of the document.
LEMMA OwnShare ==
  ASSUME IInv, job \in Jobs, NEW w \in Team
  PROVE  Mine(w) \subseteq Blocks /\ Share(w)[1] \in Nat /\ Share(w)[2] \in 0 .. NBlocks
<1>1. w \in 1 .. nthreads /\ nthreads \in Nat \ {0} /\ NBlocks \in Nat
  BY Positions, JobShape, BloscAssumption DEF IInv, TypeOK
<1>2. Share(w)[1] \in Nat /\ Share(w)[2] \in 0 .. NBlocks
  BY <1>1, Shares
<1> QED BY <1>1, <1>2 DEF Mine, Blocks

\* At the first barrier of a job no block has been handed out.
LEMMA JobBegins ==
  ASSUME IInv, JobInv, Entering, JobInv', Working', \A w \in Team' : pc'[w] = "woken",
         UNCHANGED <<job, memcpyed, giveup, next, out, bstarts, filled, nthreads, Team>>
  PROVE  DataInv'
<1>1. /\ ncalls > 0 /\ Ready /\ ~Fresh
  BY DEF JobInv, Entering, Ready, Fresh, Checks
<1>2. /\ job \in Jobs /\ memcpyed \in BOOLEAN /\ out = Base(memcpyed) /\ giveup = 1 /\ next = -1
      /\ filled = [b \in Blocks |-> <<>>] /\ bstarts = [b \in Blocks |-> Unset]
      /\ memcpyed => Compressing
  BY <1>1 DEF JobInv, Served
<1>3. /\ UNCHANGED <<NBlocks, Blocks, Compressing, DestSize, Given, Static>>
      /\ \A b : CBytes(b)' = CBytes(b)
      /\ \A copying : Base(copying)' = Base(copying)
      /\ \A S : Sum(S)' = Sum(S)
      /\ \A w : Mine(w)' = Mine(w)
  BY SameDocument, SameJob
<1>4. pc'[Caller] \in {"finish", "collect"} /\ ~Over' /\ ~Done' /\ pc'[Caller] # "answer"
  BY DEF Working, Over, Done
<1>5. GiveupInv'
  BY <1>2 DEF GiveupInv
<1>6. \A b \in Blocks : filled'[b] = <<>> /\ bstarts'[b] = Unset /\ ~Written(b)'
  BY <1>2, <1>3 DEF Written
<1>7. StaticInv'
  <2>1. \A b \in Blocks' : Len(filled'[b]) <= 1 /\ ~Written(b)'
    BY <1>3, <1>6
  <2>2. ASSUME NEW w \in Team' PROVE StaticOf(w)'
    <3>1. \A b \in Mine(w)' : ~Written(b)'
      BY <1>2, <1>3, <1>6, OwnShare
    <3> QED BY <3>1 DEF StaticOf
  <2> QED BY <2>1, <2>2 DEF StaticInv
<1>8. ~Static' => QueueInv'
  <2> SUFFICES ASSUME ~Static' PROVE QueueInv'
    OBVIOUS
  <2>1. Compressing /\ ~memcpyed /\ memcpyed = FALSE
    BY <1>2, <1>3 DEF Static
  <2>2. Placed' = {}
    BY <1>3, <1>6 DEF Placed
  <2>3. /\ NBlocks \in Nat /\ job.size \in Nat /\ NBlocks <= job.size /\ Header \in Nat /\ Sum({}) = 0
        /\ Base(FALSE) = Header + NBlocks /\ out = Header + NBlocks /\ Base(FALSE) \in Int
    BY <1>2, <2>1, JobShape, SumLaws, BloscAssumption DEF Base
  <2>4. QueueRoom'
    <3>0. Sum(Placed)' = 0
      BY <1>3, <2>2, <2>3 DEF Sum
    <3> DEFINE base == Base(FALSE)
               none == Placed
    <3>1. base' = base /\ none' = {} /\ out' = base /\ base \in Int /\ Sum(none)' = 0
      <4>1. base' = base
        BY <1>3
      <4>2. none' = {} /\ Sum(none)' = 0
        BY <2>2, <3>0
      <4>3. base \in Int
        BY <2>3
      <4>4. out' = base
        BY <2>3
      <4> HIDE DEF base, none
      <4> QED BY <4>1, <4>2, <4>3, <4>4
    <3>2. out <= DestSize
      BY <2>3 DEF DestSize
    <3>3. Tiling(bstarts', Given, {}, base, base)
      BY <3>1, TilingNone
    <3> HIDE DEF base, none
    <3>4. Tiling(bstarts, Given, none, base, out)'
      BY <1>3, <3>1, <3>3 DEF Tiling
    <3>5. next' >= -1 /\ out' <= DestSize' /\ out' = base' + Sum(none)'
      BY <1>2, <1>3, <3>1, <3>2
    <3> QED BY <3>4, <3>5 DEF QueueRoom, base, none
  <2>5. QueueBlocks'
    BY <1>3, <1>6 DEF QueueBlocks
  <2>6. (\A w \in Team : QueueOf(w))' /\ QueueApart'
    BY DEF QueueOf, QueueApart, Holding
  <2>7. QueueKept'
    <3>1. \A b \in Blocks : ~(b <= next)
      BY <1>2, <2>3 DEF Blocks
    <3>2. \A b \in Blocks' : ~(b <= next') /\ bstarts'[b] = Unset
      BY <1>3, <1>6, <3>1
    <3> QED BY <3>2 DEF QueueKept
  <2> QED BY <2>4, <2>5, <2>6, <2>7 DEF QueueInv
<1> QED BY <1>4, <1>5, <1>7, <1>8 DEF DataInv

\* Coming to the first barrier: whoever is the last lets the job begin.
LEMMA ArriveStep ==
  ASSUME IInv, DataInv, IInv', NEW p \in Procs,
         \/ p = Caller /\ AwaitInit
         \/ p \in Workers /\ WaitInit(p)
  PROVE  DataInv'
<1> USE DEF poolVars, jobVars, sharedVars, workerVars, callerVars
<1> DEFINE then == IF p = Caller THEN "finish" ELSE "woken"
<1>1. /\ TypeOK /\ FitInv /\ TeamInv /\ JobInv /\ Procs = {Caller} \cup Workers /\ Caller \notin Workers
      /\ TeamInv' /\ FitInv'
  BY DEF IInv, DataInv, Procs, Workers, Caller
<1>2. /\ UNCHANGED <<job, memcpyed, ncalls, ans, giveup, next, out, bstarts, filled, block, limit, took,
                    onto, tid, started, nthreads>>
      /\ Arrive(p, "init", then) /\ asleep[p] = "no"
      /\ pc[p] = IF p = Caller THEN "start" ELSE "init"
  BY <1>1 DEF AwaitInit, WaitInit, At
<1>3. Gathering
  BY <1>1, <1>2 DEF TeamInv, Gathering, Working, Ending, InJob
<1>4. \A q \in Procs : asleep[q] \in {"no", "init"}
  BY <1>3, Positions
<1>5. /\ pc'[p] = then /\ \A q \in Procs : q # p => pc'[q] = pc[q]
  BY <1>2 DEF Arrive, Goto, IInv, TypeOK
<1>6. /\ \A q \in Procs : asleep'[q] \in {"no", "init"}
      /\ \A q \in Procs : q # p => asleep'[q] \in {"no", asleep[q]}
  BY <1>2, <1>4 DEF Arrive, IInv, TypeOK
<1>7. Caller \in Procs /\ (Working' <=> pc'[Caller] = "finish" /\ asleep'[Caller] = "no")
  BY <1>1, <1>6 DEF Working
<1>8. pc'[Caller] = "finish" => Entering
  BY <1>1, <1>2, <1>3, <1>4, <1>5 DEF Entering, Gathering, Working
<1>9. /\ UNCHANGED <<NBlocks, Blocks, Compressing, MustCopy>>
      /\ \A copying : Base(copying)' = Base(copying)
      /\ \A a : Outcome(a)' = Outcome(a)
  BY <1>2, SameDocument, SameOutcome
<1>10. (Fresh' <=> Fresh) /\ (Served' <=> Served)
  BY <1>1, <1>2, <1>5 DEF Fresh, Served, Checks
<1>11. Entering' => Entering
  BY <1>1, <1>2, <1>5, <1>6, <1>8 DEF Entering
<1>12. Ready' => Ready
  BY <1>1, <1>2, <1>5, <1>11 DEF Ready, Checks
<1>13. JobInv'
  <2>1. ncalls' > 0 \/ pc'[Caller] = "idle"
    BY <1>1, <1>2, <1>5 DEF JobInv
  <2> QED BY <1>1, <1>2, <1>9, <1>10, <1>11, <1>12, <2>1 DEF JobInv, Jobs, Base
<1>14. CASE Working'
  <2>1. pc'[Caller] = "finish" /\ Entering /\ pc[Caller] \in {"start", "finish"}
    BY <1>7, <1>8, <1>14 DEF Entering
  <2>2. Team' = Team
    BY <1>2, <2>1 DEF Team, Ending
  <2>3. ASSUME NEW w \in Team' PROVE pc'[w] = "woken"
    <3>1. w \in Team /\ w \in Workers
      BY <2>2, <2>3, Positions
    <3>2. pc[w] \in {"init", "woken"}
      BY <1>1, <1>3, <3>1 DEF TeamInv
    <3>3. pc'[w] \in {"init", "woken"}
      BY <1>1, <1>5, <3>1, <3>2
    <3>4. pc'[w] # "init"
      BY <1>1, <1>6, <1>14, <2>3, <3>1 DEF TeamInv, InJob
    <3> QED BY <3>3, <3>4
  <2> QED BY <1>1, <1>2, <1>13, <1>14, <2>1, <2>2, <2>3, JobBegins
<1>15. CASE ~Working'
  <2>1. Over' => Over
    BY <1>1, <1>2, <1>4, <1>5 DEF Over, TeamInv
  <2>2. (Done' => Done) /\ (pc'[Caller] = "answer" => pc[Caller] = "answer")
    BY <1>1, <1>2, <1>5 DEF Done
  <2>3. Collected' = Collected
    BY <1>2 DEF Collected
  <2> QED BY <1>2, <1>9, <1>13, <1>15, <2>1, <2>2, <2>3 DEF DataInv
<1> QED BY <1>14, <1>15

\* A job in which every thread has come to its end has the outcome of its blocks.
LEMMA JobEnds ==
  ASSUME IInv, DataInv, Working, \A w \in Team : pc[w] \in {"finish", "init"}
  PROVE  Outcome(Collected)
<1>1. TypeOK /\ FitInv /\ JobInv /\ GiveupInv /\ (Static => StaticInv) /\ (~Static => QueueInv)
  BY DEF IInv, DataInv
<1>2. /\ pc[Caller] \in {"finish", "collect"} /\ Served /\ ncalls > 0
  BY <1>1 DEF Working, Served, Fresh, Checks, JobInv
<1>3. /\ job \in Jobs /\ memcpyed \in BOOLEAN /\ (memcpyed => Compressing)
      /\ filled \in [Blocks -> Seq(Int)] /\ bstarts \in [Blocks -> Int] /\ out \in Int /\ giveup \in Int
  BY <1>1, <1>2 DEF JobInv
<1>4. Team = 1 .. nthreads /\ nthreads \in Nat \ {0} /\ 1 \in Team
  <2>1. started = nthreads /\ nthreads \in Nat \ {0}
    BY <1>1, <1>2, BloscAssumption DEF FitInv, TypeOK
  <2>2. Team = 1 .. started
    BY <1>2 DEF Team, Ending
  <2> QED BY <2>1, <2>2
<1>5. /\ job.size \in Nat \ {0} /\ Header \in Nat \ {0} /\ NBlocks \in Nat \ {0} /\ Blocks = 0 .. (NBlocks - 1)
      /\ \A b \in Blocks : CBytes(b) \in Int /\ Gives(b) \in Int
      /\ \A b \in Blocks : CBytes(b) < 0 => Gives(b) = CBytes(b) /\ ~memcpyed
  <2>1. /\ job.size \in Nat \ {0} /\ Header \in Nat \ {0} /\ NBlocks \in Nat \ {0} /\ Blocks = 0 .. (NBlocks - 1)
        /\ \A b \in Blocks : Gives(b) \in Int
    BY <1>3, JobShape, BloscAssumption DEF Blocks
  <2>2. ASSUME NEW b \in Blocks
        PROVE  CBytes(b) \in Int /\ (CBytes(b) < 0 => Gives(b) = CBytes(b) /\ ~memcpyed)
    <3>1. CBytes(b) \in Int /\ (CBytes(b) <= 0 => CBytes(b) = Gives(b) /\ ~(Compressing /\ memcpyed))
      BY <1>3, BlockBytes
    <3> QED BY <1>3, <3>1
  <2> QED BY <2>1, <2>2
<1>6. giveup <= 0 => /\ Collected = giveup
                     /\ giveup < 0 => ~memcpyed /\ \E b \in Blocks : Gives(b) = Collected
                     /\ giveup = 0 => Compressing /\ ~memcpyed /\ MustCopy
  <2> SUFFICES ASSUME giveup <= 0
               PROVE  /\ Collected = giveup
                      /\ giveup < 0 => ~memcpyed /\ \E b \in Blocks : Gives(b) = Collected
                      /\ giveup = 0 => Compressing /\ ~memcpyed /\ MustCopy
    OBVIOUS
  <2>1. Collected = giveup
    BY DEF Collected
  <2>2. ASSUME giveup < 0 PROVE ~memcpyed /\ \E b \in Blocks : Gives(b) = giveup
    <3>1. PICK b \in Blocks : CBytes(b) = giveup
      BY <1>1, <2>2 DEF GiveupInv
    <3> QED BY <1>5, <2>2, <3>1
  <2>3. giveup = 0 => Compressing /\ ~memcpyed /\ MustCopy
    BY <1>1 DEF GiveupInv
  <2> QED BY <2>1, <2>2, <2>3
<1>7. giveup > 0 => Collected = out
  BY <1>3 DEF Collected
<1>0. Collected \in Int
  BY <1>3 DEF Collected
<1>8. ASSUME Static PROVE Outcome(Collected)
  <2>1. \A b \in Blocks : Len(filled[b]) <= 1 /\ (Written(b) => CBytes(b) > 0)
    BY <1>1, <1>8 DEF StaticInv
  <2>2. CASE giveup > 0
    <3>1. ASSUME NEW b \in Blocks PROVE Written(b)
      <4>1. PICK w \in 1 .. nthreads : Share(w)[1] <= b /\ b < Share(w)[2]
        BY <1>3, <1>4, Shares
      <4>2. w \in Team /\ Share(w)[1] \in Nat /\ Share(w)[2] \in 0 .. NBlocks
        BY <1>3, <1>4, OwnShare
      <4>3. b \in Mine(w)
        BY <1>5, <4>1, <4>2 DEF Mine
      <4> QED BY <1>1, <1>8, <2>2, <4>2, <4>3 DEF StaticInv, StaticOf
    <3>2. \A b \in Blocks : Len(filled[b]) = 1
      <4> TAKE b \in Blocks
      <4>1. filled[b] \in Seq(Int) /\ filled[b] # <<>>
        BY <1>3, <3>1 DEF Written
      <4> DEFINE n == Len(filled[b])
      <4>2. n \in Nat /\ n # 0
        BY <4>1
      <4>3. n <= 1
        BY <2>1
      <4> HIDE DEF n
      <4>4. n = 1
        BY <4>2, <4>3
      <4> QED BY <4>4 DEF n
    <3>3. Collected = StaticEnd
      BY <1>1, <1>4, <1>7, <1>8, <2>2 DEF StaticInv, StaticOf
    <3>4. Collected = IF Compressing THEN job.size + Header ELSE job.size
      BY <1>5, <3>3 DEF StaticEnd
    <3>5. ~(Compressing /\ ~memcpyed)
      BY <1>8 DEF Static
    <3>6. ~memcpyed => Sound = Blocks
      BY <1>3, <2>1, <3>1, <3>5, BlockBytes DEF Sound
    <3>7. Collected > 0 /\ Collected \in Int /\ ~(Collected < 0) /\ Collected # 0
      BY <1>5, <3>4
    <3> QED BY <1>0, <1>3, <2>1, <3>2, <3>4, <3>5, <3>6, <3>7 DEF Outcome
  <2>3. CASE giveup <= 0
    <3>1. ~(giveup > 0)
      BY <1>3, <2>3
    <3> QED BY <1>0, <1>3, <1>6, <2>1, <2>3, <3>1 DEF Outcome
  <2> QED BY <1>3, <2>2, <2>3
<1>9. ASSUME ~Static PROVE Outcome(Collected)
  <2>1. Compressing /\ ~memcpyed /\ QueueInv
    BY <1>1, <1>9 DEF Static
  <2>2. \A b \in Blocks : Len(filled[b]) <= 1
    <3> TAKE b \in Blocks
    <3> DEFINE s == bstarts[b]
    <3>1. filled[b] = <<>> \/ filled[b] = <<s>>
      BY <2>1 DEF QueueInv, QueueBlocks, Written
    <3>2. s \in Int
      BY <1>3
    <3> HIDE DEF s
    <3>3. CASE filled[b] = <<>>
      <4>1. Len(filled[b]) = 0
        BY <3>3
      <4> QED BY <4>1
    <3>4. CASE filled[b] = <<s>>
      <4>1. Len(filled[b]) = 1
        BY <3>4
      <4> QED BY <4>1
    <3> QED BY <3>1, <3>3, <3>4
  <2>3. CASE giveup > 0
    <3>1. next >= NBlocks
      BY <1>4, <2>1, <2>3 DEF QueueInv, QueueOf
    <3>2. ASSUME NEW b \in Blocks PROVE b \in Placed /\ Written(b)
      <4>1. b <= next
        BY <1>1, <1>5, <3>1 DEF JobInv
      <4>2. /\ bstarts[b] = Unset => \E w \in Team : pc[w] \in Holding /\ block[w] = b
            /\ bstarts[b] # Unset => /\ b \in Placed
                                     /\ Written(b) \/ \E w \in Team : pc[w] = "copy" /\ took[w][1] = b
        BY <2>1, <2>3, <4>1 DEF QueueInv, QueueKept
      <4>3. \A w \in Team : pc[w] \notin Holding /\ pc[w] # "copy"
        BY DEF Holding
      <4> QED BY <4>2, <4>3
    <3>3. Placed = Blocks
      BY <3>2 DEF Placed
    <3>4. \A b \in Blocks : filled[b] = <<bstarts[b]>> /\ Len(filled[b]) = 1
      BY <2>1, <3>2 DEF QueueInv, QueueBlocks
    <3>5. Sound = Blocks
      <4>1. \A b \in Blocks : CBytes(b) > 0
        BY <3>2 DEF Placed
      <4>2. \A b \in Blocks : Gives(b) > 0
        BY <1>3, <2>1, <4>1, BlockBytes
      <4> QED BY <4>2 DEF Sound
    <3>6. /\ Collected = out /\ out = Base(FALSE) + Sum(Blocks)
          /\ Tiling(bstarts, Given, Blocks, Base(FALSE), out)
      BY <1>7, <2>1, <2>3, <3>3 DEF QueueInv, QueueRoom
    <3>7. Base(FALSE) = Header + NBlocks
      BY <2>1 DEF Base
    <3>8. Sum(Blocks) \in Nat
      <4>1. \A b \in Blocks : Gives(b) > 0
        BY <3>5 DEF Sound
      <4>2. Sum({}) <= Sum(Blocks) /\ Sum({}) = 0 /\ Sum(Blocks) \in Int
        BY <1>3, <4>1, SumLaws
      <4> QED BY <4>2
    <3>9. Collected = Total /\ Collected > 0 /\ Collected \in Int
      <4> DEFINE s == Sum(Blocks)
      <4>1. Total = s + Header + NBlocks /\ Collected = (Header + NBlocks) + s /\ s \in Nat
        BY <3>5, <3>6, <3>7, <3>8 DEF Total
      <4> HIDE DEF s
      <4> QED BY <1>5, <4>1
    <3>10. ~(Collected < 0) /\ Collected # 0
      BY <3>9
    <3>11. Tiling(bstarts, Given, Blocks, Base(FALSE), Collected)
      BY <3>6
    <3> QED BY <2>1, <2>2, <3>4, <3>5, <3>9, <3>10, <3>11 DEF Outcome
  <2>4. CASE giveup <= 0
    <3>1. ~(giveup > 0)
      BY <1>3, <2>4
    <3> QED BY <1>0, <1>3, <1>6, <2>2, <2>4, <3>1 DEF Outcome
  <2> QED BY <1>3, <2>3, <2>4
<1> QED BY <1>8, <1>9

\* Coming to the second barrier: whoever is the last ends the job.
LEMMA DepartStep ==
  ASSUME IInv, DataInv, IInv', NEW p \in Procs,
         \/ p = Caller /\ AwaitFinish
         \/ p \in Workers /\ WaitFinish(p)
  PROVE  DataInv'
<1> USE DEF poolVars, jobVars, sharedVars, callerVars
<1> DEFINE then == IF p = Caller THEN "collect" ELSE "init"
<1>1. /\ TypeOK /\ FitInv /\ TeamInv /\ JobInv /\ Procs = {Caller} \cup Workers /\ Caller \notin Workers
      /\ TeamInv' /\ FitInv'
  BY DEF IInv, DataInv, Procs, Workers, Caller
<1>2. /\ UNCHANGED <<job, memcpyed, ncalls, ans, giveup, next, out, bstarts, filled, onto, tid, started,
                    nthreads>>
      /\ Arrive(p, "finish", then) /\ asleep[p] = "no" /\ pc[p] = "finish"
  BY <1>1 DEF AwaitFinish, WaitFinish, At
<1>3. Working
  BY <1>1, <1>2 DEF TeamInv, Gathering, Working, Ending, InJob
<1>4. \A q \in Procs : asleep[q] \in {"no", "finish"}
  BY <1>3, Positions
<1>5. pc'[p] = then /\ \A q \in Procs : q # p => pc'[q] = pc[q]
  BY <1>2 DEF Arrive, Goto, IInv, TypeOK
<1>6. /\ \A q \in Procs : asleep'[q] \in {"no", "finish"}
  BY <1>2, <1>4 DEF Arrive, IInv, TypeOK
<1>7. Caller \in Procs /\ pc[Caller] \in {"finish", "collect"} /\ pc'[Caller] \in {"finish", "collect"}
  BY <1>1, <1>3, <1>5 DEF Working
<1>8. /\ ~Fresh /\ ~Fresh' /\ ~Ready /\ ~Ready' /\ ~Entering /\ ~Entering' /\ Served' = Served /\ ~Done'
      /\ pc'[Caller] # "answer" /\ Team = 1 .. started /\ Team' = Team
  BY <1>2, <1>3, <1>6, <1>7 DEF Fresh, Ready, Entering, Served, Done, Checks, Working, Team, Ending
<1>9. /\ UNCHANGED <<NBlocks, Blocks, Compressing, DestSize, Given, Sound, Total, MustCopy, StaticEnd, Static>>
      /\ \A b : Gives(b)' = Gives(b) /\ CBytes(b)' = CBytes(b)
      /\ \A copying : Base(copying)' = Base(copying)
      /\ \A S : Sum(S)' = Sum(S)
      /\ \A w : Share(w)' = Share(w) /\ Mine(w)' = Mine(w)
      /\ \A a : Outcome(a)' = Outcome(a)
  BY <1>2, SameDocument, SameJob, SameOutcome
<1>10. /\ block' \in [Workers -> Int] /\ limit' \in [Workers -> Int] /\ took' \in [Workers -> Int \X Int]
       /\ \A w \in Workers : w # p => block'[w] = block[w] /\ limit'[w] = limit[w] /\ took'[w] = took[w]
  <2>1. block \in [Workers -> Int] /\ limit \in [Workers -> Int] /\ took \in [Workers -> Int \X Int]
    BY <1>1 DEF JobInv
  <2>2. CASE p = Caller
    <3>1. UNCHANGED <<block, limit, took>>
      BY <1>1, <2>2 DEF AwaitFinish, workerVars
    <3> QED BY <2>1, <3>1
  <2>3. CASE p \in Workers
    <3>1. /\ block' = [block EXCEPT ![p] = 0] /\ limit' = [limit EXCEPT ![p] = 0]
          /\ took' = [took EXCEPT ![p] = <<0, 0>>]
      BY <1>1, <2>3 DEF WaitFinish
    <3> DEFINE zero == <<0, 0>>
    <3>2. zero \in Int \X Int /\ 0 \in Int
      OBVIOUS
    <3>3. took' = [took EXCEPT ![p] = zero]
      BY <3>1
    <3> HIDE DEF zero
    <3>4. block' \in [Workers -> Int]
      BY <2>1, <3>1, <3>2
    <3>5. limit' \in [Workers -> Int]
      BY <2>1, <3>1, <3>2
    <3>6. took' \in [Workers -> Int \X Int]
      BY <2>1, <3>2, <3>3
    <3> QED BY <2>1, <3>1, <3>3, <3>4, <3>5, <3>6
  <2> QED BY <1>1, <2>2, <2>3
<1>11. JobInv'
  BY <1>1, <1>2, <1>7, <1>8, <1>9, <1>10 DEF JobInv, Jobs
<1>12. CASE Working'
  <2>1. ~Over'
    BY <1>12 DEF Over, Working
  <2>2. GiveupInv'
    BY <1>2, <1>3, <1>9 DEF DataInv, GiveupInv
  <2>3. \A w \in Team : w \in Workers /\ w \in Procs /\ w # Caller
    BY <1>1, Positions
  <2>4. \A w \in Team : pc'[w] = pc[w] \/ (w = p /\ pc[w] = "finish" /\ pc'[w] = "init")
    BY <1>2, <1>5, <2>3
  <2>5. ASSUME Static PROVE StaticInv'
    <3>1. StaticInv
      BY <1>3, <2>5 DEF DataInv
    <3>2. \A b \in Blocks' : Len(filled'[b]) <= 1 /\ (Written(b)' => CBytes(b)' > 0)
      BY <1>2, <1>9, <3>1 DEF StaticInv, Written
    <3>3. ASSUME NEW w \in Team PROVE StaticOf(w)'
      <4>1. StaticOf(w)
        BY <3>1, <3>3 DEF StaticInv
      <4>2. CASE w # p
        <5>1. pc'[w] = pc[w] /\ block'[w] = block[w] /\ limit'[w] = limit[w]
          BY <1>10, <2>3, <2>4, <3>3, <4>2
        <5> QED BY <1>2, <1>9, <4>1, <5>1 DEF StaticOf, Written
      <4>3. CASE w = p
        <5>1. pc[w] = "finish" /\ pc'[w] = "init"
          BY <1>2, <1>5, <2>3, <3>3, <4>3
        <5> QED BY <1>2, <1>9, <4>1, <5>1 DEF StaticOf, Written
      <4> QED BY <4>2, <4>3
    <3> QED BY <1>8, <3>2, <3>3 DEF StaticInv
  <2>6. ASSUME ~Static PROVE QueueInv'
    <3>1. QueueInv
      BY <1>3, <2>6 DEF DataInv
    <3>2. Placed' = Placed
      BY <1>2, <1>9 DEF Placed
    <3>3. QueueRoom'
      <4> DEFINE base == Base(FALSE)
                 sum == Sum(Placed)
      <4>1. base' = base /\ sum' = sum
        BY <1>9, <3>2 DEF Sum
      <4>2. /\ next >= -1 /\ out <= DestSize /\ out = base + sum
            /\ Tiling(bstarts, Given, Placed, base, out)
        BY <3>1 DEF QueueInv, QueueRoom
      <4> HIDE DEF base, sum
      <4>3. /\ next' >= -1 /\ out' <= DestSize' /\ out' = base' + sum'
            /\ Tiling(bstarts, Given, Placed, base, out)'
        BY <1>2, <1>9, <3>2, <4>1, <4>2 DEF Tiling
      <4> QED BY <4>3 DEF QueueRoom, base, sum
    <3>4. QueueBlocks'
      BY <1>2, <1>9, <3>1 DEF QueueInv, QueueBlocks, Written
    <3>5. ASSUME NEW w \in Team PROVE QueueOf(w)'
      <4>1. QueueOf(w)
        BY <3>1, <3>5 DEF QueueInv
      <4>2. CASE w # p
        <5>1. pc'[w] = pc[w] /\ block'[w] = block[w] /\ limit'[w] = limit[w] /\ took'[w] = took[w]
          BY <1>10, <2>3, <2>4, <3>5, <4>2
        <5> QED BY <1>2, <1>9, <3>2, <4>1, <5>1 DEF QueueOf, Written
      <4>3. CASE w = p
        <5>1. pc[w] = "finish" /\ pc'[w] = "init"
          BY <1>2, <1>5, <2>3, <3>5, <4>3
        <5> QED BY <1>2, <1>9, <4>1, <5>1 DEF QueueOf, Holding
      <4> QED BY <4>2, <4>3
    <3>6. \A w \in Team : /\ pc'[w] \in Holding => pc[w] \in Holding /\ pc'[w] = pc[w] /\ w # p
                          /\ pc[w] \in Holding => pc'[w] = pc[w] /\ w # p
      BY <1>2, <2>4 DEF Holding
    <3>7. \A w \in Team : pc[w] \in Holding => block'[w] = block[w] /\ took'[w] = took[w]
      BY <1>10, <2>3, <3>6
    <3>8. QueueApart'
      BY <1>8, <3>1, <3>6, <3>7 DEF QueueInv, QueueApart, Holding
    <3>9. QueueKept'
      <4> SUFFICES ASSUME giveup > 0, NEW b \in Blocks
                   PROVE  /\ b <= next /\ bstarts[b] = Unset => \E w \in Team : pc'[w] \in Holding /\ block'[w] = b
                          /\ bstarts[b] # Unset =>
                               /\ b \in Placed
                               /\ Written(b) \/ \E w \in Team : pc'[w] = "copy" /\ took'[w][1] = b
        BY <1>2, <1>8, <1>9, <3>2 DEF QueueKept, Written
      <4>1. /\ b <= next /\ bstarts[b] = Unset => \E w \in Team : pc[w] \in Holding /\ block[w] = b
            /\ bstarts[b] # Unset => /\ b \in Placed
                                     /\ Written(b) \/ \E w \in Team : pc[w] = "copy" /\ took[w][1] = b
        BY <3>1 DEF QueueInv, QueueKept
      <4>2. \A w \in Team : pc[w] = "copy" => pc[w] \in Holding
        BY DEF Holding
      <4> QED BY <3>6, <3>7, <4>1, <4>2
    <3> QED BY <1>8, <3>3, <3>4, <3>5, <3>8, <3>9 DEF QueueInv
  <2> QED BY <1>8, <1>9, <1>11, <2>1, <2>2, <2>5, <2>6 DEF DataInv
<1>13. CASE ~Working'
  <2>1. pc'[Caller] = "collect" /\ asleep'[Caller] = "no" /\ Gathering'
    BY <1>1, <1>6, <1>7, <1>13 DEF Working, Gathering, Ending, TeamInv
  <2>2. \A w \in Team : pc[w] \in {"finish", "init"}
    <3> TAKE w \in Team
    <3>1. w \in Workers /\ w \in Procs /\ w # Caller
      BY <1>1, Positions
    <3>2. pc'[w] \in {"init", "woken"} /\ (pc'[w] = "woken" => asleep'[w] = "init")
      BY <1>1, <1>8, <2>1, <3>1 DEF TeamInv
    <3>3. pc'[w] = "init"
      BY <1>6, <3>1, <3>2
    <3> QED BY <1>2, <1>5, <3>1, <3>3
  <2>3. Outcome(Collected)
    BY <1>3, <2>2, JobEnds
  <2>4. Collected' = Collected
    BY <1>2 DEF Collected
  <2>5. Outcome(Collected)'
    BY <1>9, <2>3, <2>4
  <2> QED BY <1>8, <1>11, <1>13, <2>5 DEF DataInv
<1> QED BY <1>12, <1>13

-----------------------------------------------------------------------------
(* The steps of a thread *)

\* A thread that sees the end of the pool touches no document.
LEMMA LeaveStep ==
  ASSUME IInv, DataInv, NEW w \in Workers, Leave(w)
  PROVE  DataInv'
<1> USE DEF At, Goto, poolVars, syncVars, jobVars, sharedVars, workerVars, callerVars
<1>1. /\ TypeOK /\ FitInv /\ JobInv /\ w \in Procs /\ w # Caller /\ Caller \in Procs
  BY DEF IInv, DataInv, Procs, Workers, Caller
<1>2. /\ UNCHANGED <<job, memcpyed, ncalls, ans, giveup, next, out, bstarts, filled, block, limit, took, onto,
                    asleep>>
      /\ end_threads /\ pc'[Caller] = pc[Caller]
  BY <1>1 DEF Leave, TypeOK
<1>3. pc[Caller] = "join"
  BY <1>1, <1>2 DEF FitInv
<1>4. /\ ~Working' /\ ~Over' /\ ~Done' /\ pc'[Caller] # "answer"
      /\ Fresh' = Fresh /\ Served' = Served /\ Ready' = Ready /\ ~Entering /\ ~Entering'
  BY <1>2, <1>3 DEF Working, Over, Done, Fresh, Served, Ready, Entering
<1>5. /\ UNCHANGED <<Blocks, Compressing, MustCopy>>
      /\ \A copying : Base(copying)' = Base(copying)
  BY <1>2, SameDocument
<1>6. JobInv'
  BY <1>1, <1>2, <1>3, <1>4, <1>5 DEF JobInv, Jobs, Base
<1> QED BY <1>4, <1>6, Elsewhere

\* The steps in a job.
JobStep(w) ==
  \/ TakeShare(w) \/ TakeNext(w) \/ Loop(w) \/ Code(w) \/ Fail(w) \/ Publish(w) \/ Copy(w) \/ EndStatic(w)

\* Where they find the caller, the others and the document.
LEMMA InsideJob ==
  ASSUME IInv, DataInv, NEW w \in Workers, JobStep(w)
  PROVE  /\ Working /\ Working' /\ w \in Team /\ w \in Procs /\ Team' = Team /\ Team \subseteq Workers
         /\ Team = 1 .. nthreads
         /\ \A v \in Team : v # w => pc'[v] = pc[v]
         /\ pc \in [Procs -> CallerLabels \cup WorkerLabels] /\ Team \subseteq Procs
         /\ UNCHANGED <<job, memcpyed, ncalls, ans, nthreads, pc[Caller], asleep>>
         /\ job \in Jobs /\ memcpyed \in BOOLEAN /\ (memcpyed => Compressing)
         /\ filled \in [Blocks -> Seq(Int)] /\ bstarts \in [Blocks -> Int]
         /\ next \in Int /\ out \in Int /\ giveup \in Int
         /\ block \in [Workers -> Int] /\ limit \in [Workers -> Int] /\ took \in [Workers -> Int \X Int]
         /\ GiveupInv /\ (Static => StaticInv) /\ (~Static => QueueInv)
<1> USE DEF JobStep, At, Goto, poolVars, syncVars, jobVars, sharedVars, workerVars, callerVars
<1>1. /\ TypeOK /\ FitInv /\ TeamInv /\ JobInv /\ Procs = {Caller} \cup Workers /\ Caller \notin Workers
      /\ Caller \in Procs
  BY DEF IInv, DataInv, Procs, Workers, Caller
<1>2. /\ UNCHANGED <<job, memcpyed, ncalls, ans, asleep, nthreads, started, tid>> /\ asleep[w] = "no"
      /\ pc[w] \in InJob \/ (pc[w] = "woken" /\ ~end_threads)
  BY DEF TakeShare, TakeNext, Loop, Code, Fail, Publish, Copy, EndStatic, InJob
<1>3. WorkerStep(w)
  BY DEF WorkerStep
<1>4. \A q \in Procs : q # w => pc'[q] = pc[q]
  BY <1>1, <1>3, WorkerMoves DEF TypeOK
<1>5. pc[w] \notin {"none", "init"}
  BY <1>2 DEF InJob
<1>6. Working /\ w \in Team
  BY <1>1, <1>2, <1>5 DEF TeamInv, FitInv, Gathering, Ending, Working, InJob
<1>7. pc'[Caller] = pc[Caller]
  BY <1>1, <1>4
<1>8. Working' /\ Team' = Team /\ Team = 1 .. started
  BY <1>2, <1>6, <1>7 DEF Working, Team, Ending
<1>9. Team \subseteq Workers /\ Team = 1 .. nthreads
  BY <1>1, <1>6, <1>8, Positions DEF FitInv, Working
<1>10. ncalls > 0 /\ Served
  BY <1>1, <1>6 DEF JobInv, Served, Working, Fresh, Checks
<1>11. GiveupInv /\ (Static => StaticInv) /\ (~Static => QueueInv)
  BY <1>6 DEF DataInv
<1> QED BY <1>1, <1>2, <1>4, <1>6, <1>7, <1>8, <1>9, <1>10, <1>11 DEF JobInv, TypeOK

\* What there is to show of them.
LEMMA InsideData ==
  ASSUME IInv, DataInv, NEW w \in Workers, JobStep(w),
         filled' \in [Blocks -> Seq(Int)], bstarts' \in [Blocks -> Int],
         next' \in Int, out' \in Int, giveup' \in Int, block' \in [Workers -> Int],
         limit' \in [Workers -> Int], took' \in [Workers -> Int \X Int],
         GiveupInv', Static => StaticInv', ~Static => QueueInv'
  PROVE  DataInv'
<1>1. /\ Working /\ Working' /\ UNCHANGED <<job, memcpyed, ncalls, ans, pc[Caller], asleep>>
      /\ job \in Jobs /\ memcpyed \in BOOLEAN
  BY InsideJob
<1>2. /\ pc'[Caller] \in {"finish", "collect"} /\ ~Over' /\ ~Done' /\ ~Fresh' /\ ~Ready' /\ ~Entering' /\ ~Fresh
  BY <1>1 DEF Working, Over, Done, Fresh, Ready, Entering, Checks
<1>3. /\ UNCHANGED <<Blocks, Compressing, MustCopy, Static>>
  BY <1>1, SameDocument, SameJob
<1>4. JobInv /\ ncalls > 0 /\ Served
  BY <1>1, <1>2 DEF DataInv, JobInv, Working, Served
<1>5. ncalls \in Nat /\ (memcpyed => Compressing /\ (job.size < MinBuffer \/ MustCopy))
  BY <1>4 DEF JobInv
<1>6. /\ ncalls' \in Nat /\ ncalls' > 0 /\ job' \in Jobs' /\ memcpyed' \in BOOLEAN
      /\ memcpyed' => Compressing' /\ (job'.size < MinBuffer \/ MustCopy')
      /\ filled' \in [Blocks' -> Seq(Int)] /\ bstarts' \in [Blocks' -> Int]
  BY <1>1, <1>3, <1>4, <1>5 DEF Jobs
<1>7. JobInv'
  BY <1>2, <1>6 DEF JobInv
<1> QED BY <1>2, <1>3, <1>7 DEF DataInv

-----------------------------------------------------------------------------
(* The blocks handed out beforehand *)

\* A step in a job that touches only the share of its thread.
LEMMA StaticElsewhere ==
  ASSUME IInv, DataInv, NEW w \in Workers, JobStep(w), Static,
         \A v \in Workers : v # w => block'[v] = block[v] /\ limit'[v] = limit[v],
         \A v \in Team : v # w => \A b \in Mine(v) : filled'[b] = filled[b],
         giveup' = giveup \/ giveup' <= 0, giveup' \in Int, out' = out \/ out' = StaticEnd
  PROVE  \A v \in Team : v # w => StaticOf(v)'
<1> SUFFICES ASSUME NEW v \in Team, v # w PROVE StaticOf(v)'
  OBVIOUS
<1>1. /\ UNCHANGED <<job, memcpyed, nthreads>> /\ pc'[v] = pc[v] /\ StaticInv /\ v \in Workers
      /\ giveup \in Int
  BY InsideJob
<1>2. /\ UNCHANGED StaticEnd
      /\ \A b : CBytes(b)' = CBytes(b)
      /\ \A x : Share(x)' = Share(x) /\ Mine(x)' = Mine(x)
  BY <1>1, SameDocument, SameJob
<1>3. StaticOf(v) /\ block'[v] = block[v] /\ limit'[v] = limit[v] /\ \A b \in Mine(v) : Written(b)' = Written(b)
  BY <1>1 DEF StaticInv, Written
<1>4. giveup' > 0 => giveup > 0
  BY <1>1
<1> QED BY <1>1, <1>2, <1>3, <1>4 DEF StaticOf

\* No two threads share a block.
LEMMA SharesApart ==
  ASSUME IInv, job \in Jobs, NEW v \in Team, NEW w \in Team, v # w, NEW b \in Mine(w)
  PROVE  b \notin Mine(v)
<1>1. /\ Mine(w) \subseteq Blocks /\ Share(w)[1] \in Nat /\ Share(w)[2] \in 0 .. NBlocks
      /\ Share(v)[1] \in Nat /\ Share(v)[2] \in 0 .. NBlocks
      /\ NBlocks \in Nat
  BY OwnShare, JobShape
<1>2. v \in 1 .. nthreads /\ w \in 1 .. nthreads /\ nthreads \in Nat \ {0}
  BY Positions, BloscAssumption DEF IInv, TypeOK
<1>3. b \in Blocks /\ Share(w)[1] <= b /\ b < Share(w)[2]
  BY <1>1 DEF Mine
<1>4. b \in Mine(v) => Share(v)[1] <= b /\ b < Share(v)[2]
  BY <1>1, <1>3 DEF Mine
<1> QED BY <1>2, <1>3, <1>4, Shares

\* Taking a block, failing and coming to the end of a share.
LEMMA StaticMoves ==
  ASSUME IInv, DataInv, NEW w \in Workers, JobStep(w), Static, ~Code(w)
  PROVE  DataInv'
<1> USE DEF At, Goto, poolVars, syncVars, jobVars, sharedVars, workerVars, callerVars
<1>1. /\ w \in Team /\ w \in Procs /\ Team' = Team /\ Team \subseteq Workers
      /\ pc \in [Procs -> CallerLabels \cup WorkerLabels]
      /\ UNCHANGED <<job, memcpyed, nthreads>>
      /\ job \in Jobs /\ memcpyed \in BOOLEAN /\ (memcpyed => Compressing)
      /\ filled \in [Blocks -> Seq(Int)] /\ bstarts \in [Blocks -> Int]
      /\ next \in Int /\ out \in Int /\ giveup \in Int
      /\ block \in [Workers -> Int] /\ limit \in [Workers -> Int] /\ took \in [Workers -> Int \X Int]
      /\ GiveupInv /\ StaticInv
  BY InsideJob
<1>2. /\ UNCHANGED <<Blocks, Compressing, MustCopy, StaticEnd, Static>>
      /\ \A b : CBytes(b)' = CBytes(b)
      /\ \A x : Share(x)' = Share(x) /\ Mine(x)' = Mine(x)
  BY <1>1, SameDocument, SameJob
<1>3. StaticOf(w) /\ LoopEnd = "end"
  BY <1>1 DEF StaticInv, LoopEnd
<1>4. Mine(w) \subseteq Blocks /\ Share(w)[1] \in Nat /\ Share(w)[2] \in Nat /\ StaticEnd \in Int
  <2>1. StaticEnd \in Int
    BY <1>1, JobShape, BloscAssumption DEF StaticEnd
  <2> QED BY <1>1, <2>1, OwnShare, JobShape
<1>5. TakeShare(w) \/ Loop(w) \/ Fail(w) \/ EndStatic(w)
  BY <1>3 DEF JobStep, TakeNext, Publish, Copy, StaticOf
<1>6. UNCHANGED <<filled, bstarts, next, took>>
  BY <1>5 DEF TakeShare, Loop, Fail, EndStatic
<1>7. ASSUME giveup' \in Int, out' = out \/ out' = StaticEnd, giveup' = giveup \/ giveup' <= 0, GiveupInv',
             StaticOf(w)', block' \in [Workers -> Int], limit' \in [Workers -> Int],
             \A v \in Workers : v # w => block'[v] = block[v] /\ limit'[v] = limit[v]
      PROVE  DataInv'
  <2>1. \A v \in Team : v # w => StaticOf(v)'
    BY <1>6, <1>7, StaticElsewhere
  <2>2. \A b \in Blocks' : Len(filled'[b]) <= 1 /\ (Written(b)' => CBytes(b)' > 0)
    BY <1>1, <1>2, <1>6 DEF StaticInv, Written
  <2>3. StaticInv'
    BY <1>1, <1>7, <2>1, <2>2 DEF StaticInv
  <2>4. out' \in Int
    BY <1>1, <1>4, <1>7
  <2> QED BY <1>1, <1>6, <1>7, <2>3, <2>4, InsideData
<1>8. CASE TakeShare(w)
  <2>1. /\ pc[w] = "woken" /\ pc'[w] = "loop" /\ UNCHANGED <<giveup, out>>
        /\ block' = [block EXCEPT ![w] = Share(w)[1]] /\ limit' = [limit EXCEPT ![w] = Share(w)[2]]
    BY <1>1, <1>8 DEF TakeShare
  <2>2. /\ block'[w] = Share(w)[1] /\ limit'[w] = Share(w)[2]
        /\ block' \in [Workers -> Int] /\ limit' \in [Workers -> Int]
        /\ \A v \in Workers : v # w => block'[v] = block[v] /\ limit'[v] = limit[v]
    BY <1>1, <1>4, <2>1
  <2>3. \A b \in Mine(w) : ~Written(b)' /\ ~(b < block'[w])
    BY <1>3, <1>4, <1>6, <2>1, <2>2 DEF StaticOf, Written, Mine
  <2>4. StaticOf(w)'
    BY <1>2, <1>4, <2>1, <2>2, <2>3 DEF StaticOf
  <2>5. GiveupInv'
    BY <1>1, <1>2, <2>1 DEF GiveupInv
  <2> QED BY <1>1, <1>7, <2>1, <2>2, <2>4, <2>5
<1>9. CASE Loop(w)
  <2>1. /\ pc[w] = "loop" /\ UNCHANGED <<giveup, out, block, limit>>
        /\ pc'[w] = IF block[w] < limit[w] /\ giveup > 0 THEN "code" ELSE "end"
    BY <1>1, <1>3, <1>9 DEF Loop
  <2>2. /\ block[w] >= Share(w)[1] /\ limit[w] = Share(w)[2]
        /\ \A b \in Mine(w) : b >= block[w] => ~Written(b)
        /\ giveup > 0 => \A b \in Mine(w) : b < block[w] => Written(b)
    BY <1>3, <2>1 DEF StaticOf
  <2>3. \A b : Written(b)' = Written(b)
    BY <1>6 DEF Written
  <2>4. StaticOf(w)'
    <3>1. CASE block[w] < limit[w] /\ giveup > 0
      <4>1. pc'[w] = "code"
        BY <2>1, <3>1
      <4> QED BY <1>2, <2>1, <2>2, <2>3, <3>1, <4>1 DEF StaticOf
    <3>2. CASE ~(block[w] < limit[w] /\ giveup > 0)
      <4>1. pc'[w] = "end"
        BY <2>1, <3>2
      <4>2. ASSUME giveup > 0, NEW b \in Mine(w) PROVE Written(b)
        <5>1. b < limit[w] /\ ~(block[w] < limit[w]) /\ b \in Int /\ block[w] \in Int /\ limit[w] \in Int
          BY <1>1, <1>4, <2>2, <3>2, <4>2 DEF Mine
        <5>2. b < block[w]
          BY <5>1
        <5> QED BY <2>2, <4>2, <5>2
      <4> QED BY <1>2, <2>1, <2>3, <4>1, <4>2 DEF StaticOf
    <3> QED BY <3>1, <3>2
  <2>5. GiveupInv'
    BY <1>1, <1>2, <2>1 DEF GiveupInv
  <2> QED BY <1>1, <1>7, <2>1, <2>4, <2>5
<1>10. CASE Fail(w)
  <2>1. /\ pc[w] = "fail" /\ UNCHANGED <<out, block, limit>> /\ giveup' = CBytes(block[w]) /\ pc'[w] = "end"
    BY <1>1, <1>3, <1>10 DEF Fail
  <2>2. /\ CBytes(block[w]) < 0 /\ block[w] >= Share(w)[1] /\ block[w] < Share(w)[2]
    BY <1>3, <2>1 DEF StaticOf
  <2>3. block[w] \in Blocks
    BY <1>1, <1>4, <2>2 DEF Mine
  <2>4. giveup' \in Int /\ giveup' < 0 /\ giveup' <= 0 /\ ~(giveup' > 0)
    <3>1. CBytes(block[w]) \in Int
      BY <1>1, <2>3, BlockBytes
    <3> DEFINE c == CBytes(block[w])
    <3>2. c \in Int /\ c < 0 /\ giveup' = c
      BY <2>1, <2>2, <3>1
    <3> HIDE DEF c
    <3> QED BY <3>2
  <2>5. GiveupInv'
    BY <1>2, <2>1, <2>3, <2>4 DEF GiveupInv
  <2>6. StaticOf(w)'
    BY <2>1, <2>4 DEF StaticOf
  <2> QED BY <1>1, <1>7, <2>1, <2>4, <2>5, <2>6
<1>11. CASE EndStatic(w)
  <2>1. /\ pc[w] = "end" /\ UNCHANGED <<giveup, block, limit>> /\ out' = StaticEnd /\ pc'[w] = "finish"
    BY <1>1, <1>11 DEF EndStatic, StaticEnd
  <2>2. \A b : Written(b)' = Written(b)
    BY <1>6 DEF Written
  <2>3. StaticOf(w)'
    BY <1>2, <1>3, <2>1, <2>2 DEF StaticOf
  <2>4. GiveupInv'
    BY <1>1, <1>2, <2>1 DEF GiveupInv
  <2> QED BY <1>1, <1>7, <2>1, <2>3, <2>4
<1> QED BY <1>5, <1>8, <1>9, <1>10, <1>11

\* memcpy and blosc_d write each block of a share once.
LEMMA StaticCode ==
  ASSUME IInv, DataInv, NEW w \in Workers, Code(w), Static
  PROVE  DataInv'
<1> USE DEF At, Goto, poolVars, syncVars, jobVars, sharedVars, workerVars, callerVars
<1>0. JobStep(w)
  BY DEF JobStep
<1>1. /\ w \in Team /\ w \in Procs /\ Team' = Team /\ Team \subseteq Workers
      /\ pc \in [Procs -> CallerLabels \cup WorkerLabels]
      /\ UNCHANGED <<job, memcpyed, nthreads>>
      /\ job \in Jobs /\ memcpyed \in BOOLEAN /\ (memcpyed => Compressing)
      /\ filled \in [Blocks -> Seq(Int)] /\ bstarts \in [Blocks -> Int]
      /\ next \in Int /\ out \in Int /\ giveup \in Int
      /\ block \in [Workers -> Int] /\ limit \in [Workers -> Int] /\ took \in [Workers -> Int \X Int]
      /\ GiveupInv /\ StaticInv
  BY <1>0, InsideJob
<1>2. /\ UNCHANGED <<Blocks, Compressing, MustCopy, StaticEnd, Static>>
      /\ \A b : CBytes(b)' = CBytes(b)
      /\ \A x : Share(x)' = Share(x) /\ Mine(x)' = Mine(x)
  BY <1>1, SameDocument, SameJob
<1>3. StaticOf(w) /\ LoopEnd = "end" /\ pc[w] = "code"
  BY <1>1 DEF StaticInv, LoopEnd, Code
<1>block. PICK c : c = block[w]
  OBVIOUS
<1> DEFINE place == (IF Compressing THEN Header ELSE 0) + c * BlockSize
<1>4. Mine(w) \subseteq Blocks /\ Share(w)[1] \in Nat /\ Share(w)[2] \in Nat /\ c \in Int
  BY <1>1, <1>block, OwnShare, JobShape
<1>5. /\ c >= Share(w)[1] /\ limit[w] = Share(w)[2] /\ c < limit[w]
      /\ \A b \in Mine(w) : b >= c => ~Written(b)
      /\ giveup > 0 => \A b \in Mine(w) : b < c => Written(b)
  BY <1>3, <1>block DEF StaticOf
<1>6. c \in Mine(w) /\ c \in Blocks /\ filled[c] = <<>>
  <2>1. c \in Mine(w)
    BY <1>4, <1>5 DEF Mine
  <2> QED BY <1>4, <1>5, <2>1 DEF Written
<1>7. /\ UNCHANGED <<giveup, next, out, bstarts, limit, took>>
      /\ filled' = IF CBytes(c) > 0 THEN [filled EXCEPT ![c] = Append(@, place)] ELSE filled
      /\ pc'[w] = IF giveup <= 0 THEN "end" ELSE IF CBytes(c) < 0 THEN "fail" ELSE "loop"
      /\ block' = IF giveup > 0 /\ CBytes(c) > 0 THEN [block EXCEPT ![w] = @ + 1] ELSE block
  BY <1>1, <1>3, <1>block DEF Code
<1>8. CBytes(c) \in Int /\ CBytes(c) # 0
  <2>1. /\ CBytes(c) \in Int
        /\ CBytes(c) <= 0 => ~(Compressing /\ memcpyed)
        /\ ~Compressing => CBytes(c) # 0
    BY <1>1, <1>6, BlockBytes
  <2> QED BY <1>1, <2>1 DEF Static
<1>9. place \in Int
  <2>1. c * BlockSize \in Nat /\ Header \in Nat
    BY <1>1, <1>6, BlockBytes, BloscAssumption
  <2> QED BY <2>1
<1> HIDE DEF place
<1>10. /\ filled' \in [Blocks -> Seq(Int)]
       /\ \A b \in Blocks : b # c => filled'[b] = filled[b]
       /\ filled'[c] = IF CBytes(c) > 0 THEN <<place>> ELSE <<>>
  <2>1. CASE CBytes(c) > 0
    <3>1. Append(filled[c], place) = <<place>> /\ <<place>> \in Seq(Int)
      BY <1>6, <1>9
    <3>2. filled' = [filled EXCEPT ![c] = <<place>>]
      BY <1>7, <2>1, <3>1
    <3> QED BY <1>1, <1>6, <2>1, <3>1, <3>2
  <2>2. CASE ~(CBytes(c) > 0)
    BY <1>1, <1>6, <1>7, <2>2
  <2> QED BY <2>1, <2>2
<1>11. /\ \A b \in Blocks : b # c => Written(b)' = Written(b)
       /\ Written(c)' <=> CBytes(c) > 0
  BY <1>10 DEF Written
<1>12. \A b \in Blocks' : Len(filled'[b]) <= 1 /\ (Written(b)' => CBytes(b)' > 0)
  <2> SUFFICES ASSUME NEW b \in Blocks PROVE Len(filled'[b]) <= 1 /\ (Written(b)' => CBytes(b) > 0)
    BY <1>2
  <2>1. CASE b # c
    BY <1>1, <1>10, <1>11, <2>1 DEF StaticInv
  <2>2. CASE b = c
    <3>1. Len(filled'[c]) <= 1
      BY <1>10
    <3> QED BY <1>11, <2>2, <3>1
  <2> QED BY <2>1, <2>2
<1>13. /\ block' \in [Workers -> Int] /\ \A v \in Workers : v # w => block'[v] = block[v]
       /\ block'[w] = IF giveup > 0 /\ CBytes(c) > 0 THEN c + 1 ELSE c
  <2>1. CASE giveup > 0 /\ CBytes(c) > 0
    BY <1>1, <1>4, <1>7, <1>block, <2>1
  <2>2. CASE ~(giveup > 0 /\ CBytes(c) > 0)
    BY <1>1, <1>4, <1>7, <1>block, <2>2
  <2> QED BY <2>1, <2>2
<1>14. \A v \in Team : v # w => \A b \in Mine(v) : filled'[b] = filled[b]
  <2> SUFFICES ASSUME NEW v \in Team, v # w, NEW b \in Mine(v) PROVE filled'[b] = filled[b]
    OBVIOUS
  <2>1. b \in Blocks /\ b # c
    BY <1>1, <1>6, OwnShare, SharesApart
  <2> QED BY <1>10, <2>1
<1>15. StaticOf(w)'
  <2>1. CASE giveup <= 0
    <3>1. pc'[w] = "end" /\ ~(giveup' > 0)
      BY <1>1, <1>7, <2>1
    <3> QED BY <3>1 DEF StaticOf
  <2>2. CASE giveup > 0 /\ CBytes(c) < 0
    <3>1. pc'[w] = "fail" /\ block'[w] = c
      BY <1>1, <1>7, <1>8, <1>13, <2>2
    <3>2. \A b \in Mine(w) : Written(b)' = Written(b)
      BY <1>4, <1>6, <1>8, <1>10, <1>11, <2>2 DEF Written
    <3>3. /\ c >= Share(w)[1] /\ limit'[w] = Share(w)[2] /\ c < limit'[w] /\ CBytes(c)' < 0
      BY <1>2, <1>5, <1>7, <2>2
    <3> QED BY <1>2, <1>5, <2>2, <3>1, <3>2, <3>3 DEF StaticOf
  <2>3. CASE giveup > 0 /\ CBytes(c) > 0
    <3>1. pc'[w] = "loop" /\ block'[w] = c + 1
      BY <1>1, <1>7, <1>8, <1>13, <2>3
    <3>2. ASSUME NEW b \in Mine(w)
          PROVE  (b >= c + 1 => ~Written(b)') /\ (b < c + 1 => Written(b)')
      <4>1. b \in Blocks /\ b \in Int
        BY <1>4 DEF Mine
      <4>2. CASE b = c
        BY <1>4, <1>11, <2>3, <4>2
      <4>3. CASE b # c
        BY <1>4, <1>5, <1>11, <2>3, <4>1, <4>3
      <4> QED BY <4>2, <4>3
    <3>3. c + 1 >= Share(w)[1] /\ limit'[w] = Share(w)[2]
      BY <1>4, <1>5, <1>7
    <3> QED BY <1>2, <3>1, <3>2, <3>3 DEF StaticOf
  <2> QED BY <1>1, <1>8, <2>1, <2>2, <2>3
<1>16. \A v \in Team : v # w => StaticOf(v)'
  BY <1>0, <1>1, <1>7, <1>13, <1>14, StaticElsewhere
<1>17. StaticInv'
  BY <1>1, <1>12, <1>15, <1>16 DEF StaticInv
<1>18. GiveupInv'
  BY <1>1, <1>2, <1>7 DEF GiveupInv
<1> QED BY <1>0, <1>1, <1>7, <1>10, <1>13, <1>17, <1>18, InsideData

-----------------------------------------------------------------------------
(* The queue of blocks *)

\* A step that leaves the stream and the table alone.
LEMMA QueueElsewhere ==
  ASSUME IInv, DataInv, NEW w \in Workers, JobStep(w), ~Static,
         UNCHANGED <<out, bstarts, filled, took>>, next' = next \/ next' = next + 1,
         giveup' \in Int, giveup' = giveup \/ giveup' <= 0,
         block' \in [Workers -> Int], limit' \in [Workers -> Int],
         \A v \in Workers : v # w => block'[v] = block[v] /\ limit'[v] = limit[v],
         GiveupInv', QueueOf(w)',
         pc'[w] \in Holding /\ pc[w] \in Holding => block'[w] = block[w],
         pc'[w] \in Holding /\ pc[w] \notin Holding => block'[w] = next',
         next' = next + 1 => pc'[w] \in Holding /\ pc[w] \notin Holding,
         pc'[w] \notin Holding /\ pc[w] \in Holding /\ giveup' > 0 => block[w] \notin Blocks,
         pc'[w] \in Holding /\ pc[w] \notin Holding => next' = next + 1,
         pc[w] # "copy", pc'[w] # "copy"
  PROVE  DataInv'
<1>1. /\ w \in Team /\ w \in Procs /\ Team' = Team /\ Team \subseteq Workers
      /\ \A v \in Team : v # w => pc'[v] = pc[v]
      /\ UNCHANGED <<job, memcpyed, nthreads>>
      /\ job \in Jobs
      /\ filled \in [Blocks -> Seq(Int)] /\ bstarts \in [Blocks -> Int]
      /\ next \in Int /\ out \in Int /\ giveup \in Int
      /\ block \in [Workers -> Int] /\ limit \in [Workers -> Int] /\ took \in [Workers -> Int \X Int]
      /\ QueueInv
  BY InsideJob
<1>2. /\ UNCHANGED <<NBlocks, Blocks, DestSize, Given>>
      /\ \A b : CBytes(b)' = CBytes(b)
      /\ \A copying : Base(copying)' = Base(copying)
      /\ \A b : Written(b)' = Written(b)
  BY <1>1, SameDocument, SameJob DEF Written
<1>3. /\ next' >= -1 /\ next' \in Int /\ next <= next' /\ NBlocks \in Nat
      /\ \A b \in Blocks : b \in Int
  BY <1>1, JobShape DEF QueueInv, QueueRoom, Blocks
<1>4. Placed' = Placed
  BY <1>2 DEF Placed
<1>5. QueueRoom'
  <2> DEFINE base == Base(FALSE)
             sum == Sum(Placed)
  <2>1. base' = base /\ sum' = sum
    BY <1>2, <1>4 DEF Sum
  <2>2. out <= DestSize /\ out = base + sum /\ Tiling(bstarts, Given, Placed, base, out)
    BY <1>1 DEF QueueInv, QueueRoom
  <2> HIDE DEF base, sum
  <2>3. /\ next' >= -1 /\ out' <= DestSize' /\ out' = base' + sum'
        /\ Tiling(bstarts, Given, Placed, base, out)'
    BY <1>2, <1>3, <1>4, <2>1, <2>2 DEF Tiling
  <2> QED BY <2>3 DEF QueueRoom, base, sum
<1>6. QueueBlocks'
  <2>1. \A b \in Blocks : /\ Written(b) => filled[b] = <<bstarts[b]>>
                          /\ b > next => bstarts[b] = Unset /\ ~Written(b)
    BY <1>1 DEF QueueInv, QueueBlocks
  <2>2. \A b \in Blocks : b > next' => b > next
    BY <1>1, <1>3
  <2> QED BY <1>2, <2>1, <2>2 DEF QueueBlocks
<1>7. ASSUME NEW v \in Team, v # w PROVE QueueOf(v)'
  <2>1. /\ QueueOf(v) /\ pc'[v] = pc[v] /\ block'[v] = block[v] /\ limit'[v] = limit[v] /\ block[v] \in Int
    BY <1>1, <1>7 DEF QueueInv
  <2>2. /\ block[v] \in 0 .. next => block[v] \in 0 .. next'
        /\ next >= NBlocks => next' >= NBlocks
        /\ giveup' > 0 => giveup > 0
    <3> DEFINE b == block[v]
               m == next'
    <3>1. b \in Int /\ next \in Int /\ m \in Int /\ next <= m
      BY <1>1, <1>3, <2>1
    <3> HIDE DEF b, m
    <3>2. (b \in 0 .. next => b \in 0 .. m) /\ (next >= NBlocks => m >= NBlocks)
      BY <1>3, <3>1
    <3> USE DEF b, m
    <3>3. giveup' > 0 => giveup > 0
      BY <1>1
    <3> QED BY <3>2, <3>3
  <2> QED BY <1>2, <1>4, <2>1, <2>2 DEF QueueOf
<1>8. \A v \in Team : v # w => /\ pc'[v] = pc[v] /\ block'[v] = block[v]
                               /\ pc[v] \in Holding => block[v] \in 0 .. next
  BY <1>1 DEF QueueInv, QueueOf
<1>apart. /\ \A u, v \in Team : u # v /\ pc[u] \in Holding /\ pc[v] \in Holding => block[u] # block[v]
      /\ \A u, v \in Team : u # v /\ pc[u] = "copy" /\ pc[v] = "copy" => took[u][1] # took[v][1]
  BY <1>1 DEF QueueInv, QueueApart
<1>9. ASSUME NEW v \in Team, v # w, pc'[v] \in Holding, pc'[w] \in Holding
      PROVE  block'[v] # block'[w]
  <2>1. CASE pc[w] \in Holding
    <3>1. block'[v] = block[v] /\ block'[w] = block[w] /\ pc[v] \in Holding
      BY <1>8, <1>9, <2>1
    <3> QED BY <1>1, <1>9, <1>apart, <2>1, <3>1
  <2>2. CASE pc[w] \notin Holding
    <3>1. block'[w] = next + 1 /\ block'[v] \in 0 .. next
      BY <1>8, <1>9, <2>2
    <3> QED BY <1>1, <3>1
  <2> QED BY <2>1, <2>2
<1>10. QueueApart'
  <2>1. \A u, v \in Team : u # v /\ pc'[u] \in Holding /\ pc'[v] \in Holding => block'[u] # block'[v]
    <3> SUFFICES ASSUME NEW u \in Team, NEW v \in Team, u # v, pc'[u] \in Holding, pc'[v] \in Holding
                 PROVE  block'[u] # block'[v]
      OBVIOUS
    <3>1. CASE u # w /\ v # w
      <4>1. block'[u] = block[u] /\ block'[v] = block[v] /\ pc[u] \in Holding /\ pc[v] \in Holding
        BY <1>8, <3>1
      <4> QED BY <1>apart, <4>1
    <3>2. CASE u = w \/ v = w
      BY <1>9, <3>2
    <3> QED BY <3>1, <3>2
  <2>2. \A u, v \in Team : u # v /\ pc'[u] = "copy" /\ pc'[v] = "copy" => took'[u][1] # took'[v][1]
    <3> SUFFICES ASSUME NEW u \in Team, NEW v \in Team, u # v, pc'[u] = "copy", pc'[v] = "copy"
                 PROVE  took[u][1] # took[v][1]
      OBVIOUS
    <3>1. u # w /\ v # w /\ pc[u] = "copy" /\ pc[v] = "copy"
      BY <1>8
    <3> QED BY <1>apart, <3>1
  <2> QED BY <1>1, <2>1, <2>2 DEF QueueApart
<1>11. QueueKept'
  <2> SUFFICES ASSUME giveup' > 0, NEW b \in Blocks
               PROVE  /\ b <= next' /\ bstarts[b] = Unset => \E v \in Team : pc'[v] \in Holding /\ block'[v] = b
                      /\ bstarts[b] # Unset =>
                           /\ b \in Placed
                           /\ Written(b) \/ \E v \in Team : pc'[v] = "copy" /\ took[v][1] = b
    BY <1>1, <1>2, <1>4 DEF QueueKept
  <2>1. giveup > 0
    BY <1>1
  <2>2. /\ b <= next /\ bstarts[b] = Unset => \E v \in Team : pc[v] \in Holding /\ block[v] = b
        /\ bstarts[b] # Unset => /\ b \in Placed
                                 /\ Written(b) \/ \E v \in Team : pc[v] = "copy" /\ took[v][1] = b
    BY <1>1, <2>1 DEF QueueInv, QueueKept
  <2>3. ASSUME b <= next', bstarts[b] = Unset
        PROVE  \E v \in Team : pc'[v] \in Holding /\ block'[v] = b
    <3>1. CASE b <= next
      <4>1. PICK v \in Team : pc[v] \in Holding /\ block[v] = b
        BY <2>2, <2>3, <3>1
      <4>2. CASE v # w
        BY <1>8, <4>1, <4>2
      <4>3. CASE v = w
        BY <4>1, <4>3
      <4> QED BY <4>2, <4>3
    <3>2. CASE ~(b <= next)
      <4>1. next' = next + 1 /\ b = next'
        BY <1>1, <1>3, <2>3, <3>2
      <4> QED BY <1>1, <4>1
    <3> QED BY <3>1, <3>2
  <2>4. ASSUME bstarts[b] # Unset
        PROVE  /\ b \in Placed
               /\ Written(b) \/ \E v \in Team : pc'[v] = "copy" /\ took[v][1] = b
    BY <1>8, <2>2, <2>4
  <2> QED BY <2>3, <2>4
<1>12. QueueInv'
  BY <1>1, <1>5, <1>6, <1>7, <1>10, <1>11 DEF QueueInv
<1> QED BY <1>1, <1>3, <1>12, InsideData

\* Taking, compressing and giving up leave the stream alone.
LEMMA QueueMoves ==
  ASSUME IInv, DataInv, NEW w \in Workers, JobStep(w), ~Static, ~Publish(w), ~Copy(w)
  PROVE  DataInv'
<1> USE DEF At, Goto, poolVars, syncVars, jobVars, sharedVars, workerVars, callerVars
<1>1. /\ w \in Team /\ w \in Procs /\ Team' = Team /\ Team \subseteq Workers
      /\ pc \in [Procs -> CallerLabels \cup WorkerLabels]
      /\ UNCHANGED <<job, memcpyed, nthreads>>
      /\ job \in Jobs
      /\ next \in Int /\ out \in Int /\ giveup \in Int
      /\ block \in [Workers -> Int] /\ limit \in [Workers -> Int] /\ took \in [Workers -> Int \X Int]
      /\ GiveupInv /\ QueueInv
  BY InsideJob
<1>2. /\ UNCHANGED <<NBlocks, Blocks, Compressing, MustCopy>> /\ \A b : CBytes(b)' = CBytes(b)
      /\ \A b : Written(b)' = (filled'[b] # <<>>)
  BY <1>1, SameDocument, SameJob DEF Written
<1>3. QueueOf(w) /\ LoopEnd = "finish" /\ next >= -1 /\ NBlocks \in Nat /\ Blocks = 0 .. (NBlocks - 1)
  BY <1>1, JobShape DEF QueueInv, QueueRoom, LoopEnd, Blocks
<1>4. TakeNext(w) \/ Loop(w) \/ Code(w) \/ Fail(w)
  BY <1>3 DEF JobStep, TakeShare, EndStatic, QueueOf
<1>5. UNCHANGED <<out, bstarts, filled, took>>
  BY <1>4 DEF TakeNext, Loop, Code, Fail
<1>6. \A b : Written(b)' = Written(b)
  BY <1>2, <1>5 DEF Written
<1>7. giveup' = giveup => GiveupInv'
  BY <1>1, <1>2 DEF GiveupInv
<1>8. CASE TakeNext(w)
  <2>1. /\ pc[w] = "woken" /\ pc'[w] = "loop" /\ UNCHANGED giveup /\ next' = next + 1
        /\ block' = [block EXCEPT ![w] = next + 1] /\ limit' = [limit EXCEPT ![w] = NBlocks]
    BY <1>1, <1>8 DEF TakeNext
  <2>2. /\ block'[w] = next + 1 /\ limit'[w] = NBlocks
        /\ block' \in [Workers -> Int] /\ limit' \in [Workers -> Int]
        /\ \A v \in Workers : v # w => block'[v] = block[v] /\ limit'[v] = limit[v]
    BY <1>1, <1>3, <2>1
  <2>3. QueueOf(w)'
    <3>1. \A b \in Blocks : b > next => bstarts[b] = Unset /\ ~Written(b)
      BY <1>1 DEF QueueInv, QueueBlocks
    <3>2. next + 1 \in 0 .. (next + 1) /\ next + 1 > next
      BY <1>1, <1>3
    <3>3. block'[w] \in 0 .. next'
      BY <2>1, <2>2, <3>2
    <3>4. block'[w] \in Blocks' => bstarts'[block'[w]] = Unset /\ filled'[block'[w]] = <<>>
      BY <1>2, <1>5, <2>2, <3>1, <3>2 DEF Written
    <3> QED BY <1>2, <2>1, <2>2, <3>3, <3>4 DEF QueueOf, Written
  <2>4. pc'[w] \in Holding /\ pc[w] \notin Holding /\ pc[w] # "copy" /\ pc'[w] # "copy"
    BY <2>1 DEF Holding
  <2> QED BY <1>1, <1>5, <1>7, <2>1, <2>2, <2>3, <2>4, QueueElsewhere
<1>9. ASSUME pc[w] \in {"loop", "code", "fail"}
      PROVE  /\ pc[w] \in Holding /\ block[w] \in 0 .. next /\ limit[w] = NBlocks /\ block[w] \in Int
             /\ block[w] \in Blocks => bstarts[block[w]] = Unset /\ ~Written(block[w])
  BY <1>1, <1>3, <1>9 DEF QueueOf, Holding
<1>10. CASE Loop(w)
  <2>1. /\ pc[w] = "loop" /\ UNCHANGED <<giveup, next, block, limit>>
        /\ pc'[w] = IF block[w] < limit[w] /\ giveup > 0 THEN "code" ELSE "finish"
    BY <1>1, <1>3, <1>10 DEF Loop
  <2>2. CASE block[w] < limit[w] /\ giveup > 0
    <3>1. pc'[w] = "code" /\ pc'[w] \in Holding /\ block[w] \in Blocks
      BY <1>3, <1>9, <2>1, <2>2 DEF Holding
    <3>2. QueueOf(w)'
      <4>1. bstarts'[block'[w]] = Unset /\ filled'[block'[w]] = <<>>
        BY <1>5, <1>9, <2>1, <3>1 DEF Written
      <4> QED BY <1>2, <1>9, <2>1, <3>1, <4>1 DEF QueueOf, Written
    <3>3. next' # next + 1
      BY <1>1, <2>1
    <3> QED BY <1>1, <1>5, <1>7, <1>9, <2>1, <3>1, <3>2, <3>3, QueueElsewhere
  <2>3. CASE ~(block[w] < limit[w] /\ giveup > 0)
    <3>1. pc'[w] = "finish" /\ pc'[w] \notin Holding
      BY <2>1, <2>3 DEF Holding
    <3>2. giveup > 0 => next >= NBlocks /\ block[w] \notin Blocks
      BY <1>1, <1>3, <1>9, <2>1, <2>3
    <3>3. QueueOf(w)'
      BY <1>2, <2>1, <3>1, <3>2 DEF QueueOf
    <3>4. next' # next + 1
      BY <1>1, <2>1
    <3> QED BY <1>1, <1>5, <1>7, <2>1, <3>1, <3>2, <3>3, <3>4, QueueElsewhere
  <2> QED BY <2>2, <2>3
<1>11. CASE Code(w)
  <2>1. /\ pc[w] = "code" /\ UNCHANGED <<giveup, next, block, limit>>
        /\ pc'[w] = IF giveup <= 0 THEN "finish" ELSE IF CBytes(block[w]) < 0 THEN "fail" ELSE "publish"
    BY <1>1, <1>3, <1>11 DEF Code
  <2>2. block[w] \in Blocks /\ CBytes(block[w]) \in Int
    <3>1. block[w] \in Blocks
      BY <1>3, <2>1 DEF QueueOf
    <3> QED BY <1>1, <3>1, BlockBytes
  <2>3. next' # next + 1
    BY <1>1, <2>1
  <2>4. CASE giveup <= 0
    <3>1. pc'[w] = "finish" /\ pc'[w] \notin Holding /\ ~(giveup' > 0)
      BY <1>1, <2>1, <2>4 DEF Holding
    <3>2. QueueOf(w)'
      BY <3>1 DEF QueueOf
    <3> QED BY <1>1, <1>5, <1>7, <2>1, <2>3, <3>1, <3>2, QueueElsewhere
  <2>5. CASE giveup > 0
    <3>1. /\ pc'[w] \in {"fail", "publish"} /\ pc'[w] \in Holding
          /\ pc'[w] = "fail" => CBytes(block[w]) < 0
          /\ pc'[w] = "publish" => CBytes(block[w]) >= 0
      BY <1>1, <2>1, <2>2, <2>5 DEF Holding
    <3>2. QueueOf(w)'
      <4>1. bstarts'[block'[w]] = Unset /\ filled'[block'[w]] = <<>>
        BY <1>5, <1>9, <2>1, <2>2 DEF Written
      <4>2. /\ block'[w] \in 0 .. next' /\ limit'[w] = NBlocks' /\ block'[w] \in Blocks'
        BY <1>2, <1>9, <2>1, <2>2
      <4>3. /\ pc'[w] = "fail" => CBytes(block[w])' < 0
            /\ pc'[w] = "publish" => CBytes(block[w])' >= 0
        BY <1>2, <2>1, <3>1
      <4> QED BY <3>1, <4>1, <4>2, <4>3 DEF QueueOf, Written
    <3> QED BY <1>1, <1>5, <1>7, <1>9, <2>1, <2>3, <3>1, <3>2, QueueElsewhere
  <2> QED BY <1>1, <2>4, <2>5
<1>12. CASE Fail(w)
  <2>1. /\ pc[w] = "fail" /\ UNCHANGED <<next, block, limit>> /\ giveup' = CBytes(block[w]) /\ pc'[w] = "finish"
    BY <1>1, <1>3, <1>12 DEF Fail
  <2>2. block[w] \in Blocks /\ CBytes(block[w]) < 0
    BY <1>3, <2>1 DEF QueueOf
  <2>3. giveup' \in Int /\ giveup' < 0 /\ giveup' <= 0 /\ ~(giveup' > 0)
    <3> DEFINE c == CBytes(block[w])
    <3>1. c \in Int /\ c < 0 /\ giveup' = c
      BY <1>1, <2>1, <2>2, BlockBytes
    <3> HIDE DEF c
    <3> QED BY <3>1
  <2>4. GiveupInv'
    BY <1>2, <2>1, <2>2, <2>3 DEF GiveupInv
  <2>5. QueueOf(w)' /\ pc'[w] \notin Holding
    BY <2>1, <2>3 DEF QueueOf, Holding
  <2>6. next' # next + 1
    BY <1>1, <2>1
  <2> QED BY <1>1, <1>5, <2>1, <2>3, <2>4, <2>5, <2>6, QueueElsewhere
<1> QED BY <1>4, <1>8, <1>10, <1>11, <1>12

\* The block copied is the one whose place was taken.
LEMMA QueueCopy ==
  ASSUME IInv, DataInv, NEW w \in Workers, Copy(w)
  PROVE  DataInv'
<1> USE DEF At, Goto, poolVars, syncVars, jobVars, sharedVars, workerVars, callerVars
<1>0. JobStep(w) /\ pc[w] = "copy"
  BY DEF JobStep, Copy
<1>1. /\ w \in Team /\ w \in Procs /\ Team' = Team /\ Team \subseteq Workers
      /\ \A v \in Team : v # w => pc'[v] = pc[v]
      /\ pc \in [Procs -> CallerLabels \cup WorkerLabels]
      /\ UNCHANGED <<job, memcpyed, nthreads>>
      /\ job \in Jobs
      /\ filled \in [Blocks -> Seq(Int)] /\ bstarts \in [Blocks -> Int]
      /\ next \in Int /\ out \in Int /\ giveup \in Int
      /\ block \in [Workers -> Int] /\ limit \in [Workers -> Int] /\ took \in [Workers -> Int \X Int]
      /\ GiveupInv /\ (Static => StaticInv) /\ (~Static => QueueInv)
  BY <1>0, InsideJob
<1>2. ~Static /\ QueueInv /\ QueueOf(w)
  BY <1>0, <1>1 DEF StaticInv, StaticOf, QueueInv
<1>3. PICK t : t = took[w][1]
  OBVIOUS
<1>4. PICK s : s = bstarts[t]
  OBVIOUS
<1>5. /\ t \in Placed /\ took[w][2] = s /\ filled[t] = <<>> /\ t \in Blocks /\ s \in Int /\ s # Unset
      /\ block[w] \in 0 .. next /\ limit[w] = NBlocks
      /\ block[w] \in Blocks => bstarts[block[w]] = Unset /\ ~Written(block[w])
  BY <1>0, <1>1, <1>2, <1>3, <1>4 DEF QueueOf, Written, Placed, Holding
<1>6. /\ UNCHANGED <<giveup, next, out, bstarts, block, limit, took>> /\ pc'[w] = "loop"
      /\ filled' = [filled EXCEPT ![t] = Append(@, s)]
  BY <1>1, <1>3, <1>5 DEF Copy
<1>7. /\ filled' \in [Blocks -> Seq(Int)] /\ filled'[t] = <<s>> /\ <<s>> # <<>>
      /\ \A b \in Blocks : b # t => filled'[b] = filled[b]
  <2>1. Append(filled[t], s) = <<s>> /\ <<s>> \in Seq(Int) /\ <<s>> # <<>>
    BY <1>5
  <2>2. filled' = [filled EXCEPT ![t] = <<s>>]
    BY <1>6, <2>1
  <2> QED BY <1>1, <1>5, <2>1, <2>2
<1>8. Written(t)' /\ ~Written(t) /\ \A b \in Blocks : b # t => Written(b)' = Written(b)
  BY <1>5, <1>7 DEF Written
<1>9. /\ UNCHANGED <<NBlocks, Blocks, Compressing, MustCopy, DestSize, Given>>
      /\ \A b : CBytes(b)' = CBytes(b) /\ \A copying : Base(copying)' = Base(copying)
  BY <1>1, SameDocument, SameJob
<1>10. Placed' = Placed
  BY <1>6, <1>9 DEF Placed
<1>11. QueueRoom'
  <2> DEFINE base == Base(FALSE)
             sum == Sum(Placed)
  <2>1. base' = base /\ sum' = sum
    BY <1>9, <1>10 DEF Sum
  <2>2. next >= -1 /\ out <= DestSize /\ out = base + sum /\ Tiling(bstarts, Given, Placed, base, out)
    BY <1>2 DEF QueueInv, QueueRoom
  <2> HIDE DEF base, sum
  <2>3. /\ next' >= -1 /\ out' <= DestSize' /\ out' = base' + sum'
        /\ Tiling(bstarts, Given, Placed, base, out)'
    BY <1>6, <1>9, <1>10, <2>1, <2>2 DEF Tiling
  <2> QED BY <2>3 DEF QueueRoom, base, sum
<1>12. QueueBlocks'
  <2>1. \A b \in Blocks : /\ Written(b) => filled[b] = <<bstarts[b]>>
                          /\ b > next => bstarts[b] = Unset /\ ~Written(b)
    BY <1>2 DEF QueueInv, QueueBlocks
  <2>2. ASSUME NEW b \in Blocks
        PROVE  (Written(b)' => filled'[b] = <<bstarts[b]>>) /\ (b > next => bstarts[b] = Unset /\ ~Written(b)')
    <3>1. CASE b = t
      BY <1>4, <1>5, <1>7, <2>1, <3>1
    <3>2. CASE b # t
      BY <1>7, <1>8, <2>1, <3>2
    <3> QED BY <3>1, <3>2
  <2> QED BY <1>6, <1>9, <2>2 DEF QueueBlocks
<1>13. /\ \A u, v \in Team : u # v /\ pc[u] \in Holding /\ pc[v] \in Holding => block[u] # block[v]
       /\ \A u, v \in Team : u # v /\ pc[u] = "copy" /\ pc[v] = "copy" => took[u][1] # took[v][1]
  BY <1>2 DEF QueueInv, QueueApart
<1>14. ASSUME NEW v \in Team, v # w PROVE QueueOf(v)'
  <2>1. QueueOf(v) /\ pc'[v] = pc[v]
    BY <1>1, <1>2, <1>14 DEF QueueInv
  <2>2. pc[v] = "copy" => took[v][1] # t
    BY <1>0, <1>1, <1>3, <1>13, <1>14
  <2>3. /\ pc[v] \in Holding /\ block[v] \in Blocks => Written(block[v])' = Written(block[v])
        /\ pc[v] = "copy" => Written(took[v][1])' = Written(took[v][1])
    <3>1. pc[v] \in Holding /\ block[v] \in Blocks => block[v] # t
      BY <1>4, <1>5, <2>1 DEF QueueOf
    <3>2. pc[v] = "copy" => took[v][1] \in Blocks
      BY <2>1 DEF QueueOf, Placed
    <3> QED BY <1>6, <1>7, <2>2, <3>1, <3>2 DEF Written
  <2> QED BY <1>6, <1>9, <1>10, <2>1, <2>3 DEF QueueOf
<1>15. QueueOf(w)'
  <2>1. block[w] \in Blocks => filled'[block[w]] = <<>> /\ bstarts[block[w]] = Unset
    BY <1>4, <1>5, <1>7 DEF Written
  <2> QED BY <1>5, <1>6, <1>9, <2>1 DEF QueueOf, Holding, Written
<1>16. QueueApart'
  <2>1. \A v \in Team : (pc'[v] \in Holding => pc[v] \in Holding) /\ (pc'[v] = "copy" => pc[v] = "copy" /\ v # w)
    BY <1>0, <1>1, <1>6 DEF Holding
  <2> QED BY <1>1, <1>6, <1>13, <2>1 DEF QueueApart
<1>17. QueueKept'
  <2> SUFFICES ASSUME giveup > 0, NEW b \in Blocks
               PROVE  /\ b <= next /\ bstarts[b] = Unset => \E v \in Team : pc'[v] \in Holding /\ block[v] = b
                      /\ bstarts[b] # Unset =>
                           /\ b \in Placed
                           /\ Written(b)' \/ \E v \in Team : pc'[v] = "copy" /\ took[v][1] = b
    BY <1>1, <1>6, <1>9, <1>10 DEF QueueKept
  <2>1. /\ b <= next /\ bstarts[b] = Unset => \E v \in Team : pc[v] \in Holding /\ block[v] = b
        /\ bstarts[b] # Unset => /\ b \in Placed
                                 /\ Written(b) \/ \E v \in Team : pc[v] = "copy" /\ took[v][1] = b
    BY <1>2 DEF QueueInv, QueueKept
  <2>2. \A v \in Team : pc[v] \in Holding => pc'[v] \in Holding
    BY <1>1, <1>6 DEF Holding
  <2>3. CASE b = t
    BY <1>4, <1>5, <1>8, <2>3
  <2>4. CASE b # t
    <3>1. \A v \in Team : pc[v] = "copy" /\ took[v][1] = b => pc'[v] = "copy"
      BY <1>1, <1>3, <2>4
    <3> QED BY <1>8, <2>1, <2>2, <2>4, <3>1
  <2> QED BY <2>3, <2>4
<1>18. QueueInv'
  BY <1>1, <1>11, <1>12, <1>14, <1>15, <1>16, <1>17 DEF QueueInv
<1>19. GiveupInv'
  BY <1>1, <1>6, <1>9 DEF GiveupInv
<1> QED BY <1>0, <1>1, <1>2, <1>6, <1>7, <1>18, <1>19, InsideData

\* A block that does not fit is one too many for the compressed document.
LEMMA NoRoom ==
  ASSUME job \in Jobs, Compressing, ~memcpyed, QueueRoom, NEW b \in Blocks, b \notin Placed,
         CBytes(b) >= 0, CBytes(b) = 0 \/ out + CBytes(b) > DestSize
  PROVE  MustCopy
<1>1. \A c \in Blocks : CBytes(c) = Gives(c) /\ Gives(c) \in Int
  BY BlockBytes, JobShape
<1>2. CASE CBytes(b) = 0
  BY <1>1, <1>2 DEF MustCopy
<1>3. CASE CBytes(b) # 0
  <2>1. /\ Placed \subseteq Blocks /\ Placed \cup {b} \in SUBSET Blocks /\ Placed \in SUBSET Blocks
        /\ Placed \cup {b} \subseteq Sound /\ Sound \in SUBSET Blocks
        /\ \A c \in Sound : Gives(c) > 0
    BY <1>1, <1>3 DEF Placed, Sound
  <2>2. /\ Sum(Placed) \in Int /\ Sum(Placed \cup {b}) \in Int /\ Sum(Sound) \in Int
        /\ Sum(Placed \cup {b}) = Sum(Placed) + Gives(b)
    BY <2>1, SumLaws
  <2>3. Sum(Placed \cup {b}) <= Sum(Sound)
    BY <2>1, SumLaws
  <2>4. out = Base(FALSE) + Sum(Placed) /\ Base(FALSE) = Header + NBlocks
    BY DEF QueueRoom, Base
  <2>5. Header \in Nat /\ NBlocks \in Nat /\ DestSize \in Int
    BY JobShape, BloscAssumption DEF DestSize
  <2> DEFINE s == Sum(Placed)
             all == Sum(Sound)
             g == Gives(b)
             n == NBlocks
  <2>6. s \in Int /\ all \in Int /\ g \in Int /\ s + g <= all /\ (Header + n) + s + g > DestSize
    BY <1>1, <1>3, <2>2, <2>3, <2>4
  <2>7. Total = all + Header + n
    BY DEF Total
  <2> HIDE DEF s, all, g, n
  <2>8. all + Header + n > DestSize
    BY <2>5, <2>6 DEF n
  <2> QED BY <2>7, <2>8 DEF MustCopy
<1> QED BY <1>2, <1>3

\* Under the lock: a block's place, and the next block.
LEMMA QueuePublish ==
  ASSUME IInv, DataInv, NEW w \in Workers, Publish(w)
  PROVE  DataInv'
<1> USE DEF At, Goto, poolVars, syncVars, jobVars, sharedVars, workerVars, callerVars
<1>0. JobStep(w) /\ pc[w] = "publish"
  BY DEF JobStep, Publish
<1>1. /\ w \in Team /\ w \in Procs /\ Team' = Team /\ Team \subseteq Workers
      /\ \A v \in Team : v # w => pc'[v] = pc[v]
      /\ pc \in [Procs -> CallerLabels \cup WorkerLabels]
      /\ UNCHANGED <<job, memcpyed, nthreads>>
      /\ job \in Jobs /\ memcpyed \in BOOLEAN
      /\ filled \in [Blocks -> Seq(Int)] /\ bstarts \in [Blocks -> Int]
      /\ next \in Int /\ out \in Int /\ giveup \in Int
      /\ block \in [Workers -> Int] /\ limit \in [Workers -> Int] /\ took \in [Workers -> Int \X Int]
      /\ GiveupInv /\ (Static => StaticInv) /\ (~Static => QueueInv)
  BY <1>0, InsideJob
<1>2. ~Static /\ QueueInv /\ QueueOf(w) /\ LoopEnd = "finish" /\ Compressing /\ ~memcpyed
  BY <1>0, <1>1 DEF StaticInv, StaticOf, QueueInv, LoopEnd, Static
<1>3. PICK b : b = block[w]
  OBVIOUS
<1>4. PICK c : c = CBytes(b)
  OBVIOUS
<1>5. /\ b \in Blocks /\ b \in Int /\ b <= next /\ bstarts[b] = Unset /\ ~Written(b) /\ b \notin Placed
      /\ limit[w] = NBlocks /\ c \in Int /\ c >= 0 /\ Gives(b) = c
  <2>1. /\ b \in Blocks /\ b \in 0 .. next /\ bstarts[b] = Unset /\ ~Written(b) /\ limit[w] = NBlocks /\ c >= 0
    BY <1>0, <1>2, <1>3, <1>4 DEF QueueOf, Holding
  <2>2. c \in Int /\ Gives(b) = c
    BY <1>1, <1>2, <1>4, <2>1, BlockBytes
  <2>3. b \notin Placed
    BY <2>1 DEF Placed
  <2> QED BY <2>1, <2>2, <2>3
<1>6. /\ bstarts' = [bstarts EXCEPT ![b] = out] /\ UNCHANGED <<filled, limit>>
      /\ bstarts'[b] = out /\ \A x \in Blocks : x # b => bstarts'[x] = bstarts[x]
      /\ bstarts' \in [Blocks -> Int]
  <2>1. bstarts' = [bstarts EXCEPT ![b] = out] /\ UNCHANGED <<filled, limit>>
    BY <1>3 DEF Publish
  <2> QED BY <1>1, <1>5, <2>1
<1>7. /\ UNCHANGED <<NBlocks, Blocks, Compressing, MustCopy, DestSize, Given>>
      /\ \A x : CBytes(x)' = CBytes(x)
      /\ \A copying : Base(copying)' = Base(copying)
  BY <1>1, SameDocument, SameJob
<1>8. \A x : Written(x)' = Written(x)
  BY <1>6 DEF Written
<1> DEFINE base == Base(FALSE)
           sum == Sum(Placed)
<1>9. /\ next >= -1 /\ out <= DestSize /\ out = base + sum /\ Tiling(bstarts, Given, Placed, base, out)
      /\ base \in Nat /\ sum \in Nat /\ base <= out /\ out # Unset /\ DestSize \in Int
  <2>1. next >= -1 /\ out <= DestSize /\ out = base + sum /\ Tiling(bstarts, Given, Placed, base, out)
    BY <1>2 DEF QueueInv, QueueRoom
  <2>2. base \in Nat /\ DestSize \in Int
    <3>1. Header \in Nat /\ NBlocks \in Nat /\ job.size \in Nat
      BY <1>1, JobShape, BloscAssumption
    <3>2. base = Header + NBlocks /\ DestSize = job.size + Header
      BY <1>2 DEF Base, DestSize
    <3> HIDE DEF base
    <3> QED BY <3>1, <3>2
  <2>3. sum \in Int /\ 0 <= sum
    <3>1. Placed \in SUBSET Blocks /\ \A x \in Placed : Gives(x) > 0
      BY <1>1, <1>2, BlockBytes DEF Placed
    <3>2. {} \in SUBSET Blocks /\ {} \subseteq Placed
      OBVIOUS
    <3>3. Sum({}) = 0 /\ Sum(Placed) \in Int /\ Sum({}) <= Sum(Placed)
      BY <1>1, <3>1, <3>2, SumLaws
    <3> QED BY <3>3
  <2>4. base \in Nat
    BY <2>2
  <2> HIDE DEF base, sum
  <2> QED BY <2>1, <2>2, <2>3, <2>4 DEF Unset
<1>10. /\ \A u, v \in Team : u # v /\ pc[u] \in Holding /\ pc[v] \in Holding => block[u] # block[v]
       /\ \A u, v \in Team : u # v /\ pc[u] = "copy" /\ pc[v] = "copy" => took[u][1] # took[v][1]
       /\ \A x \in Blocks : /\ Written(x) => filled[x] = <<bstarts[x]>>
                            /\ x > next => bstarts[x] = Unset /\ ~Written(x)
  BY <1>2 DEF QueueInv, QueueApart, QueueBlocks
<1>11. \A v \in Team : v # w /\ pc[v] \in Holding => block[v] # b /\ block[v] \in 0 .. next
  <2>1. pc[w] \in Holding
    BY <1>0 DEF Holding
  <2> QED BY <1>1, <1>2, <1>3, <1>10, <2>1 DEF QueueInv, QueueOf
<1>12. \A v \in Team : pc[v] = "copy" => took[v][1] \in Placed /\ took[v][1] # b
  BY <1>2, <1>5 DEF QueueInv, QueueOf
<1>13. \A x \in Blocks : Written(x) => x # b
  BY <1>5
<1> HIDE DEF base, sum
<1>14. ASSUME c = 0 \/ out + c > DestSize PROVE DataInv'
  <2>1. /\ giveup' = 0 /\ pc'[w] = "finish" /\ UNCHANGED <<next, out, block, took>>
    BY <1>1, <1>2, <1>3, <1>4, <1>14 DEF Publish
  <2>2. Placed' = Placed
    <3>1. \A x \in Blocks : x \in Placed' <=> x \in Placed
      <4> TAKE x \in Blocks
      <4>1. CASE x # b
        BY <1>6, <1>7, <4>1 DEF Placed
      <4>2. CASE x = b
        <5>1. ~(bstarts'[b] # Unset /\ CBytes(b) > 0 /\ bstarts'[b] + CBytes(b) <= DestSize)
          <6>1. c \in Int /\ out \in Int /\ DestSize \in Int
            BY <1>1, <1>5, <1>9
          <6>2. ~(c > 0 /\ out + c <= DestSize)
            BY <1>14, <6>1
          <6> QED BY <1>4, <1>6, <6>2
        <5>2. b \notin Placed'
          BY <1>7, <5>1 DEF Placed
        <5> QED BY <1>5, <4>2, <5>2
      <4> QED BY <4>1, <4>2
    <3> QED BY <1>7, <3>1 DEF Placed
  <2>3. QueueRoom'
    <3>1. base' = base /\ sum' = sum
      BY <1>7, <2>2 DEF base, sum, Sum
    <3>2. \A x \in Placed : bstarts'[x] = bstarts[x]
      BY <1>5, <1>6 DEF Placed
    <3>3. Tiling(bstarts', Given, Placed, base, out)
      BY <1>9, <3>2 DEF Tiling
    <3>4. /\ next' >= -1 /\ out' <= DestSize' /\ out' = base' + sum'
          /\ Tiling(bstarts, Given, Placed, base, out)'
      BY <1>7, <1>9, <2>1, <2>2, <3>1, <3>3 DEF Tiling
    <3> QED BY <3>4 DEF QueueRoom, base, sum
  <2>4. QueueBlocks'
    <3>1. ASSUME NEW x \in Blocks
          PROVE  (Written(x) => filled[x] = <<bstarts'[x]>>) /\ (x > next => bstarts'[x] = Unset /\ ~Written(x))
      <4>1. CASE x # b
        BY <1>6, <1>10, <4>1
      <4>2. CASE x = b
        BY <1>1, <1>5, <4>2
      <4> QED BY <4>1, <4>2
    <3> QED BY <1>6, <1>7, <1>8, <2>1, <3>1 DEF QueueBlocks
  <2>5. ASSUME NEW v \in Team, v # w PROVE QueueOf(v)'
    <3>1. QueueOf(v) /\ pc'[v] = pc[v] /\ ~(giveup' > 0)
      BY <1>1, <1>2, <2>1, <2>5 DEF QueueInv
    <3>2. pc[v] \in Holding /\ block[v] \in Blocks => bstarts'[block[v]] = Unset
      BY <1>6, <1>11, <2>5, <3>1 DEF QueueOf
    <3>3. pc[v] = "copy" => took[v][1] \in Blocks /\ bstarts'[took[v][1]] = bstarts[took[v][1]]
      BY <1>6, <1>12 DEF Placed
    <3> QED BY <1>6, <1>7, <1>8, <2>1, <2>2, <3>1, <3>2, <3>3 DEF QueueOf
  <2>6. QueueOf(w)' /\ pc'[w] \notin Holding /\ pc'[w] # "copy"
    BY <2>1 DEF QueueOf, Holding
  <2>7. QueueApart'
    <3>1. \A v \in Team : /\ pc'[v] \in Holding => v # w /\ pc[v] \in Holding
                          /\ pc'[v] = "copy" => v # w /\ pc[v] = "copy"
      BY <1>1, <2>6
    <3> QED BY <1>1, <1>10, <2>1, <3>1 DEF QueueApart
  <2>8. QueueKept'
    BY <2>1 DEF QueueKept
  <2>9. QueueInv'
    BY <1>1, <2>3, <2>4, <2>5, <2>6, <2>7, <2>8 DEF QueueInv
  <2>10. MustCopy
    BY <1>1, <1>2, <1>4, <1>5, <1>14, NoRoom DEF QueueInv
  <2>11. GiveupInv'
    BY <1>1, <1>2, <1>7, <2>1, <2>10 DEF GiveupInv
  <2>12. giveup' \in Int /\ next' \in Int /\ out' \in Int
    BY <1>1, <2>1
  <2> QED BY <1>0, <1>1, <1>2, <1>6, <2>1, <2>9, <2>11, <2>12, InsideData
<1>15. ASSUME ~(c = 0 \/ out + c > DestSize) PROVE DataInv'
  <2>1. /\ UNCHANGED giveup /\ pc'[w] = "copy" /\ next' = next + 1 /\ out' = out + c
        /\ took' = [took EXCEPT ![w] = <<b, out>>] /\ block' = [block EXCEPT ![w] = next + 1]
    BY <1>1, <1>3, <1>4, <1>15 DEF Publish
  <2>2. /\ c \in Nat \ {0} /\ out + c <= DestSize /\ out + c \in Int /\ next + 1 \in Int
    BY <1>1, <1>5, <1>9, <1>15
  <2>3. /\ block' \in [Workers -> Int] /\ block'[w] = next + 1 /\ \A v \in Workers : v # w => block'[v] = block[v]
    BY <1>1, <2>1, <2>2
  <2>4. /\ took' \in [Workers -> Int \X Int] /\ took'[w][1] = b /\ took'[w][2] = out
        /\ \A v \in Workers : v # w => took'[v] = took[v]
    <3> DEFINE pair == <<b, out>>
    <3>1. pair \in Int \X Int /\ pair[1] = b /\ pair[2] = out
      BY <1>1, <1>5
    <3>2. took' = [took EXCEPT ![w] = pair]
      BY <2>1
    <3> HIDE DEF pair
    <3>3. took'[w] = pair
      BY <1>1, <3>2
    <3>4. took' \in [Workers -> Int \X Int]
      BY <1>1, <3>1, <3>2
    <3> QED BY <1>1, <3>1, <3>2, <3>3, <3>4
  <2>5. Placed' = Placed \cup {b}
    <3>1. \A x \in Blocks : x \in Placed' <=> x \in Placed \cup {b}
      <4> TAKE x \in Blocks
      <4>1. CASE x # b
        BY <1>6, <1>7, <4>1 DEF Placed
      <4>2. CASE x = b
        <5>1. bstarts'[b] # Unset /\ CBytes(b) > 0 /\ bstarts'[b] + CBytes(b) <= DestSize
          BY <1>4, <1>6, <1>9, <2>2
        <5>2. b \in Placed'
          BY <1>5, <1>7, <5>1 DEF Placed
        <5> QED BY <4>2, <5>2
      <4> QED BY <4>1, <4>2
    <3>2. Placed' \subseteq Blocks /\ Placed \cup {b} \subseteq Blocks
      BY <1>5, <1>7 DEF Placed
    <3> QED BY <3>1, <3>2
  <2>6. QueueRoom'
    <3>1. base' = base /\ sum' = sum + c /\ sum + c \in Int
      <4>1. Placed \in SUBSET Blocks /\ b \in Blocks \ Placed
        BY <1>5 DEF Placed
      <4>2. Sum(Placed \cup {b}) = Sum(Placed) + Gives(b)
        BY <1>1, <4>1, SumLaws
      <4>3. Sum(Placed)' = Sum(Placed \cup {b})
        BY <1>7, <2>5 DEF Sum
      <4>4. sum' = sum + c
        BY <1>5, <4>2, <4>3 DEF sum
      <4>5. base' = base
        BY <1>7 DEF base
      <4> QED BY <1>9, <2>2, <4>4, <4>5
    <3>2. \A x \in Placed : bstarts'[x] = bstarts[x]
      BY <1>5, <1>6 DEF Placed
    <3>3. Given[b] = c
      BY <1>5 DEF Given
    <3>4. Tiling(bstarts', Given, Placed \cup {b}, base, out + c)
      <4> DEFINE at == bstarts'
      <4>1. at[b] = out /\ \A x \in Placed : at[x] = bstarts[x]
        BY <1>6, <3>2
      <4>2. /\ base \in Int /\ out \in Int /\ base <= out /\ Tiling(bstarts, Given, Placed, base, out)
            /\ b \notin Placed /\ Given[b] \in Nat \ {0}
        BY <1>1, <1>5, <1>9, <2>2, <3>3
      <4> DEFINE S == Placed
                 len == Given
                 from == bstarts
                 end == out
      <4> HIDE DEF at, S, len, from, end
      <4>3. /\ base \in Int /\ end \in Int /\ base <= end /\ Tiling(from, len, S, base, end)
            /\ b \notin S /\ len[b] \in Nat \ {0} /\ at[b] = end /\ \A x \in S : at[x] = from[x]
        BY <4>1, <4>2 DEF S, len, from, end
      <4>4. Tiling(at, len, S \cup {b}, base, end + len[b])
        BY <4>3, TilingGrows
      <4> QED BY <3>3, <4>4 DEF at, S, len, end
    <3>5. next' >= -1 /\ out' <= DestSize' /\ out' = base' + sum'
      BY <1>1, <1>7, <1>9, <2>1, <2>2, <3>1
    <3>6. Tiling(bstarts, Given, Placed, base, out)'
      BY <1>7, <2>1, <2>5, <3>1, <3>4 DEF Tiling
    <3> QED BY <3>5, <3>6 DEF QueueRoom, base, sum
  <2>7. QueueBlocks'
    <3>1. ASSUME NEW x \in Blocks
          PROVE  /\ Written(x) => filled[x] = <<bstarts'[x]>>
                 /\ x > next + 1 => bstarts'[x] = Unset /\ ~Written(x)
      <4>0. x \in Int
        BY DEF Blocks
      <4>1. CASE x # b
        BY <1>1, <1>6, <1>10, <4>0, <4>1
      <4>2. CASE x = b
        BY <1>1, <1>5, <4>2
      <4> QED BY <4>1, <4>2
    <3> QED BY <1>6, <1>7, <1>8, <2>1, <3>1 DEF QueueBlocks
  <2>8. ASSUME NEW v \in Team, v # w PROVE QueueOf(v)'
    <3>1. QueueOf(v) /\ pc'[v] = pc[v] /\ block'[v] = block[v] /\ took'[v] = took[v] /\ limit'[v] = limit[v]
          /\ block[v] \in Int
      BY <1>1, <1>2, <1>6, <2>3, <2>4, <2>8 DEF QueueInv
    <3>2. pc[v] \in Holding /\ block[v] \in Blocks => bstarts'[block[v]] = Unset
      BY <1>6, <1>11, <2>8, <3>1 DEF QueueOf
    <3>3. pc[v] = "copy" => took[v][1] \in Blocks /\ bstarts'[took[v][1]] = bstarts[took[v][1]]
      BY <1>6, <1>12 DEF Placed
    <3>4. block[v] \in 0 .. next => block[v] \in 0 .. next'
      <4>1. block[v] \in 0 .. next => block[v] \in 0 .. (next + 1)
        BY <1>1, <3>1
      <4> QED BY <2>1, <4>1
    <3>5. next >= NBlocks => next' >= NBlocks
      <4>1. next >= NBlocks => next + 1 >= NBlocks
        BY <1>1, JobShape
      <4> QED BY <2>1, <4>1
    <3> QED BY <1>6, <1>7, <1>8, <2>1, <2>5, <3>1, <3>2, <3>3, <3>4, <3>5 DEF QueueOf
  <2>9. QueueOf(w)'
    <3>1. next + 1 > next /\ next + 1 \in 0 .. (next + 1) /\ next + 1 # b
      BY <1>1, <1>5, <1>9
    <3>2. next + 1 \in Blocks => bstarts'[next + 1] = Unset /\ ~Written(next + 1)
      BY <1>6, <1>10, <3>1
    <3>3. block'[w] \in Blocks' => bstarts'[block'[w]] = Unset /\ filled'[block'[w]] = <<>>
      BY <1>6, <1>7, <2>3, <3>2 DEF Written
    <3>4. block'[w] \in 0 .. next' /\ limit'[w] = NBlocks'
      BY <1>5, <1>6, <1>7, <2>1, <2>3, <3>1
    <3>5. /\ took'[w][1] \in Placed' /\ took'[w][2] = bstarts'[took'[w][1]] /\ filled'[took'[w][1]] = <<>>
      BY <1>5, <1>6, <2>4, <2>5 DEF Written
    <3> QED BY <2>1, <3>3, <3>4, <3>5 DEF QueueOf, Written
  <2>10. pc[w] \in Holding /\ pc'[w] \in Holding /\ pc[w] # "copy"
    BY <1>0, <2>1 DEF Holding
  <2>11. ASSUME NEW v \in Team, v # w
         PROVE  /\ pc'[v] \in Holding => block'[v] # block'[w] /\ pc[v] \in Holding
                /\ pc'[v] = "copy" => took'[v][1] # took'[w][1]
    <3>1. pc'[v] = pc[v] /\ block'[v] = block[v] /\ took'[v] = took[v]
      BY <1>1, <2>3, <2>4, <2>11
    <3>2. pc[v] \in Holding => block[v] # next + 1
      BY <1>1, <1>11, <2>11
    <3> QED BY <1>12, <2>3, <2>4, <3>1, <3>2
  <2>12. QueueApart'
    <3>1. \A u, v \in Team : u # v /\ pc'[u] \in Holding /\ pc'[v] \in Holding => block'[u] # block'[v]
      <4> SUFFICES ASSUME NEW u \in Team, NEW v \in Team, u # v, pc'[u] \in Holding, pc'[v] \in Holding
                   PROVE  block'[u] # block'[v]
        OBVIOUS
      <4>1. CASE u # w /\ v # w
        BY <1>1, <1>10, <2>3, <2>11, <4>1
      <4>2. CASE u = w \/ v = w
        BY <2>11, <4>2
      <4> QED BY <4>1, <4>2
    <3>2. \A u, v \in Team : u # v /\ pc'[u] = "copy" /\ pc'[v] = "copy" => took'[u][1] # took'[v][1]
      <4> SUFFICES ASSUME NEW u \in Team, NEW v \in Team, u # v, pc'[u] = "copy", pc'[v] = "copy"
                   PROVE  took'[u][1] # took'[v][1]
        OBVIOUS
      <4>1. CASE u # w /\ v # w
        <5>1. pc[u] = "copy" /\ pc[v] = "copy"
          BY <1>1, <4>1
        <5>2. took'[u] = took[u] /\ took'[v] = took[v]
          BY <1>1, <2>4, <4>1
        <5> QED BY <1>10, <5>1, <5>2
      <4>2. CASE u = w \/ v = w
        BY <2>11, <4>2
      <4> QED BY <4>1, <4>2
    <3> QED BY <1>1, <3>1, <3>2 DEF QueueApart
  <2>13. QueueKept'
    <3> SUFFICES ASSUME giveup > 0, NEW x \in Blocks
                 PROVE  /\ x <= next + 1 /\ bstarts'[x] = Unset => \E v \in Team : pc'[v] \in Holding /\ block'[v] = x
                        /\ bstarts'[x] # Unset =>
                             /\ x \in Placed \cup {b}
                             /\ Written(x) \/ \E v \in Team : pc'[v] = "copy" /\ took'[v][1] = x
      BY <1>1, <1>7, <1>8, <2>1, <2>5 DEF QueueKept
    <3>1. /\ x <= next /\ bstarts[x] = Unset => \E v \in Team : pc[v] \in Holding /\ block[v] = x
          /\ bstarts[x] # Unset => /\ x \in Placed
                                   /\ Written(x) \/ \E v \in Team : pc[v] = "copy" /\ took[v][1] = x
      BY <1>2 DEF QueueInv, QueueKept
    <3>2. \A v \in Team : v # w => pc'[v] = pc[v] /\ block'[v] = block[v] /\ took'[v] = took[v]
      BY <1>1, <2>3, <2>4
    <3>3. CASE x = b
      BY <1>1, <1>6, <1>9, <2>1, <2>4, <3>3
    <3>4. CASE x # b
      <4>1. bstarts'[x] = bstarts[x] /\ x \in Int
        BY <1>6, <3>4 DEF Blocks
      <4>2. ASSUME x <= next + 1, bstarts[x] = Unset
            PROVE  \E v \in Team : pc'[v] \in Holding /\ block'[v] = x
        <5>1. CASE x <= next
          <6>1. PICK v \in Team : pc[v] \in Holding /\ block[v] = x
            BY <3>1, <4>2, <5>1
          <6>2. v # w
            BY <1>3, <3>4, <6>1
          <6> QED BY <3>2, <6>1, <6>2
        <5>2. CASE x = next + 1
          BY <1>1, <2>3, <2>10, <5>2
        <5> QED BY <1>1, <4>1, <4>2, <5>1, <5>2
      <4>3. ASSUME bstarts[x] # Unset
            PROVE  x \in Placed /\ (Written(x) \/ \E v \in Team : pc'[v] = "copy" /\ took'[v][1] = x)
        <5>1. \A v \in Team : pc[v] = "copy" => v # w
          BY <2>10
        <5> QED BY <3>1, <3>2, <4>3, <5>1
      <4> QED BY <4>1, <4>2, <4>3
    <3> QED BY <3>3, <3>4
  <2>14. QueueInv'
    BY <1>1, <2>6, <2>7, <2>8, <2>9, <2>12, <2>13 DEF QueueInv
  <2>15. GiveupInv'
    BY <1>1, <1>7, <2>1 DEF GiveupInv
  <2>16. next' \in Int /\ out' \in Int
    BY <2>1, <2>2
  <2> QED BY <1>0, <1>1, <1>2, <1>6, <2>1, <2>3, <2>4, <2>14, <2>15, <2>16, InsideData
<1> QED BY <1>14, <1>15

-----------------------------------------------------------------------------
(* Theorems: the data *)

\* Every step keeps the invariant of the data.
LEMMA DataStep ==
  ASSUME IInv, DataInv, IInv', [Next]_vars
  PROVE  DataInv'
<1>1. CASE UNCHANGED vars
  BY <1>1, DataStutters
<1>2. CASE Call
  BY <1>2, CallStep
<1>3. CASE Check \/ Release \/ Join \/ Released \/ InitThreads \/ Create \/ Created
  BY <1>3, CheckStep
<1>4. CASE WriteHeader \/ Retry
  BY <1>4, HeaderStep
<1>5. CASE RunSerial
  BY <1>5, SerialStep
<1>6. CASE StartParallel
  BY <1>6, StartStep
<1>7. CASE AwaitInit
  BY <1>7, ArriveStep DEF Procs
<1>8. CASE AwaitFinish
  BY <1>8, DepartStep DEF Procs
<1>9. CASE Collect \/ Answer
  BY <1>9, EndStep
<1>10. ASSUME NEW w \in Workers, WorkerStep(w) PROVE DataInv'
  <2>1. CASE WaitInit(w)
    BY <2>1, ArriveStep DEF Procs
  <2>2. CASE WaitFinish(w)
    BY <2>2, DepartStep DEF Procs
  <2>3. CASE Leave(w)
    BY <2>3, LeaveStep
  <2>4. CASE JobStep(w)
    <3>1. CASE Static /\ ~Code(w)
      BY <2>4, <3>1, StaticMoves
    <3>2. CASE Static /\ Code(w)
      BY <3>2, StaticCode
    <3>3. CASE ~Static /\ ~Publish(w) /\ ~Copy(w)
      BY <2>4, <3>3, QueueMoves
    <3> QED BY <3>1, <3>2, <3>3, QueuePublish, QueueCopy
  <2> QED BY <1>10, <2>1, <2>2, <2>3, <2>4 DEF WorkerStep, JobStep
<1> QED BY <1>1, <1>2, <1>3, <1>4, <1>5, <1>6, <1>7, <1>8, <1>9, <1>10 DEF Next, CallerStep, Quiet

\* What the document, its blocks and the answer are, always: the inductive invariant of the
\* data, on top of that of the barriers (t_blosc_do_job, serial_blosc, do_job).
THEOREM DataInvariance == Spec => []DataInv
<1>1. Init => DataInv
  BY DataInit
<1>2. ASSUME IInv, DataInv, IInv', [Next]_vars PROVE DataInv'
  BY <1>2, DataStep
<1> QED BY <1>1, <1>2, Invariance, PTL DEF Spec

\* No block is written twice, whoever takes it.
LEMMA WrittenOnce ==
  ASSUME IInv, DataInv, NEW b \in DOMAIN filled
  PROVE  Len(filled[b]) <= 1
<1>1. TypeOK /\ FitInv /\ TeamInv /\ JobInv /\ Caller \in Procs
  BY DEF IInv, DataInv, Procs
<1>2. ~Fresh /\ ncalls > 0
  <2>1. DOMAIN <<>> = {}
    OBVIOUS
  <2> QED BY <1>1, <2>1 DEF JobInv
<1>3. filled \in [Blocks -> Seq(Int)] /\ b \in Blocks
  BY <1>1, <1>2 DEF JobInv, Served
<1>4. \/ Ready \/ Working \/ Over \/ pc[Caller] = "answer" \/ Done
  BY <1>1, <1>2 DEF FitInv, CallerLabels, Ready, Entering, Working, Over, Done, Fresh, Checks, TeamInv,
                    TypeOK, Places, Barriers
<1>5. CASE Ready
  <2>1. filled[b] = <<>>
    BY <1>1, <1>3, <1>5 DEF JobInv
  <2> QED BY <2>1
<1>6. CASE Working
  <2>1. CASE Static
    BY <1>3, <1>6, <2>1 DEF DataInv, StaticInv
  <2>2. CASE ~Static
    <3> DEFINE s == bstarts[b]
    <3>1. filled[b] = <<>> \/ filled[b] = <<s>>
      BY <1>3, <1>6, <2>2 DEF DataInv, QueueInv, QueueBlocks, Written
    <3> HIDE DEF s
    <3>2. CASE filled[b] = <<>>
      <4>1. Len(filled[b]) = 0
        BY <3>2
      <4> QED BY <4>1
    <3>3. CASE filled[b] = <<s>>
      <4>1. Len(filled[b]) = 1
        BY <3>3
      <4> QED BY <4>1
    <3> QED BY <3>1, <3>2, <3>3
  <2> QED BY <2>1, <2>2
<1>7. CASE Over \/ pc[Caller] = "answer" \/ Done
  <2>1. \E a : Outcome(a)
    BY <1>7 DEF DataInv
  <2> QED BY <1>3, <2>1 DEF Outcome
<1> QED BY <1>4, <1>5, <1>6, <1>7

\* A tiling covers each byte once.
LEMMA CoveredOnce ==
  ASSUME NEW at, NEW len, NEW S, NEW from \in Int, NEW end \in Int, Tiling(at, len, S, from, end),
         NEW x \in from .. (end - 1)
  PROVE  Cardinality({b \in S : x \in at[b] .. (at[b] + len[b] - 1)}) = 1
<1>1. \A b \in S : x \in at[b] .. (at[b] + len[b] - 1) <=> at[b] <= x /\ x < at[b] + len[b]
  BY DEF Tiling
<1>2. PICK c \in S : at[c] <= x /\ x < at[c] + len[c]
  BY DEF Tiling
<1>3. \A b \in S : at[b] <= x /\ x < at[b] + len[b] => b = c
  BY <1>2 DEF Tiling
<1>4. {b \in S : x \in at[b] .. (at[b] + len[b] - 1)} = {c}
  BY <1>1, <1>2, <1>3
<1> QED BY <1>4, FS_Singleton

\* However the blocks are handed out, each is written at most once, and those of a success
\* fill the stream with neither gap nor overlap (t_blosc_do_job).
THEOREM OutputTilesHolds == Spec => []OutputTiles
<1>1. IInv /\ DataInv => OutputTiles
  <2> SUFFICES ASSUME IInv, DataInv PROVE OutputTiles
    OBVIOUS
  <2>1. ASSUME NEW b \in DOMAIN filled
        PROVE  Len(filled[b]) <= 1 /\ (Done /\ ans > 0 => Len(filled[b]) = 1)
    <3>1. Done => ncalls > 0 /\ ~Fresh /\ Outcome(ans) /\ JobInv
      BY DEF DataInv, Done, Fresh, Checks
    <3>2. Done => DOMAIN filled = Blocks
      BY <3>1 DEF JobInv, Served
    <3>3. Done /\ ans > 0 => Len(filled[b]) = 1
      BY <3>1, <3>2 DEF Outcome
    <3> QED BY <3>3, WrittenOnce
  <2>2. ASSUME Done, Compressing, ~memcpyed, ans > 0
        PROVE  /\ \A b \in Blocks : filled[b] = <<bstarts[b]>>
               /\ \A x \in Base(FALSE) .. (ans - 1) :
                    Cardinality({b \in Blocks : x \in bstarts[b] .. (bstarts[b] + CBytes(b) - 1)}) = 1
    <3>1. Outcome(ans) /\ job \in Jobs
      BY <2>2 DEF DataInv, Done, JobInv
    <3>2. /\ \A b \in Blocks : filled[b] = <<bstarts[b]>>
          /\ Tiling(bstarts, Given, Blocks, Base(FALSE), ans) /\ ans \in Int
      BY <2>2, <3>1 DEF Outcome
    <3>3. Base(FALSE) \in Int
      BY <3>1, JobShape, BloscAssumption DEF Base
    <3> DEFINE base == Base(FALSE)
    <3>4. ASSUME NEW x \in base .. (ans - 1)
          PROVE  Cardinality({b \in Blocks : x \in bstarts[b] .. (bstarts[b] + CBytes(b) - 1)}) = 1
      <4>1. Cardinality({b \in Blocks : x \in bstarts[b] .. (bstarts[b] + Given[b] - 1)}) = 1
        <5> base \in Int /\ Tiling(bstarts, Given, Blocks, base, ans)
          BY <3>2, <3>3
        <5> HIDE DEF base
        <5> QED BY <3>2, <3>4, CoveredOnce
      <4>2. \A b \in Blocks : Given[b] = CBytes(b)
        BY <2>2, <3>1, BlockBytes DEF Given
      <4>3. {b \in Blocks : x \in bstarts[b] .. (bstarts[b] + Given[b] - 1)}
            = {b \in Blocks : x \in bstarts[b] .. (bstarts[b] + CBytes(b) - 1)}
        BY <4>2
      <4> QED BY <4>1, <4>3
    <3> QED BY <3>2, <3>4
  <2> QED BY <2>1, <2>2 DEF OutputTiles
<1> QED BY <1>1, Invariance, DataInvariance, PTL

\* The answer is one that the blocks, taken in some order, give (blosc_compress_context,
\* serial_blosc, parallel_blosc).
THEOREM AnswerAsSerialHolds == Spec => []AnswerAsSerial
<1>1. IInv /\ DataInv => AnswerAsSerial
  <2> SUFFICES ASSUME IInv, DataInv, Done PROVE AnswerAsSerial
    BY DEF AnswerAsSerial
  <2>1. /\ Outcome(ans) /\ job \in Jobs /\ (Compressing => memcpyed \/ ans # 0) /\ ans \in Int
        /\ memcpyed => Compressing /\ (job.size < MinBuffer \/ MustCopy)
    <3>1. Served /\ ncalls > 0
      BY DEF Done, Served, Fresh, Checks
    <3> QED BY <3>1 DEF DataInv, Done, JobInv, Outcome
  <2> DEFINE sound == {b \in Blocks : Gives(b) > 0}
             total == MapThenSumSet(Gives, sound) + Header + NBlocks
             copied == /\ ans = job.size + Header
                       /\ \/ job.size < MinBuffer \/ total > DestSize
                          \/ \E b \in Blocks : Gives(b) = 0
  <2>2. sound = Sound /\ total = Total
    <3>1. sound = Sound /\ Sound \subseteq Blocks
      BY DEF Sound
    <3>2. MapThenSumSet(Gives, Sound) = Sum(Sound)
      BY <2>1, <3>1, SumIs
    <3> QED BY <3>1, <3>2 DEF Total
  <2>3. CASE ans < 0
    BY <2>1, <2>3 DEF Outcome, AnswerAsSerial
  <2>4. CASE ans = 0
    BY <2>1, <2>4 DEF Outcome
  <2>5. CASE ans > 0 /\ memcpyed
    <3>1. copied /\ ~(ans < 0)
      BY <2>1, <2>2, <2>5 DEF Outcome, MustCopy
    <3> QED BY <2>5, <3>1 DEF AnswerAsSerial
  <2>6. CASE ans > 0 /\ ~memcpyed
    <3>1. Sound = Blocks /\ ans = (IF Compressing THEN Total ELSE job.size)
      BY <2>1, <2>6 DEF Outcome
    <3>2. ~(ans < 0)
      BY <2>1, <2>6
    <3> HIDE DEF sound, total, copied
    <3>3. sound = Blocks /\ ans = (IF Compressing THEN total ELSE job.size)
      BY <2>2, <3>1
    <3> USE DEF sound, total
    <3> QED BY <2>6, <3>2, <3>3 DEF AnswerAsSerial
  <2> QED BY <2>1, <2>3, <2>4, <2>5, <2>6
<1> QED BY <1>1, Invariance, DataInvariance, PTL
=============================================================================
