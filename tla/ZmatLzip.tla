------------------------------- MODULE ZmatLzip -------------------------------
(***************************************************************************)
(* Multi-threaded lzip: simpleCompressLzipMT and its threads                *)
(* lzip_compress_chunk write a stream of several members, and the lzip      *)
(* branch of zmat_run finds the members again by walking back over their    *)
(* member_size fields, then decodes each.                                   *)
(*                                                                          *)
(* A thread compresses its slice to a version 0 member and upgrades it to   *)
(* version 1, which needs a realloc.  A member is kept as its version and   *)
(* the slice it holds.  Only version 1 members carry a member_size, so the  *)
(* walk stops at a version 0 member; without the walk only the first member *)
(* is decoded.                                                              *)
(***************************************************************************)
EXTENDS Integers, Sequences

CONSTANTS Lens,       \* lengths of the input
          NThreads,   \* values of the nthread argument
          MaxThreads, \* 127: nthread is a signed char
          MinChunk,   \* 1024: the smallest slice worth a thread
          MaxAlloc,   \* ZMAT_MAX_ALLOC: what a decompression may produce
          Faults      \* which of the resources below may fail

AllFaults == {"malloc", "codec", "thread", "patch", "scan"}

\* That the slices tile the input rests on MinChunk being above MaxThreads.
ASSUME LzipAssumption ==
  /\ Lens \subseteq Nat \ {0}
  /\ NThreads \subseteq Int
  /\ MaxThreads \in Nat \ {0} /\ \A k \in NThreads : k <= MaxThreads
  /\ MinChunk \in Nat /\ MaxThreads <= MinChunk
  /\ MaxAlloc \in Nat
  /\ Faults \subseteq AllFaults

VARIABLES
  main,     \* where the calling thread is
  len,      \* inLen
  n,        \* nthread
  i, j,     \* its loop variables
  th,       \* where each created thread is
  crc,      \* chunks[].rc: 0 or an error
  out,      \* version of the member in chunks[].out, or NoOut
  heap,     \* live allocations of simpleCompressLzipMT
  rc,       \* result of the compression, then of the decompression
  stream,   \* members of the compressed stream
  end,      \* members the walk has not passed (end of the code, in members)
  found,    \* members it found
  bytes     \* what the decompression returns

enc == <<len, n, j, th, crc, out, heap>>
dec == <<stream, end, found, bytes>>
vars == <<main, len, n, i, j, th, crc, out, heap, rc, stream, end, found, bytes>>

Tids == 0 .. MaxThreads - 1
NoOut == -1
Err == -4

Fails(f) == f \in Faults

\* The slice of thread t; the last one takes what is left.
Chunk == (len + n - 1) \div n
SliceStart(t) == t * Chunk
SliceLen(t) == IF t = n - 1 THEN len - t * Chunk ELSE Chunk
Slice(t) == [k \in 1 .. SliceLen(t) |-> SliceStart(t) + k]

Whole == [k \in 1 .. len |-> k]

Init ==
  /\ main = "call"
  /\ len \in Lens /\ n \in NThreads
  /\ i = 0 /\ j = 0
  /\ th = [t \in Tids |-> "none"] /\ crc = [t \in Tids |-> 0]
  /\ out = [t \in Tids |-> NoOut]
  /\ heap = {} /\ rc = 0
  /\ stream = <<>> /\ end = 0 /\ found = 0 /\ bytes = <<>>

-----------------------------------------------------------------------------
(* lzip_compress_chunk *)

\* simpleCompress of the slice
ChunkCompress(t) ==
  /\ th[t] = "compress"
  /\ \/ /\ out' = [out EXCEPT ![t] = 0]
        /\ th' = [th EXCEPT ![t] = "patch"]
        /\ UNCHANGED crc
     \/ /\ Fails("codec")
        /\ crc' = [crc EXCEPT ![t] = Err]
        /\ th' = [th EXCEPT ![t] = "exit"]
        /\ UNCHANGED out
  /\ UNCHANGED <<main, len, n, i, j, heap, rc, dec>>

\* The realloc and the upgrade to version 1, or the member left as it is.
ChunkPatch(t) ==
  /\ th[t] = "patch"
  /\ \/ out' = [out EXCEPT ![t] = 1]
     \/ Fails("patch") /\ UNCHANGED out
  /\ th' = [th EXCEPT ![t] = "exit"]
  /\ UNCHANGED <<main, len, n, i, j, crc, heap, rc, dec>>

-----------------------------------------------------------------------------
(* simpleCompressLzipMT *)

\* A faulty guard: short slices are given to threads too.
IsSingleAlways == n <= 1

\* One thread, or slices too short to be worth it.
IsSingle == n <= 1 \/ Chunk < MinChunk

CallSingle ==
  /\ main = "call" /\ IsSingle
  /\ \/ /\ stream' = <<[ver |-> 0, slice |-> Whole]>>
        /\ main' = "encoded" /\ UNCHANGED rc
     \/ /\ Fails("codec")
        /\ rc' = Err /\ main' = "failed" /\ UNCHANGED stream
  /\ UNCHANGED <<enc, i, end, found, bytes>>

CallAlloc ==
  /\ main = "call" /\ ~IsSingle
  /\ \/ heap' = {"chunks", "threads"} /\ main' = "spawn" /\ UNCHANGED rc
     \/ Fails("malloc") /\ rc' = Err /\ main' = "failed" /\ UNCHANGED heap
  /\ UNCHANGED <<len, n, i, j, th, crc, out, dec>>

Spawn ==
  /\ main = "spawn" /\ i < n
  /\ th' = [th EXCEPT ![i] = "compress"]
  /\ i' = i + 1
  /\ UNCHANGED <<main, len, n, j, crc, out, heap, rc, dec>>

\* pthread_create fails: the threads already running are joined.
SpawnFails ==
  /\ main = "spawn" /\ i < n /\ Fails("thread")
  /\ main' = "undo" /\ j' = 0 /\ rc' = Err
  /\ UNCHANGED <<len, n, i, th, crc, out, heap, dec>>

SpawnEnds ==
  /\ main = "spawn" /\ i = n
  /\ main' = "join" /\ i' = 0
  /\ UNCHANGED <<enc, rc, dec>>

\* A faulty bound: the thread that could not be created is waited for.
UndoMoreByOne == j <= i

UndoMore == j < i

\* A faulty undo loop: a buffer is freed without its thread being joined.
UndoNoJoin ==
  /\ main = "undo" /\ UndoMore
  /\ out' = [out EXCEPT ![j] = NoOut]
  /\ j' = j + 1
  /\ UNCHANGED <<main, len, n, i, th, crc, heap, rc, dec>>

Undo ==
  /\ main = "undo" /\ UndoMore
  /\ th[j] = "exit"
  /\ th' = [th EXCEPT ![j] = "joined"]
  /\ out' = [out EXCEPT ![j] = NoOut]
  /\ j' = j + 1
  /\ UNCHANGED <<main, len, n, i, crc, heap, rc, dec>>

UndoEnds ==
  /\ main = "undo" /\ ~UndoMore
  /\ heap' = {} /\ main' = "failed"
  /\ UNCHANGED <<len, n, i, j, th, crc, out, rc, dec>>

Join ==
  /\ main = "join" /\ i < n
  /\ th[i] = "exit"
  /\ th' = [th EXCEPT ![i] = "joined"]
  /\ rc' = IF crc[i] # 0 THEN crc[i] ELSE rc
  /\ i' = i + 1
  /\ UNCHANGED <<main, len, n, j, crc, out, heap, dec>>

\* Every chunk's buffer, then the two arrays
FreeAll == out' = [t \in Tids |-> NoOut] /\ heap' = {}

\* Some chunk failed, or the stream cannot be allocated.
JoinFails ==
  /\ main = "join" /\ i = n
  /\ rc # 0 \/ Fails("malloc")
  /\ FreeAll
  /\ rc' = IF rc # 0 THEN rc ELSE Err
  /\ main' = "failed"
  /\ UNCHANGED <<len, n, i, j, th, crc, dec>>

Concatenate ==
  /\ main = "join" /\ i = n /\ rc = 0
  /\ stream' = [k \in 1 .. n |-> [ver |-> out[k - 1], slice |-> Slice(k - 1)]]
  /\ FreeAll
  /\ main' = "encoded"
  /\ UNCHANGED <<len, n, i, j, th, crc, rc, end, found, bytes>>

-----------------------------------------------------------------------------
(* zmat_run, the lzip branch of decompression *)

Decode ==
  /\ main = "encoded"
  /\ main' = "scan" /\ end' = Len(stream)
  /\ UNCHANGED <<enc, i, rc, stream, found, bytes>>

\* How many recorded members fill the arrays: none, then 8, doubling.
GrowsAt == {0, 8, 16, 32, 64}

\* One turn of the walk: a version 1 member is recorded.
ScanMember ==
  /\ main = "scan" /\ end > 0
  /\ stream[end].ver = 1
  /\ found' = found + 1 /\ end' = end - 1
  /\ UNCHANGED <<enc, main, i, rc, stream, bytes>>

\* The walk stops: at a version 0 member, at the start, or because the arrays
\* cannot grow, which forgets what was found.
ScanStops ==
  /\ main = "scan"
  /\ \/ end = 0 /\ UNCHANGED found
     \/ end > 0 /\ stream[end].ver = 0 /\ UNCHANGED found
     \/ /\ end > 0 /\ stream[end].ver = 1
        /\ found \in GrowsAt /\ Fails("scan")
        /\ found' = 0
  /\ main' = "decode" /\ i' = 1
  /\ UNCHANGED <<enc, rc, stream, end, bytes>>

IsMulti == end = 0 /\ found >= 2

\* simpleDecompress of the whole input: it reads the first member only.
DecodeFirst ==
  /\ main = "decode" /\ ~IsMulti
  /\ bytes' = stream[1].slice
  /\ main' = "decoded"
  /\ UNCHANGED <<enc, i, rc, stream, end, found>>

\* A faulty append: the slice goes where the last one went.
AccumulateOver(b, s) == s

Accumulate(b, s) == b \o s

\* One turn of the loop over the members the walk found.
DecodeMember ==
  /\ main = "decode" /\ IsMulti /\ i <= found
  /\ Len(bytes) + Len(stream[i].slice) <= MaxAlloc
  /\ bytes' = Accumulate(bytes, stream[i].slice)
  /\ i' = i + 1
  /\ UNCHANGED <<enc, main, rc, stream, end, found>>

\* The accumulated output would pass the cap.
DecodeTooBig ==
  /\ main = "decode" /\ IsMulti /\ i <= found
  /\ Len(bytes) + Len(stream[i].slice) > MaxAlloc
  /\ rc' = Err /\ bytes' = <<>>
  /\ main' = "failed"
  /\ UNCHANGED <<enc, i, stream, end, found>>

DecodeEnds ==
  /\ main = "decode" /\ IsMulti /\ i > found
  /\ main' = "decoded"
  /\ UNCHANGED <<enc, i, rc, dec>>

\* A member cannot be decoded, or the accumulated output cannot grow.
DecodeFails ==
  /\ main = "decode" /\ Fails("codec")
  /\ rc' = Err /\ bytes' = <<>>
  /\ main' = "failed"
  /\ UNCHANGED <<enc, i, stream, end, found>>

-----------------------------------------------------------------------------
Thread(t) == ChunkCompress(t) \/ ChunkPatch(t)

Main ==
  \/ CallSingle \/ CallAlloc
  \/ Spawn \/ SpawnFails \/ SpawnEnds
  \/ Undo \/ UndoEnds
  \/ Join \/ JoinFails \/ Concatenate
  \/ Decode \/ ScanMember \/ ScanStops
  \/ DecodeFirst \/ DecodeMember \/ DecodeTooBig \/ DecodeEnds \/ DecodeFails

Finished == main \in {"decoded", "failed"} /\ UNCHANGED vars

Next == Main \/ (\E t \in Tids : Thread(t)) \/ Finished

\* The threads share nothing, so each runs on by itself.
Fairness == WF_vars(Main) /\ \A t \in Tids : WF_vars(Thread(t))

Spec == Init /\ [][Next]_vars /\ Fairness

-----------------------------------------------------------------------------
(* Properties *)

TypeOK ==
  /\ main \in {"call", "spawn", "undo", "join", "encoded", "scan", "decode", "decoded", "failed"}
  /\ i \in 0 .. MaxThreads + 1 /\ j \in 0 .. MaxThreads
  /\ main \in {"spawn", "undo"} => i <= n
  /\ th \in [Tids -> {"none", "compress", "patch", "exit", "joined"}]
  /\ crc \in [Tids -> {0, Err}] /\ out \in [Tids -> {NoOut, 0, 1}]
  /\ heap \subseteq {"chunks", "threads"}
  /\ rc \in {0, Err}
  /\ end \in 0 .. MaxThreads /\ found \in 0 .. MaxThreads

\* The slices tile the input: no start lies beyond the end of the buffer, so the
\* unsigned length of the last one never wraps.
SlicesTile == main = "spawn" => SliceStart(n - 1) <= len

\* No thread is left writing to a chunk the caller has freed, and nothing stays
\* allocated on any of the five ways out.
NoThreadLeftBehind ==
  main \in {"encoded", "failed", "decoded"} =>
    /\ \A t \in Tids : th[t] \in {"none", "joined"}
    /\ \A t \in Tids : out[t] = NoOut
    /\ heap = {}

\* A document is lost without an error only when memory ran out for the upgrade
\* of some member or for the walk: all else gives the whole or an error.
LossNeedsLostMemory ==
  main = "decoded" /\ bytes # Whole =>
    \/ \E k \in 1 .. Len(stream) : Len(stream) > 1 /\ stream[k].ver = 0
    \/ end > 0 /\ stream[end].ver = 1

\* The call returns although threads, memory or the codec may fail.
Termination == <>(main \in {"decoded", "failed"})
=============================================================================
