----------------------------- MODULE ZmatIndexed -----------------------------
(***************************************************************************)
(* Block-parallel zlib/gzip with an index: zmat_run_indexed, which chooses  *)
(* a path, zmat_deflate_blocks, which builds a stream and its index, and    *)
(* zmat_inflate_blocks, which checks an index and decodes with it.          *)
(*                                                                          *)
(* A client compresses the successive versions of one growing document,     *)
(* keeps the streams and the indexes it is given, and later decompresses    *)
(* any stream with any index it has kept.  Each allocation is a step that   *)
(* may fail, so every clean-up path is walked.  The pool is used by what    *)
(* ZmatJob promises; ZmatPool shows that the threads keep that promise.     *)
(*                                                                          *)
(* Sizes are in units, of documents that zlib's 32-bit counts hold (ZmatRun  *)
(* has those beyond): BlockSize stands for ZMAT_BLOCKSIZE, and a segment     *)
(* compresses to SegLen[length].  A version of n units has the content      *)
(* 1..n, so what was decoded is compared byte for byte with what was given. *)
(***************************************************************************)
EXTENDS Integers, Sequences, FiniteSetsExt

CONSTANTS BlockSize,   \* ZMAT_BLOCKSIZE
          SegLen,      \* compressed length of a block of each length
          Sizes,       \* the sizes of the document's versions
          MaxAlloc,    \* ZMAT_MAX_ALLOC
          ReqThreads,  \* values of the nthread flag byte
          MaxCalls,    \* calls the client makes
          Accidents    \* whether bits that mean nothing may happen to fill a slice

ASSUME IndexedAssumption ==
  /\ BlockSize \in Nat \ {0}
  /\ SegLen \in [1 .. BlockSize -> Nat \ {0}]
  /\ Sizes \subseteq Nat \ {0} /\ MaxAlloc \in Nat
  /\ ReqThreads \subseteq Int
  /\ MaxCalls \in Nat
  /\ Accidents \in BOOLEAN

Hdr == 1            \* zlib or gzip header
TailLen == 1        \* the empty final block
Trailer == 1        \* adler32, or crc32 and length
DefaultNThread == 8 \* ZMAT_DEFAULT_NTHREAD
Junk == 0           \* a decoded byte of no document

VARIABLES
  pc,       \* where the call is
  call,     \* its arguments
  heap,     \* live allocations: "blocks", "out", "idx"
  bufs,     \* live per-block buffers pool.blocks[].out
  tail,     \* whether the empty final block was produced
  fault,    \* whether a resource has failed in this call
  res,      \* the answer
  streams,  \* streams the client keeps
  indexes,  \* indexes the client keeps
  calls     \* calls begun

client == <<streams, indexes, calls>>
vars == <<pc, call, heap, bufs, tail, fault, res, streams, indexes, calls>>

NoIndex == <<>>
NoStream == [size |-> 0, blocked |-> FALSE, final |-> FALSE]
NoCall == [op |-> "none"]
NoRes == [rc |-> 1, path |-> "none", stream |-> NoStream, index |-> NoIndex, bytes |-> <<>>]

Content(n) == [k \in 1 .. n |-> k]

-----------------------------------------------------------------------------
(* The layout zmat_deflate_blocks gives a stream *)

\* A faulty count: the remainder gets no block.
NumBlocksDown(n) == LET k == n \div BlockSize IN IF k = 0 THEN 1 ELSE k

NumBlocks(n) == LET k == (n + BlockSize - 1) \div BlockSize IN IF k = 0 THEN 1 ELSE k

BlockStart(b) == b * BlockSize

BlockLen(n, b) == LET l == n - BlockStart(b) IN IF l > BlockSize THEN BlockSize ELSE l

\* The loop's pos and uncomp before block b, and after the last block.
SegPos(n, b) ==
  LET pos[k \in 0 .. NumBlocks(n)] ==
        IF k = 0 THEN Hdr ELSE pos[k - 1] + SegLen[BlockLen(n, k - 1)]
  IN  pos[b]

Uncomp(n, b) ==
  LET uncomp[k \in 0 .. NumBlocks(n)] ==
        IF k = 0 THEN 0 ELSE uncomp[k - 1] + BlockLen(n, k - 1)
  IN  uncomp[b]

\* A faulty index: every block is taken to be full.
IndexRounded(n) ==
  [r \in 1 .. NumBlocks(n) + 1 |-> <<SegPos(n, r - 1), BlockStart(r - 1)>>]

\* One row (compressed, uncompressed) per block and the sentinel row.
Index(n) ==
  [r \in 1 .. NumBlocks(n) + 1 |-> <<SegPos(n, r - 1), Uncomp(n, r - 1)>>]

StreamLen(s) ==
  IF s.blocked
  THEN SegPos(s.size, NumBlocks(s.size)) + (IF s.final THEN TailLen ELSE 0) + Trailer
  ELSE Hdr + s.size + Trailer

\* The independently decodable segments of a stream: [from, to) and content.
Segments(s) ==
  IF s.blocked
  THEN {[from |-> SegPos(s.size, b), to |-> SegPos(s.size, b + 1),
         first |-> BlockStart(b), len |-> BlockLen(s.size, b)]
          : b \in 0 .. NumBlocks(s.size) - 1}
  ELSE {[from |-> Hdr, to |-> Hdr + s.size, first |-> 0, len |-> s.size]}

-----------------------------------------------------------------------------
(* zmat_inflate_worker on one row of an index *)

\* How many units raw inflate may yield from [off, off + inlen) when a segment
\* starts at off: all of the segments inside, and any part of the one cut off.
\* Elsewhere the bits mean nothing, and any number may come out.
Yield(s, off, inlen) ==
  LET end == off + inlen
      total(S) == MapThenSumSet(LAMBDA g : g.len, S)
      inside == {g \in Segments(s) : g.from >= off /\ g.to <= end}
      cut == {g \in Segments(s) : g.from >= off /\ g.from < end /\ g.to > end}
  IN  {total(inside) + extra : extra \in 0 .. total(cut)}

Aligned(s, off) == \E g \in Segments(s) : g.from = off

\* The outputs that fill a slice of cap units, which is all the worker asks.
Fills(s, off, inlen, cap) ==
  IF Aligned(s, off)
  THEN LET g == CHOOSE g \in Segments(s) : g.from = off
       IN  IF \E y \in Yield(s, off, inlen) : y >= cap
           THEN {[k \in 1 .. cap |-> g.first + k]} ELSE {}
  ELSE IF Accidents THEN {[k \in 1 .. cap |-> Junk]} ELSE {}

\* The worker may find the slice short.
MayFallShort(s, off, inlen, cap) ==
  Aligned(s, off) => \E y \in Yield(s, off, inlen) : y < cap

-----------------------------------------------------------------------------
(* The client *)

Init ==
  /\ pc = "idle" /\ call = NoCall
  /\ heap = {} /\ bufs = 0 /\ tail = FALSE /\ fault = FALSE
  /\ res = NoRes
  /\ streams = {} /\ indexes = {} /\ calls = 0

Begin(c) ==
  /\ pc = "idle" /\ calls < MaxCalls
  /\ call' = c /\ calls' = calls + 1
  /\ pc' = "gate"
  /\ tail' = FALSE /\ fault' = FALSE /\ res' = NoRes
  /\ UNCHANGED <<heap, bufs, streams, indexes>>

CallCompress ==
  \E n \in Sizes, req \in ReqThreads, want \in BOOLEAN :
    Begin([op |-> "deflate", size |-> n, req |-> req, want |-> want])

CallDecompress ==
  \E s \in streams, x \in indexes \cup {NoIndex}, req \in ReqThreads :
    Begin([op |-> "inflate", stream |-> s, index |-> x, req |-> req])

\* The client takes what it is given and frees what it does not keep.
Take ==
  /\ pc = "return"
  /\ IF call.op = "deflate" /\ res.rc = 0
     THEN /\ streams' = streams \cup {res.stream}
          /\ indexes' = indexes \cup ({res.index} \ {NoIndex})
     ELSE UNCHANGED <<streams, indexes>>
  /\ heap' = {}
  /\ pc' = "idle"
  /\ UNCHANGED <<call, bufs, tail, fault, res, calls>>

-----------------------------------------------------------------------------
(* zmat_run_indexed *)

InputSize == IF call.op = "deflate" THEN call.size ELSE StreamLen(call.stream)

\* 0 means the default number; a negative one asks for a single stream.
ReqThread == IF call.req = 0 THEN DefaultNThread ELSE call.req

TriesBlocks ==
  /\ ReqThread >= 1
  /\ InputSize > BlockSize
  /\ IF call.op = "inflate" THEN Len(call.index) >= 2 ELSE TRUE

Gate ==
  /\ pc = "gate"
  /\ pc' = IF ~TriesBlocks THEN "serial"
           ELSE IF call.op = "deflate" THEN "dcalloc" ELSE "icheck"
  /\ UNCHANGED <<client, call, heap, bufs, tail, fault, res>>

\* A faulty fallback: the failure of the blocked path is handed to the caller.
AbandonAtOnce ==
  pc' = "return" /\ res' = [NoRes EXCEPT !.rc = -5, !.path = "blocks"]

\* The blocked path failed: the serial path still works.
Abandon == pc' = "serial" /\ UNCHANGED res

\* The data is good: there is a final block to stop at, and room for the document, which
\* zlib's reader needs to be below the cap and gzip's does not.
Decodable == IF call.op = "deflate" THEN TRUE ELSE call.stream.final
Fitting == IF call.op = "deflate" THEN TRUE ELSE call.stream.size < MaxAlloc

\* zmat_run, with the index pointer cleared on compression; its allocations
\* may fail, and a stream with no final block cannot be decoded.
Serial ==
  /\ pc = "serial"
  /\ pc' = "return"
  /\ \/ /\ Decodable
        /\ heap' = heap \cup {"out"}
        /\ res' = IF call.op = "deflate"
                  THEN [NoRes EXCEPT !.rc = 0, !.path = "serial", !.stream =
                          [size |-> call.size, blocked |-> FALSE, final |-> TRUE]]
                  ELSE [NoRes EXCEPT !.rc = 0, !.path = "serial",
                                     !.bytes = Content(call.stream.size)]
        /\ UNCHANGED fault
     \/ /\ res' = [NoRes EXCEPT !.rc = -5, !.path = "serial"]
        /\ fault' = (fault \/ (Decodable /\ Fitting))
        /\ UNCHANGED heap
  /\ UNCHANGED <<client, call, bufs, tail>>

-----------------------------------------------------------------------------
(* zmat_deflate_blocks *)

DCalloc ==
  /\ pc = "dcalloc"
  /\ \/ heap' = heap \cup {"blocks"} /\ pc' = "dbufs" /\ UNCHANGED <<fault, res>>
     \/ Abandon /\ fault' = TRUE /\ UNCHANGED heap
  /\ UNCHANGED <<client, call, bufs, tail>>

\* A faulty clean-up: the array is freed but not the buffers it points to.
DropBlocksOnly == heap' = heap \ {"blocks"} /\ UNCHANGED bufs

\* A faulty clean-up: a buffer is freed for every block, allocated or not.
DropEveryBlock == heap' = heap \ {"blocks"} /\ bufs' = bufs - NumBlocks(call.size)

\* free of every pool.blocks[].out allocated so far, then of pool.blocks
DropBlocks == heap' = heap \ {"blocks"} /\ bufs' = 0

\* One malloc of the loop over the blocks.
DBuffer ==
  /\ pc = "dbufs"
  /\ \/ /\ bufs' = bufs + 1
        /\ pc' = IF bufs + 1 = NumBlocks(call.size) THEN "dpool" ELSE "dbufs"
        /\ UNCHANGED <<heap, fault, res>>
     \/ DropBlocks /\ Abandon /\ fault' = TRUE
  /\ UNCHANGED <<client, call, tail>>

\* zmat_pool_run with zmat_deflate_worker: each buffer is large enough
\* (compressBound), so it fails only for want of memory or of a mutex.
DPool ==
  /\ pc = "dpool"
  /\ \/ pc' = "dtail" /\ UNCHANGED <<heap, bufs, fault, res>>
     \/ DropBlocks /\ Abandon /\ fault' = TRUE
  /\ UNCHANGED <<client, call, tail>>

\* The empty final block; when deflateInit2 fails it is left out.
DTail ==
  /\ pc = "dtail"
  /\ \/ tail' = TRUE /\ UNCHANGED fault
     \/ tail' = FALSE /\ fault' = TRUE
  /\ pc' = "dout"
  /\ UNCHANGED <<client, call, heap, bufs, res>>

\* malloc of the stream and of the index: both are tried, and either failing
\* frees both.
DOut ==
  /\ pc = "dout"
  /\ \/ heap' = heap \cup {"out", "idx"} /\ pc' = "dbuild" /\ UNCHANGED <<bufs, fault, res>>
     \/ DropBlocks /\ Abandon /\ fault' = TRUE
  /\ UNCHANGED <<client, call, tail>>

\* The buffers and the array are freed, and the index unless it is handed out.
DropRest(given) ==
  heap' = (heap \ {"blocks"}) \ (IF given THEN {} ELSE {"idx"}) /\ bufs' = 0

DBuild ==
  /\ pc = "dbuild"
  /\ res' = [NoRes EXCEPT
       !.rc = 0, !.path = "blocks",
       !.stream = [size |-> call.size, blocked |-> TRUE, final |-> tail],
       !.index = IF call.want THEN Index(call.size) ELSE NoIndex]
  /\ DropRest(call.want)
  /\ pc' = "return"
  /\ UNCHANGED <<client, call, tail, fault>>

-----------------------------------------------------------------------------
(* zmat_inflate_blocks *)

LastRow(x) == x[Len(x)]

\* A faulty check: a document of exactly the cap is turned down.
IndexFitsBelow(x, insize) ==
  /\ x[1][2] = 0 /\ LastRow(x)[1] <= insize /\ LastRow(x)[2] \in 1 .. MaxAlloc - 1
  /\ \A r \in 1 .. Len(x) - 1 : x[r][1] < x[r + 1][1] /\ x[r][2] < x[r + 1][2]

\* The sanity checks
IndexFits(x, insize) ==
  /\ x[1][2] = 0 /\ LastRow(x)[1] <= insize
  /\ LastRow(x)[2] # 0 /\ LastRow(x)[2] <= MaxAlloc
  /\ \A r \in 1 .. Len(x) - 1 : x[r][1] < x[r + 1][1] /\ x[r][2] < x[r + 1][2]

ICheck ==
  /\ pc = "icheck"
  /\ IF IndexFits(call.index, InputSize) THEN pc' = "icalloc" /\ UNCHANGED res ELSE Abandon
  /\ UNCHANGED <<client, call, heap, bufs, tail, fault>>

ICalloc ==
  /\ pc = "icalloc"
  /\ \/ heap' = heap \cup {"blocks"} /\ pc' = "iout" /\ UNCHANGED <<fault, res>>
     \/ Abandon /\ fault' = TRUE /\ UNCHANGED heap
  /\ UNCHANGED <<client, call, bufs, tail>>

IOut ==
  /\ pc = "iout"
  /\ \/ heap' = heap \cup {"out"} /\ pc' = "ipool" /\ UNCHANGED <<fault, res>>
     \/ heap' = heap \ {"blocks"} /\ Abandon /\ fault' = TRUE
  /\ UNCHANGED <<client, call, bufs, tail>>

Rows == 1 .. Len(call.index) - 1
RowOff(r) == call.index[r][1]
RowIn(r) == call.index[r + 1][1] - call.index[r][1]
RowCap(r) == call.index[r + 1][2] - call.index[r][2]

\* The slices are contiguous: row r writes from its own uncompressed offset.
Assemble(f) ==
  [k \in 1 .. LastRow(call.index)[2] |->
     LET r == CHOOSE r \in Rows : call.index[r][2] < k /\ k <= call.index[r + 1][2]
     IN  f[r][k - call.index[r][2]]]

\* zmat_pool_run with zmat_inflate_worker, and what follows it.
IPool ==
  /\ pc = "ipool"
  /\ \/ /\ \A r \in Rows : Fills(call.stream, RowOff(r), RowIn(r), RowCap(r)) # {}
        /\ LET f == [r \in Rows |->
                       CHOOSE o \in Fills(call.stream, RowOff(r), RowIn(r), RowCap(r)) : TRUE]
           IN  res' = [NoRes EXCEPT !.rc = 0, !.path = "blocks", !.bytes = Assemble(f)]
        /\ heap' = heap \ {"blocks"}
        /\ pc' = "return"
        /\ UNCHANGED fault
     \/ /\ \E r \in Rows : MayFallShort(call.stream, RowOff(r), RowIn(r), RowCap(r))
        /\ heap' = heap \ {"blocks", "out"}
        /\ Abandon
        /\ UNCHANGED fault
     \/ /\ heap' = heap \ {"blocks", "out"}
        /\ Abandon
        /\ fault' = TRUE
  /\ UNCHANGED <<client, call, bufs, tail>>

-----------------------------------------------------------------------------
Finished == pc = "idle" /\ calls = MaxCalls /\ UNCHANGED vars

Next ==
  \/ CallCompress \/ CallDecompress \/ Take
  \/ Gate \/ Serial
  \/ DCalloc \/ DBuffer \/ DPool \/ DTail \/ DOut \/ DBuild
  \/ ICheck \/ ICalloc \/ IOut \/ IPool
  \/ Finished

Spec == Init /\ [][Next]_vars

-----------------------------------------------------------------------------
(* Properties *)

TypeOK ==
  /\ pc \in {"idle", "gate", "serial", "dcalloc", "dbufs", "dpool", "dtail", "dout", "dbuild",
             "icheck", "icalloc", "iout", "ipool", "return"}
  /\ heap \subseteq {"blocks", "out", "idx"}
  /\ bufs \in Nat
  /\ tail \in BOOLEAN /\ fault \in BOOLEAN
  /\ res.rc \in {1, 0, -5} /\ res.path \in {"none", "blocks", "serial"}
  /\ calls \in 0 .. MaxCalls

\* Whatever failed on the way, the caller is given exactly the live memory: a
\* stream or document if and only if the call succeeded, an index if and only
\* if a non-NULL one is returned, and nothing else stays allocated.
NothingLeaks ==
  pc = "return" =>
    /\ bufs = 0
    /\ heap = (IF res.rc = 0 THEN {"out"} ELSE {})
              \cup (IF res.index # NoIndex THEN {"idx"} ELSE {})

\* A stream decoded with the index it was produced with gives the document, whichever
\* path decodes it and whichever threads or allocations fail.  Without a fault that index is
\* turned down only when the document passes ZMAT_MAX_ALLOC.  The client is left with an
\* error by nothing but a fault, one when the final block was made, or a document that
\* is not below the cap, which the serial path may refuse as well.
OwnIndexDecodes ==
  pc = "return" /\ call.op = "inflate" /\ call.stream.blocked
    /\ call.index = Index(call.stream.size)
    => /\ res.rc = 0 => res.bytes = Content(call.stream.size)
       /\ TriesBlocks /\ ~fault => (res.path = "blocks" <=> call.stream.size <= MaxAlloc)
       /\ res.rc # 0 => fault \/ ~call.stream.final \/ call.stream.size > MaxAlloc
                        \/ (call.stream.size = MaxAlloc /\ ~TriesBlocks)

\* The blocked path is only an accelerator: no call fails without the serial
\* path having been tried.
SerialIsTried == pc = "return" /\ res.rc # 0 => res.path = "serial"

\* zmatlib.h: "a stale index costs time but never correctness".
StaleIndexIsHarmless ==
  pc = "return" /\ call.op = "inflate" /\ res.rc = 0 => res.bytes = Content(call.stream.size)
=============================================================================
