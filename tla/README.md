# Formal verification of zmat

zmat is a portable compression library: one C file, `src/src/zmatlib.c`, puts
zlib, gzip, lzma, lzip, xz, lz4, blosc2, zstd and base64 behind one call and
adds threads to zlib, gzip and lzip. Around it stand a Python extension, a MEX
gateway, a MATLAB function and a Fortran interface; below it, vendored codecs.
This directory holds TLA+ modules that model the library's own logic, the TLC
configurations that check them on small instances, and proofs checked by TLAPS.

## Inventory

| component | code | state | operations |
|---|---|---|---|
| worker pool | `zmatlib.c` 1174-1364 | `next`, `failed`, mutex, one record per block | claim a block, process it, fail, spawn, join |
| block-parallel zlib/gzip | `zmatlib.c` 1383-1770 | per-block buffers, stream, index | choose a path, build a stream and index, check an index, decode with it, fall back |
| parallel lzip | `zmatlib.c` 818-994, 2382-2523 | one chunk per thread; members found | slice, compress, upgrade to version 1, join, concatenate; walk back, decode members |
| lzma/lzip reader | `easylzma/decompress.c`, `zmatlib.c` 2015-2201 | input and output buffer, offsets, running length and CRC | header, fill, decode, footer, check |
| lzma/lzip writer | `easylzma/compress.c`, `lzma/LzFindMt.c`, `LzFind.c`, `LzmaEnc.c` | the window, two rings of blocks, semaphores, two critical sections | read, hash, match, encode, move the window, stop, footer |
| serial call | `zmatlib.c` 241-1129 | one output buffer, one codec state | compress into a bound; inflate and grow; try, grow and try again |
| gzip reader | `zmatlib.c` 2574-2735 | none across calls | walk the header, inflate once into the length of the trailer, check |
| xz reader | `zmatlib.c` 2205-2374, `lzma/XzDec.c` | accumulated output, the decoder's state | decode in a loop of 64 KB pieces |
| xz writer | `zmatlib.c` 2205-2374, `lzma/XzEnc.c`, `MtCoder.c` | the read turn, a ring of blocks, output buffers | read, code, write, start and stop threads |
| base64 | `zmatlib.c` 1848-2007 | none | encode, decode |
| blosc2 thread pool | `blosc2/blosc/blosc2.c` | a context of the whole process: count of threads, barriers, fields of the job | set the count, create and release threads, run a job, give up |
| Python extension | `python/pyzmat.c` | view, buffers, index, list, exception during a call | zmat, compress, decompress, encode, decode |
| Python package | `python/zmat/__init__.py` | array metadata the client keeps | compress and decompress with info, byte shuffle |
| MATLAB, Octave, Fortran | `zmat.m`, `src/zmat.cpp`, `fortran90/zmatlib.f90` | array metadata | the same calls |
| method names and errors | `zmatlib.c` | none | table lookups |
| vendored codecs | `src/miniz`, `src/lz4`, `src/blosc2`, `src/easylzma/lzma` | theirs | external, but for the threads named above |

How they interact. Every binding calls `zmat_run_indexed`, which tries the
blocked path for large zlib and gzip inputs and otherwise, or when that fails,
calls `zmat_run`. The blocked path hands its blocks to the worker pool: threads
share one counter and one flag under a mutex, and write records and slices that
no lock guards. `zmat_run` calls `simpleCompressLzipMT` for lzip with threads,
where the threads share nothing and the caller joins them, and `simpleDecompress`
for lzma and lzip, which drives easylzma by an input and an output callback.
Below `zmat_run`, three vendored libraries bring threads of their own: the LZMA
encoder runs two threads ahead of the caller on one window, the xz encoder lets
threads take turns at reading and at writing, and blosc2 keeps a pool for the whole
process, which one call leaves to the next. The index is the one piece of *zmat's*
state that outlives a call: the client keeps it beside the stream, and may hand it back
with another stream. The Python package keeps a dictionary of metadata likewise.

What is hard about it: threads that cannot be created or fail halfway; clean-up
of half-built arrays of buffers; a fallback after a late failure; an index that
belongs to something else; ends of streams that fall on ends of buffers; input
that is cut short, damaged, or wider than a codec's count; growing a buffer under
two limits at once; rings of blocks counted only by semaphores; a window that is moved
under the threads that point into it; barriers that are used again at once; an
interpreter any call of which may raise. Nothing is persisted, so there is no crash
recovery, and there are no timeouts. `PROJECT.json` lists each hazard at its line, with
the properties that would catch it.

What makes each part correct:

* pool: each block processed once and by one worker, answer independent of the
  threads, no worker left behind, the call returns;
* blocked zlib/gzip: no leak whatever fails, a stream's own index gives the document and is
  turned down only above the cap, failures fall back;
* parallel lzip: slices tile the input, threads joined on each way out, members
  reassembled in order, and lost only when memory is short;
* reader: only whole streams accepted, every whole stream accepted, it returns;
* serial call and its readers: every exit releases what is open there, once; output and
  size agree or are NULL and 0; the limits refuse only what they are for; a cut or damaged
  stream does not pass where its format can tell; no reader leaves its input; it returns;
* xz and lzma writers: blocks whole, once and in order, or an error; no two threads on one
  buffer; no thread left behind; no wait that nobody ends;
* blosc2 pool: jobs kept apart, the stream tiled, an answer the serial loop may give;
* Python: nothing kept, NULL with an exception and only then, an array comes back.

## Modules

Each component has a module, an `MC` module with the configurations of its runs,
and, where theorems are proved, a `Proofs` module that extends it (there are eight). Operators
whose comment begins "A faulty ..." are the variants of a definition that its properties are
tried against; no run uses them as they stand.

**ZmatJob** is what a caller of `zmat_pool_run` is promised: the blocks of one
job, each processed at most once, one answer. No threads, no lock.

**ZmatPool** is the pool. `main` is the place in `zmat_pool_run`, `pc[p]` that of
each thread in the worker (`Caller` is the calling thread when it has to run the
worker itself), `lock` the mutex with its owner, `next` and `failed` the shared
fields, `idx` the workers' local block number, `status` a block's record. The
read and the write of the counter are steps of their own (`NextTest`, `NextTake`).
Whether a codec state can be opened and whether the codec accepts a block is
left open. The two workers have one control flow and are one action set. The
refinement `Job == INSTANCE ZmatJob` maps `status` and `rc` to themselves.

**ZmatIndexed** is `zmat_run_indexed` with both blocked functions, one action per
allocation or call that may fail, and a client (`CallCompress`, `CallDecompress`,
`Take`) that compresses versions of a growing document and decodes any stream with
any index it kept. `heap` and `bufs` are the live allocations, `res` the answer. The cap
`MaxAlloc` falls twice: `IndexFits` turns down an index of more, and zlib's serial reader
refuses a document that is not below it (`Fitting`), so a document above the cap is
compressed into blocks, its own index is turned down, and it may not come back.
Sizes are in units; the content of a version of `n` units is `1..n`, so decoded
bytes are compared exactly. The pool is used by the promise of ZmatJob: it succeeds
or fails as a whole. What raw inflate yields on a slice that is not a segment
(`Yield`, `Fills`) is external: whole segments give their content, a segment cut off
any part of it, and bits that mean nothing may or may not fill the slice
(`Accidents`).

**ZmatLzip** is `simpleCompressLzipMT`, its threads, and the lzip branch of
`zmat_run` that finds members and decodes them. `th`, `crc`, `out` are a thread and
its chunk, `heap` the two arrays; a member is its version and the slice of the
document it holds. `Faults` names the resources that may fail in a run.

**ElzmaDecompress** is `elzma_decompress_run` with its callbacks and
`simpleDecompress`. The loop variables keep their names (`srcLen`, `bufOff`, `amt`,
`dstLen`, `stat`); a stream is its format, the number of bytes of compressed data,
the size of the content, and its fate. `Decodes` is the LZMA decoder's contract.

**ZmatRun** is `zmat_run`. `buf` is the capacity of what `*outputbuf` points to or
`Null`, `held` counts the output buffers that are allocated and `zs` the codec states that
are open, `left`, `total` and `ret` are what inflate works on, `rounds` the grow rounds,
`taken` how much of the input the codec was offered, `packed` what it made of it. Every exit
is an alternative with the frees, closes and resets that stand at that place: compression
has an action for each codec from the buffer on, decompression one for each shape, and where
two codecs clean up differently the action says so (zlib's grow loop closes its state and
leaves `*outputsize`, lz4's sets it to 0). gzip, which frees a buffer of its own before
`*outputbuf` is set, shows as a `held` that `buf` does not tell of.
zstd's size goes through an int and back (`AsSize`) before it is tested and announced.
The codecs that allocate their output (base64, lzma, lzip, xz, gzip on decompression) answer
in one step (`RunOwner`), possibly with an error and a buffer both, and zmat's clean-up is the
next (`OwnerFails`). lzip's streams have a fate of their own, `"rest"`: the first member is
whole and what follows is cut or damaged, so that the walk back over the members fails and
the first is decoded alone with rc 0; `HasMembers` are those that the walk gets through, of
which a part may be handed over with an error, and `MembersTooLarge` their cap. What a reader
allocates for itself while it works is not counted by `held`. The module is the build with
bundled miniz (`NO_ZLIB`), the one the project ships.

**ZmatSerial** puts the readers in the place of that step and is shown to implement
ZmatRun: `Abstract == INSTANCE ZmatRun`, with the same variables and with any packed size up
to `Bound` and any size below `SizeMod`, property `ImplementsRun`. Its parts are
**Streams** (a gzip stream as the roles of its bytes, an xz stream as its parts),
**GzipReader** (every test, each step of the header walk, the one inflate; `greach` is the
furthest byte read), **XzReader** (the 64 KB loop, and `XzUnpacker_Code` as one action per
state of the decoder), and **Base64** (both functions as operators on sequences, with the
size of the buffer that the code allocates). Streams also says what a fate means
(`IsGzip`, `IsXz`): which roles or parts a sound stream has, and what makes one cut or damaged.
`StreamAssumption` and `TextAssumption` say it of the inputs.

**MtCoder** is `xzCompress` down to the threads of `MtCoder_Code`. `pc[t]` is the place
of a thread in `ThreadFunc2`, `my[t]` its locals, `turn` the auto-reset event that hands on
reading, `sem` and `freeList` the places of the ring, `writeIndex`, `ready` and `blocks` what
waits to be written, `enc` what each output buffer holds, `out` and `index` the stream. The
count of finished threads and the count of started ones are read and written in the order the
code does it.

**LzFindMt** is `simpleCompress` with the encoder's three threads. `pc` is their places,
`sync` the two `CMtSync` (semaphores, events, `exit`, `stopWriting`, block counts), `cs` the
two critical sections, `base`, `pos`, `streamPos` the window, `hashBuf` and `btBuf` the
rings with what each slot holds. A position stands for its byte: a block that is seen late
or overwritten shows wrong positions. One-thread encoding is the action `EncodeAlone`.

**BloscPool** is the part of blosc2 where zmat's calls meet its threads:
`blosc2_set_nthreads`, `blosc1_compress` and `blosc1_decompress` on the global context,
`check_nthreads`, the pool's creation and release, both kinds of barrier
(posix barriers, or a counter with a condition variable), the dynamic and the static
schedule of `t_blosc_do_job`, and the serial loop. What the blocks give is chosen with the
job, so that the threads' answer can be compared with what one thread may answer.

**PyZmat** is the extension, one action per call of the interpreter or the library that
may fail; `ptr` and `held` say which pointers are set and which are owned, `err` whether an
exception is set. **PyArray** is the package over it: arrays that are compressed with
info by `compress` or `zmat`, with or without NumPy, and restored by either.

## Runs

| run | expects | states | shows |
|---|---|---|---|
| `pool` | pass | 110 105 | pool properties and the refinement of ZmatJob |
| `indexed` | pass | 58 695 | no leak, own index decodes and is used up to the cap, fallback |
| `indexed_stale` | violation | | an index of another version is accepted |
| `lzip` | pass | 1 420 | slices, joins, order of members, loss only without memory |
| `elzma` | pass | 61 475 | only whole streams accepted, when one is refused |
| `elzma_footer` | violation | | the footer is not always in the buffer of the end mark |
| `run` | pass | 28 463 | each exit releases what is open, cut and damaged streams, limits, the readers, the refinement of ZmatRun |
| `run_wide` | violation | | a wide input is cut modulo 2^32 |
| `blosc` | pass | 281 436 | jobs apart, blocks tile the stream, the serial answer |
| `xz` | pass | 268 508 | blocks once and in order, buffers apart, the reader's turn never waits |
| `lzma` | pass | 703 552 | blocks seen whole, the window holds, success covers the document |
| `python` | pass | 40 615 | ownership, exceptions, arrays come back |

Bounds, and why they are enough:

* `pool`: three threads and four blocks. A thread takes a second block while two
  others hold theirs; a fourth thread behaves as the third. The theorems remove the
  bound.
* `indexed`: blocks of three units and versions of 3, 5, 6 and 8 units: at the
  threshold, with a short last block, an exact multiple, and three blocks. Three
  calls: two compressions and a decompression are what it takes to mix up an index.
  Requests -1, 0 and 1 are all the gate can tell apart. The cap is 6: two versions are
  below it, one at it, one above. `indexed_stale` has none above the
  cap, and sets `Accidents = FALSE`, so that the violation never rests on meaningless bits.
* `lzip`: up to three threads, slices of at least three units, inputs that are below
  the threshold, exactly at it, with a short last slice, and above the cap. The
  scaled constants keep the relation that the code has: 127 threads at most and 1024
  bytes per slice at least.
* `elzma`: input buffers of 4 bytes, output buffers of 2, a footer of 2: data up to
  9 bytes puts the end mark and each byte of the footer at every offset of two
  buffers; content up to 5 needs three output buffers.
* `run`: one codec of each shape and a method that is none. A smallest buffer of 4 and a cap
  of 9, two doublings away as twenty doublings of 1 KB reach 1 GB, the last of them short of
  twice; documents just below, at and above the cap. The 32-bit counts hold less than 20, an
  int less than 10, a `size_t` less than 64: 21 is cut to 1 by a count, and four times 21
  wraps; packed sizes of 10, 13 and 21 come out of zstd's int as a huge size, as one of its
  error codes and as 1. Every allocation and every codec may fail at each place. gzip
  members with every combination of fields, with none and with all of them cut at every
  length, damaged in each part, doubled, with a tail; xz streams of up to two blocks cut at
  each part, doubled, padded; base64 texts of every length modulo three, with and without
  line feeds, changed, cut or spaced at each place. `run_wide` is ZmatRun alone, with
  documents wider than the counts.
* `blosc`: three threads, documents of one block and of three, the last short, blocks that
  fit, do not fit for their sum, or fail; two calls, so that the pool is kept, resized and
  used by a decompression that did not ask for it. A third call meets no new state: what
  one call leaves is the pool and its count.
* `xz`: three threads, sizes of one, two and three blocks, two failures. The split gives at
  most as many blocks as threads, so zmat never fills the ring of blocks a second time.
* `lzma`: a document of 47 positions against hash blocks of four, match blocks of eleven and
  two of each, so that both rings go round several times, and a reserve of three, so
  that the window moves several times while blocks wait in both; a document shorter than a
  hash; one failure, at any step.
* `python`: arrays of none to three elements of one to three bytes, levels that fit a `char`
  and levels that do not, every kind of index with every function, and at each call of the
  interpreter a failure.

Fairness. Each thread and the caller are weakly fair in `ZmatPool`, `ZmatLzip`, `BloscPool`,
`MtCoder` and `LzFindMt`: the operating system runs each thread that can run, and a join, a
lock, a semaphore or an event that can go on does. No order among threads that wait for
one lock is assumed: with finitely many blocks a thread is overtaken finitely often.
`BloscPool` has no fairness for `Call`: a client need not call again.
`ElzmaDecompress` and `ZmatSerial` are one thread that runs its function to the end.
`ZmatIndexed` and `PyArray` state no liveness: each call is a finite sequence of steps, and
the client need not call.

Deadlock is checked in every run; the stuttering steps at the end (`Finished`, `Ended`)
stand for a caller that has its answer.

## Proofs

The theorems hold for every value of the constants that meets the assumption of
the module (`PoolAssumption`, `IndexedAssumption`, `LzipAssumption`,
`ElzmaAssumption`, `RunAssumption`, `RoundsAssumption`, `SerialAssumption`, `TextAssumption` and
`StreamAssumption`, `BloscAssumption`, `MtCoderAssumption`, `LzFindMtAssumption`, `PyAssumption`
and `ArrayAssumption`, which TLC evaluates in the runs of their modules).
Each follows the same plan: an inductive invariant, its preservation action by action, and
the property from it. The type invariant of these modules is part of the inductive
invariant; the runs check what it does not say. Where actions are long, a lemma whose name
ends in `Does` says what one of them changes, and each part of the invariant is preserved
by a lemma whose name ends in `Step`.

What a recursive function computes for every input takes induction over data. The library's
induction theorems have an operator as a parameter, which the provers cannot instantiate; the
lemma `Induction` says the same of a set of numbers (a set that holds 0 and the successor of
each member holds all), proved once from `WFMin` and `NatLessThanWellFounded`. What is to be
shown of all lengths, blocks or parts is written as such a set. Functions that the proofs
compute with are recursive functions or folds written out for the same reason: of
`SelectSeq` and its like the provers know nothing.

* **ZmatPoolProofs.** `BlocksPartitioned` alone is not inductive: after the read of the
  counter nothing in it says that the counter still has the value read. `IInv` adds
  who is inside the critical section (`LockInv`), that `idx` equals `next` between
  the read and the write and that two workers never hold one block (`ClaimInv`), that
  a failed block has a worker on its way to raise the flag or the flag is up
  (`FaultInv`), that a worker leaves normally only when no block is left or the
  flag is up (`ExitInv`), and what the caller has spawned and joined at each point
  (`PhaseInv`). From it follow `TypeCorrect`, `Partitioned`, `JoinedBeforeReturn`,
  `StopsEarly`, and `PoolImplementsJob`: the steps of the codec are steps `Process` of
  ZmatJob, the return is `Answer`, everything else stutters.
* **ZmatIndexedProofs.** `LInv` gives the live allocations at each point: while the buffers are
  allocated, `bufs` of them and the array; after an abandoned path, nothing. `NoLeak`,
  `FallsBack` and type correctness follow. That the index handed out is never the null index
  needs the lemma `IndexNotNull`. For `OwnIndexDecodes` the layout of a stream is a function of
  its blocks, and by induction the rows of the index are where it says the segments are, so that
  each row passes the checks, if the document is not above the cap, and yields exactly its slice
  of the document, and the slices joined are the document (`DInv`). `OwnIndexIsGood` says when
  that index is turned down and what an error may come of, for every cap. The module also holds
  the Python part. `OwnInv` says what the extension owns at each place and `AnswerInv` what it
  may answer; from them `NothingKept` and `ErrorOrResult`. `ArrayComesBack` rests on
  `PackageInv`, and on unshuffling being the inverse of shuffling for every element size that
  divides the length (the arithmetic of rows and columns).
* **ZmatLzipProofs.** `LInv` relates each thread's state to the loop variables of the
  caller. `SlicesTile` is arithmetic: the chunk is rounded up by less than the number
  of threads, and is at least as long as there may be threads, so one slice less than
  all of them stays within the input (`DivBelow`, `LastSlice`). The assumption
  `MaxThreads <= MinChunk` is the code's 127 <= 1024. `LossNeedsLostMemory` has an invariant
  of its own (`DocInv`): the members made are the slices in their order, and what is decoded
  is the document up to the member that is next, joined slice by slice (`JoinSlices`).
* **ElzmaDecompressProofs.** `EInv` says that inside the loop `dstLen` is the size of
  the output buffer and `bufOff + amt = srcLen`, and that the end mark means all data
  is consumed and all content written; then only a whole stream can agree with its
  footer or header. `RefusedOnlyAtBoundary` is an equivalence, so it also needs where the
  input buffer lies in the stream: `FooterInv` says that each buffer but the last begins at a
  multiple of its size, from which the offset of the end mark decides whether the
  footer is in the same buffer.
* **ZmatRunProofs.** `RInv` says which codecs reach each point and with what
  (`PathInv`), which buffers and states are allocated and open there (`HeapInv`), that
  inflate's answer "end" means a whole document and that a sound document
  asks for a larger buffer only when it does not fit (`ContentInv`), and that the buffer is
  never smaller than the doublings that `rounds` counts would have made it (`BufferInv`).
  `AllOrNothing` is `HeapInv` at the end, and `HeapInv` is shown exit by exit: at each place
  what the code frees and closes there is what is allocated and open there. Of an owner's
  answer `ContentInv` keeps what a success says of the stream (`Faithful`) and what an error
  may come of (`Refusable`) until zmat returns. `BufferInv`
  is what `LimitsAreTheCap` needs: when the rounds are used up, the buffer is at the cap.
  `Reach` is a way from the smallest buffer to the cap in `MaxRounds` steps that at most
  double, and `RoundsAssumption` says there is one. It stands for `MaxAlloc <= MinOut *
  2^MaxRounds`, which the provers, knowing nothing of powers, could not use. The two lemmas
  `FailEnds` and `SucceedEnds` say what an error and a success must have established;
  each exit is brought under one of them. zstd's int needs `SizeKept`: a size below 2^31 is
  announced as it is. Above, the size announced is excepted (`SizeLost`), the buffer is not.
  The same module proves `StaysInside` of ZmatSerial. For gzip the invariant is that
  `start` is within the input at each point, and just behind the fixed header where the extra
  field begins. For base64 it is arithmetic: unless the test for overflow refuses it, four
  times the length did not wrap (`PackedFits`), and the size computed from it covers the
  groups, a line feed for each full line, one more and the NUL, for every line length
  (`TextFits`). `SerialAssumption` asks for a `size_t` of at least 24 values, below which the
  overflow test would not see every wrap.
  `RoundTrip` is about base64 both ways. What the decoder keeps of a text (`Kept`, a recursive
  function) is what the encoder packed, with the line feeds gone, for every line length;
  a quad gives back its three bytes (`QuadBack`), and by induction over the groups the document
  comes back with its length. `TextInv` says that what is decoded is a text of
  `TextAssumption`.

  The refinement of ZmatRun is proved step by step (`SerialRefinesRun`): the initial
  states are ZmatRun's, every step of a reader but its return is a stutter, and the return is
  `RunOwner`, the one step that ZmatRun has for a reader. For that each reader must tell the
  fate of what it reads, and be refused only for what ZmatRun allows.
  gzip (`MeansInv`): `WalkInv` says where the walk over the header must be if the stream is
  sound, `FoundInv` what inflate has found, and `AnswerInv` what the answer means: success only
  for a sound document with its size, and a failure only without memory, for a
  stream that is not sound, or for a size that the trailer's 32 bits cannot hold.
  xz (`XzInv`): `PartInv` says that the parts taken come in the order of the format and that
  the decoder's state is the one that this order gives; `AmountInv` that what is collected, put
  out and still held by the decoder is the sum of the parts taken; `ReasonInv` that an error
  has the memory, the parts or the cap as its reason. Two lemmas carry it: `NotAFile`, that a
  part refused where it stands cannot belong to an xz file, and `FileAtEnd`, that
  `XzUnpacker_IsStreamWasFinished` holds at the end of exactly the sequences that are
  files. `FullInv` joins these to the invariant of ZmatRun. With it `AllOrNothing`,
  `DecodesTheWhole` and `LimitsAreTheCap` hold of the call with its readers in detail as
  well (`SerialAllOrNothing` and its two neighbours). The theorem is the safety part of
  `ImplementsRun`; its fairness stays with TLC.
* **BloscPoolProofs.** The barriers are used again at once and, without posix barriers, one
  counter serves both, counted up at the first and down at the second: what it means
  depends on where everybody is. `TeamInv` says so: the caller's place decides whether the
  threads gather at the first barrier, are in a job, or leave (`Gathering`, `Working`,
  `Ending`). `CountInv` says that a counter is the number of those asleep at its barrier, and
  `Arrival` and `Crowd` that an arrival completes it exactly when all others are there.
  `FitInv` is what check_nthreads keeps between the count asked for and the threads there are.
  `JobSeparated` and `PoolFits` follow. `DataInv` is about what a job does: `JobInv` the job's
  fields while it runs, `GiveupInv` which block made the workers give up, `StaticInv` that a
  thread of the static schedule has written its blocks up to where it is, and `QueueInv` that
  with the dynamic schedule each block counted out is held by one thread or has been placed,
  that the places do not overlap, and that `out` is the sum of the sizes of the
  blocks placed. The laws of these sums (one block more, all blocks, a bound by the largest)
  are lemmas by `Induction`. With the barriers' `IInv`, which says that nobody is still at work
  when the caller collects, follow `OutputTiles` and `AnswerAsSerial`.
* **MtCoderProofs.** For any number of threads. `CountInv` and `TurnInv`: who has counted
  itself finished and that one thread at most has the turn to read, from which `QuietAtEnd`
  follows, since the caller is woken by the last thread. `ReadInv`: every block before
  the end is whole, so that a document has no more blocks than the ring has places and
  `TurnNeverWaits`. `PlaceInv`, `BufferInv`: the blocks in flight have places and buffers
  of their own, and no buffer is lost: `BuffersApart`. For `WholeOrError` these are not
  enough: `ContentInv` and `OrderInv` add that, while nothing failed, each buffer holds the
  block of its place and the blocks in flight and waiting are exactly those between what
  is written and what is read; when all threads have finished there is no such block.
  `AnswerInv` says that a failure on any thread reaches one of the three results that the
  caller looks at.
* **LzFindMtProofs.** For any sizes of the two rings, the window, the dictionary and the
  document. `InOrder` and `WindowHolds` speak of the blocks two threads look at; they hold
  only because of every block between the threads. `CtrlInv` says where the three
  threads can be together, and what the flags of a hand-over say about the thread behind it.
  `HashCount` and `BtCount` relate the two counts of a ring to its two indices. `HashRing`
  and `BtRing` say that the filled blocks are a queue: each begins where the one before it
  ends, the first where its reader stands and the last ends where its writer stands, with
  the exceptions the code has at the end of a document (the last bytes have no heads, and a
  block of no bytes marks the end). `BtPlace`, `LeftInv` and `FillInv` say where the bt
  thread is between the rings. The same two conjuncts bound the lag: a thread
  is behind the one ahead by no more than the full blocks between them, which is what the
  window keeps, so `BehindInv` survives a move made at any moment. `AnswerInv` gives
  `WholeOrError`. The assumption has a match block longer than four times the longest
  match (16384 against 4 * 273), without which one position's matches could fill more than
  a place, and a hash no longer than the longest match, as the encoder's settings have it.

Model-checked only: liveness, in all modules, and with it the fairness in `ImplementsRun`.
TLAPS does not reason about fairness here. Every safety property of a passing run is
stated by a theorem.

## Where the code and its documentation part

With a run that shows it:

1. *A stale index can be accepted* (`indexed_stale`). `zmatlib.h:154-156`: "An index
   that does not describe the stream is rejected ... a stale index costs time but
   never correctness". The checks of `zmatlib.c:1571-1589` and the workers accept
   the index of an earlier, shorter version. With real data: a 12 MB document decoded
   with the index of its 8 MB predecessor gives rc 0 and 8 MB.
2. *A footer across a buffer boundary* (`elzma_footer`). `decompress.c:206`: "with lzip,
   we will have the footer left on the buffer!". Twelve sizes of stream just above
   64 KB do not round trip (rc -4).
3. *Wide input* (`run_wide`). `avail_in` has 32 bits and LZ4 takes an `int`; 4 GiB and
   100 bytes are compressed as 100 bytes, with rc 0, against `zmatlib.c:322`.

Met while modelling. The models have these behaviours; no run is about them.

* Blocked path. The fallback at `zmatlib.c:1700` changes the bytes of a stream, although
  `zmatlib.h:137-139` promises one output for every thread count. A document above
  `ZMAT_MAX_ALLOC` is compressed, but its own index is turned down (1581), and zlib's serial
  reader then refuses it with -5. The comments "with a single thread ... handed straight to
  zmat_run" (`zmatlib.c:1642`, `zmatlib.h:158`) describe neither `nthread` = 0 nor 1, which
  take the blocked path. When the `deflateInit2` of line 1457 fails the answer is rc 0 and a
  stream without an end, where the comment above it (1453) promises a final block "produced
  the same way a serial deflate would end the stream".
* lzip. `zmatlib.c:2419`: "if realloc fails, leave as v0 — single-member fallback still works";
  of several members it decodes the first only, with rc 0. A stream of several members that is
  cut, or damaged where the walk back looks, decodes to its first member with rc 0 (851-898,
  972); so does a sound one when the arrays of the walk cannot grow (876).
* Serial call. zstd's size goes through an `int` (622, 634): a stream of 2 GiB or more is
  announced with another size and rc 0 (`SizeLost`), or taken for an error. A document of
  exactly `ZMAT_MAX_ALLOC` bytes is refused (281). An lz4 block cut between two sequences
  decodes with rc 0 (1027). Empty xz content decodes to NULL with rc 0; empty content is refused
  by blosc2.
* gzip reader. A gzip file of two equal members decodes to one copy: the trailer of the
  second fits the first.
* xz writer. With one thread a document whose length is a multiple of the block's ends in an
  extra empty block; with more it does not.
* Python. A `level` above 1 is taken as the default, and `level` 0 or -256 decompresses
  (`pyzmat.c:291` against `__init__.py:69-71`); `nthread` and `level` pass through a `char`
  (`pyzmat.c:154-157`); an empty input gives bytes, not a pair, with `return_offsets`;
  `_byte_unshuffle` raises ImportError without NumPy although `__init__.py:166` says raw
  bytes are returned; an entry of the offsets' list that could not be made leaves an
  exception set beside the object returned.

Seen while reading the code. The models do not have these.

* Blocked path. The checksum is computed over `(unsigned int)inputsize` (1524, 1534), wrong
  above 4 GiB: ZmatIndexed is about documents that the 32-bit counts hold.
* gzip writer. The place of the trailer is kept in an `int` (460), which a stream of 2 GiB
  passes: ZmatRun has the sizes of that branch and its exits, not the place.
* easylzma. `elzma_decompress_alloc` clears the handle that malloc gave it without testing it
  for NULL (`decompress.c:41`), and what `LzmaDec_Allocate` answers is not looked at (136):
  ElzmaDecompress begins with both at hand.
* base64. `zmatlib.h` documents the modes with line feeds the wrong way round.
* blosc2. `blosc1_set_compressor` and `blosc2_set_nthreads` set state of the whole process
  (`zmatlib.c:654`): two calls at once may take each other's. The answer of
  `init_threadpool` is not looked at (`blosc2.c:2166`).
* Python. `typesize` passes through a `char` as well, and `nthread` is 8 by default where the
  doc says 0 (`__init__.py:219`, 243).

## Not modelled, and why

* The codecs themselves (deflate, LZMA, lz4, zstd, blosc2's filters and frames, xxHash) are
  third-party algorithms over bytes: the modules hold the contract that `zmatlib.c` and the
  threads rely on, marked external in the map where the code is not modelled. They are nearly
  all of the repository's lines (miniz, zstd and blosc2's frame and plugin code alone are
  most of them), so the share of lines the map covers stays small whatever is added: of
  `zmatlib.c` and the Python code most is mapped, and of the vendored libraries the parts that
  run threads for zmat.
* Compressed bytes, headers and checksums are abstracted to what they tell: length,
  whole, cut or damaged.
* The bytes behind the data in the reader's buffer (`decompress.c:203`): ElzmaDecompress shows
  that they never pass for a footer, not that they are never looked at. What a reader
  allocates for itself is not counted; ElzmaDecompress, GzipReader and XzReader have the
  loops and the answers.
* `zmat.m` does in MATLAB what the Python package does; what could go wrong is in MATLAB's
  `typecast` and `reshape`, which no source here defines. The MEX gateway `src/zmat.cpp` copies
  arguments and results between MATLAB's memory and `zmat_run_indexed`; its rules of ownership
  are mxArray's. (Reading it shows that the `inputdim` it allocates is not freed when info is
  asked for.) The Fortran interface declares functions. `zmat_keylookup` and `zmat_error` are
  table lookups.
* Two calls of zmat at the same time: they share nothing except blosc2's process-wide settings,
  which is listed as a hazard.
* BloscPool: threads asked for are created, a condition variable wakes only when signalled,
  and the destination has `inputsize` plus the overhead, as zmat gives it. Left out: runs of one
  byte, prefilters, dictionaries, callbacks in the place of threads, environment variables.
* MtCoder and LzFindMt: events, semaphores and critical sections do not fail; memory, threads,
  the encoder and the output do. The callback for multi-threaded reading of lzma2 streams is
  not used by zmat. LzFindMt models lzip, of which lzma is the part without a footer, one
  encoding per encoder as zmat does, without the 32-bit normalisation of positions and the
  wrap of the cyclic buffer, which come after 4 GB.

## Plan

Done: ZmatJob, ZmatPool, ZmatIndexed, ZmatLzip, ElzmaDecompress, ZmatRun, BloscPool, MtCoder and
LzFindMt, each with proofs but the first, whose proof is ZmatPool's; the readers (GzipReader,
XzReader, Base64) and ZmatSerial, proved about in ZmatRunProofs; PyZmat and PyArray, proved
about in ZmatIndexedProofs, which is where the stream they call for is proved to decode. What is
left would widen the models, not the proofs: the 32-bit normalisation of the match finder's
positions, and two calls at the same time over blosc2's process-wide settings.

To check: `tlc -config MCZmatPool.cfg MCZmatPool` and likewise for each row of the
table (the `run` row is MCZmatSerial; `lzma` and `blosc` take about a minute);
`tlapm ZmatPoolProofs.tla` and likewise for each `Proofs` module. From nothing ZmatRunProofs takes
some ten minutes, LzFindMtProofs six, BloscPoolProofs five, the others less.
