------------------------------- MODULE PyZmat -------------------------------
(***************************************************************************)
(* The Python extension _zmat: pyzmat_zmat, pyzmat_compress,                 *)
(* pyzmat_decompress, pyzmat_encode and pyzmat_decode, from their arguments  *)
(* to the object or the exception they return.  Every call of the            *)
(* interpreter that may fail may fail here.                                 *)
(*                                                                          *)
(* A bytes object is what it holds: raw content, or content packed by a      *)
(* method.  zmat_run and zmat_run_indexed are their contract, as ZmatRun and *)
(* ZmatIndexed have it: on an error the output is NULL, and an index that was *)
(* given comes back.                                                        *)
(***************************************************************************)
EXTENDS Integers

CONSTANTS Methods,  \* zipmethods
          Blocked,  \* those that may give an index
          Lax       \* those that may take what is not theirs for a stream

ASSUME PyAssumption == Blocked \subseteq Methods /\ Lax \subseteq Methods

VARIABLES
  epc,      \* where the call is
  args,    \* its arguments
  ptr,     \* which of view, out, index, seq and result are not NULL
  held,    \* which of them are owned
  twice,   \* whether something was released that was not owned
  content, \* what outputbuf holds
  index,   \* the index: "none", "given" or "made"
  err,     \* whether an exception is set
  spoiled, \* whether an entry of the list is NULL
  answer   \* the object returned

pyVars == <<epc, args, ptr, held, twice, content, index, err, spoiled, answer>>
resources == <<ptr, held, twice>>

Raw(of) == [form |-> "raw", by |-> "", of |-> of, index |-> "none"]
PackedBy(method, of) == [form |-> "packed", by |-> method, of |-> of, index |-> "none"]
Null == [form |-> "NULL", by |-> "", of |-> <<>>, index |-> "none"]
Rubbish == <<-1>>

-----------------------------------------------------------------------------
(* Arguments *)

\* An int cast to a signed char of flags.param.
AsChar(n) == LET low == n % 256 IN IF low >= 128 THEN low - 256 ELSE low

\* What compress() passes for its level.
IsCompress(level) == IF level >= 1 THEN 1 ELSE -level

\* flags.param.clevel and flags.param.nthread as the library unpacks them.
CLevel ==
  CASE args.fn = "zmat" -> AsChar(args.level)
    [] args.fn = "compress" -> AsChar(IsCompress(args.level))
    [] args.fn = "encode" -> 1
    [] args.fn \in {"decompress", "decode"} -> 0
NThread ==
  CASE args.fn = "zmat" -> AsChar(args.nthread)
    [] args.fn = "compress" -> AsChar(IsCompress(args.level) \div 256)
    [] OTHER -> 0

TakesIndex == args.fn = "zmat" /\ args.offsets # "none" /\ CLevel = 0

-----------------------------------------------------------------------------
(* Ownership *)

Got(new) == ptr' = ptr \cup new /\ held' = held \cup new /\ UNCHANGED twice

\* PyBuffer_Release, free, Py_DECREF: nothing for NULL.
Dropped(old) ==
  /\ held' = held \ old /\ twice' = (twice \/ (old \cap ptr) \ held # {})
  /\ UNCHANGED ptr

\* The references in old go to the caller or are dropped with the error.
Leave(object, exception, old) ==
  /\ epc' = "returned" /\ answer' = object /\ err' = exception /\ Dropped(old)

PyIdle ==
  /\ epc = "idle" /\ ptr = {} /\ held = {} /\ twice = FALSE /\ content = Null
  /\ index = "none" /\ err = FALSE /\ spoiled = FALSE /\ answer = Null

Enter(arguments) ==
  /\ epc' = "parse" /\ args' = arguments
  /\ ptr' = {} /\ held' = {} /\ twice' = FALSE /\ content' = Null /\ index' = "none"
  /\ err' = FALSE /\ spoiled' = FALSE /\ answer' = Null

-----------------------------------------------------------------------------
\* PyArg_ParseTupleAndKeywords: with "y*" the view is held from here on.
Parse ==
  /\ epc = "parse"
  /\ \/ Leave(Null, TRUE, {})
     \/ epc' = "check" /\ Got({"view"}) /\ UNCHANGED <<err, answer>>
  /\ UNCHANGED <<args, content, index, spoiled>>

\* Nothing in, nothing out, whatever was asked; then the method's name.
CheckArguments ==
  /\ epc = "check"
  /\ \/ args.data.of = <<>> /\ Leave(Raw(<<>>), FALSE, {"view"})
     \/ args.data.of # <<>> /\ args.method \notin Methods /\ Leave(Null, TRUE, {"view"})
     \/ /\ args.data.of # <<>> /\ args.method \in Methods
        /\ epc' = IF TakesIndex THEN "offsets" ELSE "run"
        /\ UNCHANGED <<resources, err, answer>>
  /\ UNCHANGED <<args, content, index, spoiled>>

\* The index supplied by the caller, as a sequence of its own.
Sequence ==
  /\ epc = "offsets"
  /\ \/ Leave(Null, TRUE, {"view"})
     \/ args.offsets # "no sequence" /\ Got({"seq"}) /\ epc' = "sequence" /\ UNCHANGED <<err, answer>>
  /\ UNCHANGED <<args, content, index, spoiled>>

\* One that is too short or odd, or for which there is no memory, is left out without a
\* word.
Reserve ==
  /\ epc = "sequence"
  /\ \/ Dropped({"seq"}) /\ epc' = "run"
     \/ args.offsets # "short" /\ Got({"index"}) /\ epc' = "convert"
  /\ UNCHANGED <<args, content, index, err, spoiled, answer>>

\* A faulty error path: the copy of the index is forgotten.
NotANumberForgets == Leave(Null, TRUE, {"view", "seq"})

NotANumber == Leave(Null, TRUE, {"view", "seq", "index"})

Convert ==
  /\ epc = "convert"
  /\ \/ args.offsets = "no number" /\ NotANumber /\ UNCHANGED index
     \/ /\ args.offsets # "no number" /\ index' = "given" /\ Dropped({"seq"}) /\ epc' = "run"
        /\ UNCHANGED <<err, answer>>
  /\ UNCHANGED <<args, content, spoiled>>

-----------------------------------------------------------------------------
\* What the library may make of the data.
Outputs ==
  IF CLevel # 0 THEN {PackedBy(args.method, args.data.of)}
  ELSE IF args.data.form = "packed" /\ args.data.by = args.method THEN {Raw(args.data.of)}
  ELSE IF args.method \in Lax THEN {Raw(Rubbish)} ELSE {}

MayMakeIndex ==
  CLevel # 0 /\ NThread >= 0 /\ args.method \in Blocked /\ args.fn \in {"zmat", "compress"}

\* zmat_run_indexed, or zmat_run for encode and decode.
RunCodec ==
  /\ epc = "run"
  /\ \/ epc' = "failed" /\ UNCHANGED <<resources, content, index>>
     \/ /\ content' \in Outputs /\ epc' = "ran"
        /\ \/ Got({"out"}) /\ UNCHANGED index
           \/ MayMakeIndex /\ Got({"out", "index"}) /\ index' = "made"
  /\ UNCHANGED <<args, err, spoiled, answer>>

\* A faulty error path: no exception is set.
FailedQuietly ==
  /\ epc = "failed" /\ Leave(Null, FALSE, {"view", "out", "index"})
  /\ UNCHANGED <<args, content, index, spoiled>>

Failed ==
  /\ epc = "failed" /\ Leave(Null, TRUE, {"view", "out", "index"})
  /\ UNCHANGED <<args, content, index, spoiled>>

\* A faulty release: the index is freed before it is asked for.
UnusedAlways == {"view", "index"}

\* compress and decompress have no use for the index; zmat keeps it.
Unused == IF args.fn = "zmat" THEN {"view"} ELSE {"view", "index"}

ReleaseView ==
  /\ epc = "ran" /\ epc' = "bytes" /\ Dropped(Unused)
  /\ UNCHANGED <<args, content, index, err, spoiled, answer>>

\* What zmat still owns and the others do not.
Owned == IF args.fn = "zmat" THEN {"out", "index"} ELSE {"out"}

Pair == args.fn = "zmat" /\ args.pair

\* PyBytes_FromStringAndSize, and what is freed after it.
MakeBytes ==
  /\ epc = "bytes"
  /\ \/ ~Pair /\ Leave(content, FALSE, Owned)
     \/ ~Pair /\ Leave(Null, TRUE, Owned)
     \/ /\ Pair /\ epc' = "list" /\ err' \in BOOLEAN /\ UNCHANGED <<twice, answer>>
        /\ ptr' = IF err' THEN ptr ELSE ptr \cup {"result"}
        /\ held' = (held \ {"out"}) \cup (IF err' THEN {} ELSE {"result"})
  /\ UNCHANGED <<args, content, index, spoiled>>

\* The list of the offsets, and the pair.  A number that cannot be made leaves a hole in
\* the list, and the exception set.
MakeList ==
  /\ epc = "list"
  /\ \/ Leave(Null, TRUE, {"index", "result"}) /\ UNCHANGED spoiled
     \/ /\ ~err /\ Leave([content EXCEPT !.index = index], FALSE, {"index", "result"})
        /\ UNCHANGED spoiled
     \/ /\ ~err /\ index # "none" /\ spoiled' = TRUE
        /\ Leave([content EXCEPT !.index = index], TRUE, {"index", "result"})
  /\ UNCHANGED <<args, content, index>>

-----------------------------------------------------------------------------
PyStep ==
  \/ Parse \/ CheckArguments \/ Sequence \/ Reserve \/ Convert \/ RunCodec \/ Failed \/ ReleaseView \/ MakeBytes
  \/ MakeList

-----------------------------------------------------------------------------
(* Properties *)

\* Whatever fails, a call leaves nothing behind that it owns and releases nothing twice: the
\* view of the input, the library's output and index, and the objects half made.
NothingKept == epc = "returned" => held = {} /\ ~twice

\* What the interpreter demands: NULL goes with an exception and an object without; the one
\* exception is the list with a number that could not be made.
ErrorOrResult == epc = "returned" => (answer = Null) = err \/ (spoiled /\ err)
=============================================================================
