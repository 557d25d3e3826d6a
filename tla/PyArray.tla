------------------------------ MODULE PyArray ------------------------------
(***************************************************************************)
(* The Python package over the extension: compress, decompress and zmat of   *)
(* zmat/__init__.py with info.  An array is compressed by one of two ways,   *)
(* the bytes and the info dictionary are kept, and later, perhaps where       *)
(* there is no NumPy, restored by either way.  Calls of the extension with    *)
(* bytes are made too.                                                      *)
(***************************************************************************)
EXTENDS PyZmat, Sequences

CONSTANTS Arrays,   \* records of typesize, content and order
          Blosc,    \* the methods with "blosc2" in their names
          Levels,   \* level and iscompress
          RawCalls  \* calls of the extension by itself

\* The bytes of an array are those of its elements.
ASSUME ArrayAssumption ==
  \A a \in Arrays : /\ a.typesize \in Nat \ {0} /\ a.content \in Seq(Int)
                    /\ Len(a.content) % a.typesize = 0

VARIABLES
  apc,      \* where the client is
  array,    \* the array compressed
  shuffle,  \* the argument
  info,     \* the info dictionary
  packed,   \* the bytes kept
  restored  \* what came back, or "none" or an exception

arrayVars == <<apc, array, shuffle, info, packed, restored>>
avars == <<pyVars, arrayVars>>

NoInfo == [method |-> "", order |-> "", shuffle |-> 0, typesize |-> 1]
Nothing == [content |-> <<>>, order |-> "none"]
Bytes(of) == [content |-> of, order |-> "bytes"]
Raised == [content |-> <<>>, order |-> "raised"]

-----------------------------------------------------------------------------
(* The byte-shuffle filter *)

\* _byte_shuffle: an n by typesize matrix of bytes, by columns.
Shuffled(s, typesize) ==
  LET n == Len(s) \div typesize
  IN  [i \in 1 .. Len(s) |-> s[((i - 1) % n) * typesize + (i - 1) \div n + 1]]

\* _byte_unshuffle: a typesize by n matrix, by columns.
Unshuffled(s, typesize) ==
  LET n == Len(s) \div typesize
  IN  [i \in 1 .. Len(s) |-> s[((i - 1) % typesize) * n + (i - 1) \div typesize + 1]]

UseShuffle(method) == shuffle > 0 /\ method \notin Blosc /\ method # "base64"

\* A faulty condition: what the caller asks for is recorded, not what was done.
ApplyAsAsked(method) == shuffle > 0

Apply(method) == UseShuffle(method) /\ array.typesize > 1

-----------------------------------------------------------------------------
AInit ==
  /\ PyIdle /\ args = [fn |-> "none"]
  /\ apc = "idle" /\ array = [typesize |-> 1, content |-> <<>>, order |-> "C"] /\ shuffle = 0
  /\ info = NoInfo /\ packed = Null /\ restored = Nothing

Arguments(fn, data, method, level) ==
  [fn |-> fn, data |-> data, method |-> method, level |-> level, nthread |-> 8,
   offsets |-> "none", pair |-> FALSE]

\* bytes in, bytes out: the extension's own functions.
CallRaw ==
  /\ apc = "idle" /\ apc' = "raw" /\ \E c \in RawCalls : Enter(c)
  /\ UNCHANGED <<array, shuffle, info, packed, restored>>

\* compress(arr, info=True) and zmat(arr, info=True)
CompressArray ==
  /\ apc = "idle" /\ apc' = "compressing"
  /\ array' \in Arrays /\ shuffle' \in {0, 1}
  /\ \E fn \in {"compress", "zmat"}, method \in Methods, level \in Levels :
       /\ info' = [method |-> method, order |-> array'.order,
                   shuffle |-> IF Apply(method)' THEN shuffle' ELSE 0, typesize |-> array'.typesize]
       /\ LET flat == IF Apply(method)' THEN Shuffled(array'.content, array'.typesize)
                      ELSE array'.content
          IN  Enter(Arguments(fn, Raw(flat), method, level))
  /\ UNCHANGED <<packed, restored>>

\* The exception passes through, or the bytes and the info are returned.
Compressed ==
  /\ apc = "compressing" /\ epc = "returned"
  /\ packed' = answer /\ apc' = IF err THEN "ended" ELSE "kept"
  /\ UNCHANGED <<pyVars, array, shuffle, info, restored>>

\* decompress(data, info=info) and zmat(data, info=info): the method is the info's.
RestoreArray ==
  /\ apc = "kept" /\ apc' = "restoring"
  /\ \E fn \in {"decompress", "zmat"} : Enter(Arguments(fn, packed, info.method, 0))
  /\ UNCHANGED <<array, shuffle, info, packed, restored>>

Unshuffles == info.shuffle > 0 /\ info.typesize > 1 /\ info.method \notin Blosc

\* With NumPy the array is rebuilt, if there are as many bytes as it has; without it the
\* filter cannot be undone and raises, and what needs no filter is returned as bytes.
Restored ==
  /\ apc = "restoring" /\ epc = "returned" /\ apc' = "ended"
  /\ LET raw == IF Unshuffles THEN Unshuffled(answer.of, info.typesize) ELSE answer.of
     IN  \/ err /\ restored' = Raised
         \/ ~err /\ restored' = IF Len(raw) = Len(array.content)
                                  THEN [content |-> raw, order |-> info.order] ELSE Raised
         \/ ~err /\ ~Unshuffles /\ restored' = Bytes(raw)
         \/ ~err /\ Unshuffles /\ restored' = Raised
  /\ UNCHANGED <<pyVars, array, shuffle, info, packed>>

Answered == apc = "raw" /\ epc = "returned" /\ apc' = "ended"
            /\ UNCHANGED <<pyVars, array, shuffle, info, packed, restored>>

Extension == PyStep /\ UNCHANGED arrayVars

Ended == apc = "ended" /\ UNCHANGED avars

ANext ==
  \/ CallRaw \/ CompressArray \/ Compressed \/ RestoreArray \/ Restored \/ Answered
  \/ Extension \/ Ended

ASpec == AInit /\ [][ANext]_avars

-----------------------------------------------------------------------------
(* Properties *)

\* An array compressed with info comes back byte for byte, in its order, by either way,
\* whichever way it went, with and without the filter; or an exception says why not.
\* (A level of 0 asks the extension to decompress.)
ArrayComesBack ==
  apc = "ended" /\ restored \notin {Nothing, Raised} /\ packed.form = "packed"
    => restored.content = array.content /\ restored.order \in {array.order, "bytes"}
=============================================================================
